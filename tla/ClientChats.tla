----------------------------- MODULE ClientChats -----------------------------
(***************************************************************************)
(* The session and the ordinary chats of one client: AuthManager and       *)
(* StateManager, ChatManager with its websocket and LocalChatStorage, and  *)
(* ConnectionManager, which gives every request the token of the moment.   *)
(*                                                                         *)
(* The client runs in one thread.  A request is answered in two steps: the *)
(* server serves it, and later its reply is applied; in between the user   *)
(* may do anything, log out included.  The server is what ChatMessages     *)
(* promises when messages are committed one after the other.               *)
(***************************************************************************)
EXTENDS Naturals, Sequences, FiniteSets, FiniteSetsExt

CONSTANTS
  Users,
  NoUser,
  Chats,
  MembersOf,   \* the users of each chat
  MaxPosts,    \* bound on the messages posted
  MaxCalls,    \* bound on the requests under way
  PageSize,    \* limit=50
  Scenarios    \* bounds a behaviour may choose from

(* change: what ends in fetchChats, as createGroupChat and markChatAsRead;  *)
(* direct: openDirectChat                                                   *)
Kinds == {"login", "user_id", "previews", "history", "send", "change", "direct"}

Limits == {"calls", "logouts", "restarts", "faults", "themes", "posts"}

Scenario == [kinds : SUBSET Kinds, logins : SUBSET Users, limits : [Limits -> Nat]]

ASSUME ClientAssumption ==
  /\ NoUser \notin Users
  /\ Chats # {}
  /\ MembersOf \in [Chats -> SUBSET Users]
  /\ MaxPosts \in Nat /\ MaxCalls \in Nat \ {0}
  /\ PageSize \in Nat \ {0}
  /\ Scenarios \subseteq Scenario

Ids == 1 .. MaxPosts

Slots == 1 .. MaxCalls

Someone == Users \cup {NoUser}

(***************************************************************************)
(* auth is the user of the token it carries; user the one it names; before *)
(* and oldest are the arguments of fetchChatHistory and what its reply     *)
(* captures (0: none); answer the ids in the reply.                        *)
(***************************************************************************)
Call == [kind : Kinds, auth : Someone, user : Someone, chat : Chats,
         before : Ids \cup {0}, oldest : Ids \cup {0},
         status : {"free", "asked", "ok", "error"}, answer : SUBSET Ids]

Session == [token : Someone, user : Someone]

VARIABLES
  token, userId,  \* m_token, by the user it was issued to, and m_userId
  disk,           \* the session that QSettings keeps
  messages,       \* ids in the table messages
  previews,       \* chats in the table chat_previews
  shown,          \* ids cleared from messages that the page may still show
  socket,         \* "none", "connecting" or "open"
  socketUser,     \* whose token it was opened with
  wire,           \* pushes on their way
  calls,          \* requests under way
  posted,         \* the server: the chat of each message, in order
  torn,           \* history: chats of which the client may have missed something
  late,           \* history: a reply was applied for a user who was not logged in
  overlap,        \* history: a login or logout while a login was under way
  left, scenario  \* what the behaviour may still do

session == <<token, userId, disk>>
storage == <<messages, previews, shown>>
push == <<socket, socketUser, wire>>
history == <<torn, late, overlap>>
vars == <<session, storage, push, calls, posted, history, left, scenario>>

NoCall == [kind |-> "change", auth |-> NoUser, user |-> NoUser,
           chat |-> CHOOSE c \in Chats : TRUE, before |-> 0, oldest |-> 0,
           status |-> "free", answer |-> {}]

TypeOK ==
  /\ token \in Someone /\ userId \in Someone /\ disk \in Session
  /\ messages \subseteq 1 .. Len(posted)
  /\ previews \subseteq Chats
  /\ shown \subseteq 1 .. Len(posted)
  /\ socket \in {"none", "connecting", "open"} /\ socketUser \in Someone
  /\ wire \in Seq(1 .. Len(posted))
  /\ calls \in [Slots -> Call]
  /\ posted \in Seq(Chats) /\ Len(posted) <= MaxPosts
  /\ torn \subseteq Chats
  /\ late \in BOOLEAN /\ overlap \in BOOLEAN
  /\ scenario \in Scenarios /\ left \in [Limits -> Nat]

Init ==
  /\ token = NoUser /\ userId = NoUser
  /\ disk = [token |-> NoUser, user |-> NoUser]
  /\ messages = {} /\ previews = {} /\ shown = {}
  /\ socket = "none" /\ socketUser = NoUser /\ wire = <<>>
  /\ calls = [s \in Slots |-> NoCall]
  /\ posted = <<>>
  /\ torn = {} /\ late = FALSE /\ overlap = FALSE
  /\ scenario \in Scenarios /\ left = scenario.limits

-----------------------------------------------------------------------------
Spend(limit) == left[limit] > 0 /\ left' = [left EXCEPT ![limit] = @ - 1]

Of(c, ids) == {m \in ids : posted[m] = c}

MyChats(u) == {c \in Chats : u \in MembersOf[c]}

UnderWay(kinds) == {s \in Slots : calls[s].kind \in kinds /\ calls[s].status # "free"}

Free == {s \in Slots : calls[s].status = "free"}

(* ConnectionManager adds the token of the moment *)
Ask(kind, user, chat, before, oldest) ==
  [kind |-> kind, auth |-> token, user |-> user, chat |-> chat,
   before |-> before, oldest |-> oldest, status |-> "asked", answer |-> {}]

Put(s, call) == calls' = [calls EXCEPT ![s] = call]

(* A request of the user interface, in the lowest free slot *)
Start(call) ==
  /\ call.kind \in scenario.kinds
  /\ Spend("calls")
  /\ Free # {} /\ Put(Min(Free), call)

AnyChat == NoCall.chat

OldestOf(c) == IF Of(c, messages) = {} THEN 0 ELSE Min(Of(c, messages))

(* Chats of which a page or a sent message may be in a reply under way *)
Awaited == {calls[s].chat : s \in UnderWay({"history", "send"})}

Announced == {posted[wire[n]] : n \in DOMAIN wire}

(* The client has some of the chat, or is about to get it *)
Cached(c) == Of(c, messages) # {} \/ c \in Awaited

-----------------------------------------------------------------------------
(* LocalChatStorage *)

(* An id that is there already is not inserted again *)
AddMessages(ids) == messages' = messages \cup ids

ClearChats(chats) == messages' = {m \in messages : posted[m] \notin chats}

UpdateChatPreviews(chats) == previews' = chats

ClearCache == messages' = {} /\ previews' = {} /\ shown' = {}

-----------------------------------------------------------------------------
(* AuthManager, StateManager *)

LoginUser(u) ==
  /\ token = NoUser /\ u \in scenario.logins
  /\ Start(Ask("login", u, AnyChat, 0, 0))
  /\ overlap' = (overlap \/ UnderWay({"login", "user_id"}) # {})
  /\ UNCHANGED <<session, storage, push, posted, torn, late, scenario>>

(* Mutant: the websocket stays open *)
LogoutKeepsSocket ==
  /\ token # NoUser
  /\ Spend("logouts")
  /\ ClearCache
  /\ UNCHANGED <<socket, socketUser, wire>>
  /\ token' = NoUser /\ userId' = NoUser
  /\ disk' = [token |-> NoUser, user |-> NoUser]
  /\ torn' = Awaited
  /\ late' = FALSE
  /\ overlap' = (overlap \/ UnderWay({"login", "user_id"}) # {})
  /\ UNCHANGED <<calls, posted, scenario>>

(* Mutant: the cleared session is not saved *)
LogoutForgotten ==
  /\ token # NoUser
  /\ Spend("logouts")
  /\ ClearCache
  /\ socket' = "none" /\ socketUser' = NoUser /\ wire' = <<>>
  /\ token' = NoUser /\ userId' = NoUser
  /\ torn' = Awaited
  /\ late' = FALSE
  /\ overlap' = (overlap \/ UnderWay({"login", "user_id"}) # {})
  /\ UNCHANGED <<disk, calls, posted, scenario>>

(* clearCache and clearState; requests under way are not aborted *)
Logout ==
  /\ token # NoUser
  /\ Spend("logouts")
  /\ ClearCache
  /\ socket' = "none" /\ socketUser' = NoUser /\ wire' = <<>>
  /\ token' = NoUser /\ userId' = NoUser
  /\ disk' = [token |-> NoUser, user |-> NoUser]
  /\ torn' = Awaited
  /\ late' = FALSE
  /\ overlap' = (overlap \/ UnderWay({"login", "user_id"}) # {})
  /\ UNCHANGED <<calls, posted, scenario>>

(* setTheme, setAccentColor: saveSession writes all of the session *)
SaveSettings ==
  /\ Spend("themes")
  /\ disk' = [token |-> token, user |-> userId]
  /\ UNCHANGED <<token, userId, storage, push, calls, posted, history,
                 scenario>>

(* What is on its way or not yet answered is missed *)
Missed ==
  {c \in Chats : /\ Cached(c)
                 /\ \/ c \in Announced
                    \/ \E s \in UnderWay({"send"}) : calls[s].chat = c}

Opening(u) == socket' = "connecting" /\ socketUser' = u /\ wire' = <<>>

(* setToken; fetchUserId takes the slot.  The page then opens a websocket. *)
LoginAnswered(s) ==
  /\ token' = calls[s].user
  /\ Put(s, [Ask("user_id", calls[s].user, AnyChat, 0, 0)
               EXCEPT !.auth = calls[s].user])
  /\ Opening(calls[s].user)
  /\ late' = (late \/ token \notin {NoUser, calls[s].user})
  /\ torn' = torn \cup Missed
  /\ UNCHANGED <<userId, disk, storage>>

(* The session is saved if the id changes and a token is there *)
SetUserId(u) ==
  /\ userId' = u
  /\ disk' = IF token # NoUser /\ userId # u
               THEN [token |-> token, user |-> u] ELSE disk

UserIdAnswered(s) ==
  /\ SetUserId(calls[s].user)
  /\ Put(s, NoCall)
  /\ UNCHANGED <<token, storage, push, torn, late>>

-----------------------------------------------------------------------------
(* ChatManager: requests *)

FetchChatsCall == Ask("previews", userId, AnyChat, 0, 0)

FetchChats ==
  /\ token # NoUser /\ userId # NoUser
  /\ Start(FetchChatsCall)
  /\ UNCHANGED <<session, storage, push, posted, history, scenario>>

(* Answered from the table unless more is asked for than it has.  before is *)
(* the topmost message on the page, which may be cleared from the table.    *)
ServedLocally(c, before) == OldestOf(c) # 0 /\ (before = 0 \/ before # OldestOf(c))

FetchChatHistory(c, before) ==
  /\ token # NoUser
  /\ ~ServedLocally(c, before)
  /\ Start(Ask("history", token, c, before, OldestOf(c)))
  /\ shown' = IF before = 0 THEN shown \ Of(c, shown) ELSE shown
  /\ torn' = IF before # 0 /\ OldestOf(c) = 0 THEN torn \cup {c} ELSE torn
  /\ UNCHANGED <<session, messages, previews, push, posted, late, overlap, scenario>>

SendMessage(c) ==
  /\ token # NoUser
  /\ Start(Ask("send", token, c, 0, 0))
  /\ UNCHANGED <<session, storage, push, posted, history, scenario>>

(* openDirectChat, and the changes that end in fetchChats *)
Change(kind, c) ==
  /\ token # NoUser
  /\ kind \in {"change", "direct"}
  /\ Start(Ask(kind, token, c, 0, 0))
  /\ UNCHANGED <<session, storage, push, posted, history, scenario>>

-----------------------------------------------------------------------------
(* The server, as ChatController answers *)

Page(ids) == {m \in ids : Cardinality({n \in ids : n > m}) < PageSize}

ServerIds == DOMAIN posted

LastIds(u) == {Max(Of(c, ServerIds)) : c \in {d \in MyChats(u) : Of(d, ServerIds) # {}}}

(* Mutant: before_id is off by one *)
AnswerToSkips(call) ==
  CASE call.kind = "previews" -> LastIds(call.auth)
    [] call.kind = "history" ->
         Page({m \in Of(call.chat, ServerIds) : call.before = 0 \/ m + 1 < call.before})
    [] OTHER -> {}

AnswerTo(call) ==
  CASE call.kind = "previews" -> LastIds(call.auth)
    [] call.kind = "history" ->
         Page({m \in Of(call.chat, ServerIds) : call.before = 0 \/ m < call.before})
    [] OTHER -> {}

Allowed(call) ==
  CASE call.kind \in {"login", "user_id"} -> TRUE
    [] call.kind = "previews" -> call.auth = call.user
    [] OTHER -> call.auth \in MembersOf[call.chat]

(* Message m of chat c is pushed to its members, but not to its sender *)
Announce(m, c, sender) ==
  /\ wire' = IF socket = "open" /\ socketUser \in MembersOf[c] \ {sender}
               THEN Append(wire, m) ELSE wire
  /\ torn' = IF Cached(c) /\ (socket # "open" \/ socketUser \notin MembersOf[c])
               THEN torn \cup {c} ELSE torn
  /\ UNCHANGED <<socket, socketUser>>

Serve(s) ==
  /\ calls[s].status = "asked"
  /\ IF ~Allowed(calls[s])
       THEN Put(s, [calls[s] EXCEPT !.status = "error"])
              /\ UNCHANGED <<posted, push, torn>>
     ELSE IF calls[s].kind = "send"
       THEN /\ Len(posted) < MaxPosts
            /\ posted' = Append(posted, calls[s].chat)
            /\ Put(s, [calls[s] EXCEPT !.status = "ok", !.answer = {Len(posted) + 1}])
            /\ Announce(Len(posted) + 1, calls[s].chat, calls[s].auth)
     ELSE /\ Put(s, [calls[s] EXCEPT !.status = "ok", !.answer = AnswerTo(calls[s])])
          /\ UNCHANGED <<posted, push, torn>>
  /\ UNCHANGED <<session, storage, late, overlap, left, scenario>>

(* Somebody else writes *)
Post(c) ==
  /\ Len(posted) < MaxPosts
  /\ Spend("posts")
  /\ posted' = Append(posted, c)
  /\ Announce(Len(posted) + 1, c, NoUser)
  /\ UNCHANGED <<session, storage, calls, late, overlap, scenario>>

Accepted ==
  /\ socket = "connecting"
  /\ socket' = "open"
  /\ UNCHANGED <<session, storage, socketUser, wire, calls, posted, history, left,
                 scenario>>

-----------------------------------------------------------------------------
(* ChatManager: replies *)

LateFor(s) == late \/ calls[s].auth # token

(* Chats whose newest saved message is not the one of the preview *)
Outdated(s) ==
  {c \in MyChats(calls[s].auth) :
     /\ Of(c, messages) # {}
     /\ Max(Of(c, messages)) # Max(Of(c, calls[s].answer) \cup {0})}

PreviewsAnswered(s) ==
  /\ UpdateChatPreviews(MyChats(calls[s].auth))
  /\ ClearChats(Outdated(s))
  /\ shown' = shown \cup (messages \ messages')
  /\ torn' = (torn \ Outdated(s)) \cup (Outdated(s) \cap (Awaited \cup Announced))
  /\ late' = LateFor(s)
  /\ Put(s, NoCall)
  /\ UNCHANGED <<session, push>>

(* What is older than the oldest one at the time of the request is saved *)
HistoryAnswered(s) ==
  /\ AddMessages({m \in calls[s].answer : calls[s].oldest = 0 \/ calls[s].oldest > m})
  /\ late' = LateFor(s)
  /\ Put(s, NoCall)
  /\ UNCHANGED <<session, previews, shown, push, torn>>

SendAnswered(s) ==
  /\ AddMessages(calls[s].answer)
  /\ late' = LateFor(s)
  /\ Put(s, NoCall)
  /\ UNCHANGED <<session, previews, shown, push, torn>>

ChangeAnswered(s) ==
  /\ Put(s, IF userId = NoUser THEN NoCall ELSE FetchChatsCall)
  /\ UNCHANGED <<session, storage, push, torn, late>>

DirectAnswered(s) ==
  /\ Put(s, IF ServedLocally(calls[s].chat, 0) THEN NoCall
            ELSE Ask("history", token, calls[s].chat, 0, OldestOf(calls[s].chat)))
  /\ UNCHANGED <<session, storage, push, torn, late>>

Reply(s) ==
  /\ calls[s].status = "ok"
  /\ CASE calls[s].kind = "login" -> LoginAnswered(s)
       [] calls[s].kind = "user_id" -> UserIdAnswered(s)
       [] calls[s].kind = "previews" -> PreviewsAnswered(s)
       [] calls[s].kind = "history" -> HistoryAnswered(s)
       [] calls[s].kind = "send" -> SendAnswered(s)
       [] calls[s].kind = "change" -> ChangeAnswered(s)
       [] calls[s].kind = "direct" -> DirectAnswered(s)
  /\ UNCHANGED <<posted, overlap, left, scenario>>

(* An error, or no reply at all: it is shown, and nothing else happens *)
ReplyFails(s) ==
  /\ calls[s].status # "free"
  /\ IF calls[s].status = "error" THEN UNCHANGED left ELSE Spend("faults")
  /\ torn' = torn \cup {c \in Chats : /\ Cached(c) /\ c = calls[s].chat
                                      /\ calls[s].kind = "send"}
  /\ Put(s, NoCall)
  /\ UNCHANGED <<session, storage, push, posted, late, overlap, scenario>>

-----------------------------------------------------------------------------
(* The websocket *)

ReceivePush ==
  /\ socket = "open" /\ wire # <<>>
  /\ AddMessages({Head(wire)})
  /\ wire' = Tail(wire)
  /\ UNCHANGED <<session, previews, shown, socket, socketUser, calls, posted, history,
                 left, scenario>>

(* Nothing opens it again before the next login or start *)
SocketLost ==
  /\ socket # "none"
  /\ Spend("faults")
  /\ socket' = "none" /\ socketUser' = NoUser /\ wire' = <<>>
  /\ torn' = torn \cup Missed
  /\ UNCHANGED <<session, storage, calls, posted, late, overlap, scenario>>

(* The application stops and starts: loadSession, connectWebSocket *)
Restart ==
  /\ Spend("restarts")
  /\ token' = disk.token /\ userId' = disk.user
  /\ calls' = [s \in Slots |-> NoCall]
  /\ IF disk.token # NoUser THEN Opening(disk.token)
       ELSE socket' = "none" /\ socketUser' = NoUser /\ wire' = <<>>
  /\ torn' = torn \cup Missed
  /\ late' = (late \/ disk.token # token)
  /\ shown' = {}
  /\ UNCHANGED <<disk, messages, previews, posted, overlap, scenario>>

-----------------------------------------------------------------------------
Next ==
  \/ \E u \in Users : LoginUser(u)
  \/ Logout \/ SaveSettings \/ FetchChats
  \/ \E c \in MyChats(token) :
       \E before \in {0, OldestOf(c)} \cup Of(c, shown) : FetchChatHistory(c, before)
  \/ \E c \in MyChats(token) : SendMessage(c)
  \/ \E c \in MyChats(token), kind \in {"change", "direct"} : Change(kind, c)
  \/ \E s \in Slots : Serve(s) \/ Reply(s) \/ ReplyFails(s)
  \/ \E c \in Chats : Post(c)
  \/ Accepted \/ ReceivePush \/ SocketLost \/ Restart

Spec == Init /\ [][Next]_vars

-----------------------------------------------------------------------------
(* Messages that a push or an answer to a sender is bringing *)
Arriving ==
  {wire[n] : n \in DOMAIN wire}
    \cup UNION {calls[s].answer : s \in {t \in Slots : /\ calls[t].kind = "send"
                                                      /\ calls[t].status = "ok"}}

(* The saved messages of a chat are its newest ones, without a hole: what  *)
(* is not saved and not on its way is older than all that is, as long as   *)
(* the client missed nothing: no message was sent while it had no          *)
(* websocket, no push or reply was lost, nothing was on its way while the  *)
(* saved messages were cleared, and the page did not ask for what lies     *)
(* before a cleared message.                                               *)
NoHoles ==
  \A c \in Chats \ torn :
    \A m \in Of(c, ServerIds) \ (messages \cup Arriving), n \in Of(c, messages) : m < n

(* The tables hold nothing of another user, unless a reply came when its   *)
(* user was no longer logged in.                                           *)
AccountsSeparate ==
  ~late => /\ \A m \in messages : posted[m] \in MyChats(token)
           /\ previews \subseteq MyChats(token)

(* Token and user id, in memory and saved, belong together, if logins and  *)
(* logouts never overlapped a login.                                       *)
SessionsAgree ==
  ~overlap =>
    /\ token # NoUser /\ userId # NoUser => token = userId
    /\ disk.user # NoUser => disk.token = disk.user
    /\ disk.token \in {NoUser, token}

-----------------------------------------------------------------------------
(* Why there are no holes: an invariant that each step keeps               *)

Known(c) == Of(c, messages \cup Arriving)

(* What is newer than one of the ids is among them, or known *)
Upward(c, ids) ==
  \A n \in ids, m \in Of(c, ServerIds) : n < m => m \in ids \cup Known(c)

(* A request for history continues what is saved, and so does its answer *)
Continues(c, s) ==
  /\ calls[s].before = calls[s].oldest
  /\ calls[s].oldest \in Of(c, messages) \cup {0}
  /\ calls[s].status = "ok" => Upward(c, calls[s].answer)

Whole(c) ==
  /\ Upward(c, Known(c))
  /\ \A s \in UnderWay({"history"}) : calls[s].chat = c => Continues(c, s)

HolesInv == \A c \in Chats \ torn : Whole(c)
=============================================================================
