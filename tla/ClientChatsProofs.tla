-------------------------- MODULE ClientChatsProofs --------------------------
(***************************************************************************)
(* Proofs about ClientChats, for any users, chats and messages, and any    *)
(* number of requests under way, faults and restarts.                      *)
(***************************************************************************)
EXTENDS ClientChats, FiniteSetTheorems, WellFoundedInduction, TLAPS

(* Min and Max are what their names say                                    *)

LEMMA LeastExists ==
  ASSUME NEW S \in SUBSET Nat, S # {}
  PROVE  \E x \in S : \A y \in S : x <= y
<1> DEFINE R == OpToRel(<, Nat)
<1>1. IsWellFoundedOn(R, Nat)
  BY NatLessThanWellFounded
<1>2. PICK x \in S : \A y \in S : ~ (<<y, x>> \in R)
  BY <1>1, WFMin
<1>3. \A y \in S : ~ (y < x)
  BY <1>2 DEF OpToRel
<1>4. \A y \in S : x <= y
  BY <1>3
<1>. QED
  BY <1>4

LEMMA MinType ==
  ASSUME NEW S \in SUBSET Nat, S # {}
  PROVE  Min(S) \in S
<1>1. \E x \in S : \A y \in S : x <= y
  BY LeastExists
<1>. QED
  BY <1>1, Zenon DEF Min

LEMMA MaxType ==
  ASSUME NEW n \in Nat, NEW S \in SUBSET (1 .. n), S # {}
  PROVE  Max(S) \in S
<1> DEFINE T == {n - x : x \in S}
<1>1. T \in SUBSET Nat /\ T # {}
  <2>1. \A x \in S : n - x \in Nat
    OBVIOUS
  <2>2. \A t \in T : t \in Nat
    BY <2>1
  <2>3. PICK x \in S : TRUE
    OBVIOUS
  <2>4. n - x \in T
    BY <2>3
  <2>. QED
    BY <2>2, <2>4
<1>2. PICK t \in T : \A y \in T : t <= y
  BY <1>1, LeastExists
<1>3. PICK x \in S : t = n - x
  BY <1>2
<1>4. \A y \in S : x >= y
  <2> TAKE y \in S
  <2>1. n - x <= n - y
    BY <1>2, <1>3
  <2>. QED
    BY <2>1
<1>. QED
  BY <1>4, Zenon DEF Max

-----------------------------------------------------------------------------
(* Types                                                                   *)

LEMMA IdsType ==
  ASSUME TypeOK
  PROVE  /\ Len(posted) \in Nat /\ ServerIds = 1 .. Len(posted) /\ ServerIds \subseteq Ids
         /\ messages \subseteq ServerIds /\ shown \subseteq ServerIds
         /\ \A m \in ServerIds : posted[m] \in Chats
<1>1. posted \in Seq(Chats) /\ Len(posted) <= MaxPosts
  BY DEF TypeOK
<1>2. Len(posted) \in Nat /\ DOMAIN posted = 1 .. Len(posted)
  BY <1>1
<1>. QED
  BY <1>1, <1>2, ClientAssumption DEF TypeOK, ServerIds, Ids

LEMMA OldestType ==
  ASSUME TypeOK, NEW c
  PROVE  OldestOf(c) \in Ids \cup {0}
<1>1. Of(c, messages) \subseteq ServerIds /\ ServerIds \subseteq Ids /\ Ids \subseteq Nat
  BY IdsType DEF Of, Ids
<1>2. CASE Of(c, messages) # {}
  <2>1. Min(Of(c, messages)) \in Of(c, messages)
    BY <1>1, <1>2, MinType
  <2>. QED
    BY <1>1, <2>1 DEF OldestOf
<1>. QED
  BY <1>2 DEF OldestOf

LEMMA AnyChatType == AnyChat \in Chats
BY ClientAssumption DEF AnyChat, NoCall

LEMMA NoCallType == NoCall \in Call
BY ClientAssumption DEF NoCall, Call, Kinds, Someone

LEMMA AskType ==
  ASSUME token \in Someone, NEW kind \in Kinds, NEW user \in Someone, NEW c \in Chats,
         NEW before \in Ids \cup {0}, NEW oldest \in Ids \cup {0}
  PROVE  /\ Ask(kind, user, c, before, oldest) \in Call
         /\ Ask(kind, user, c, before, oldest).status = "asked"
         /\ Ask(kind, user, c, before, oldest).kind = kind
         /\ Ask(kind, user, c, before, oldest).user = user
BY DEF Ask, Call

LEMMA MyChatsType == \A u : MyChats(u) \subseteq Chats
BY DEF MyChats

(* A call of the table *)
LEMMA CallType ==
  ASSUME TypeOK, NEW s \in Slots
  PROVE  /\ calls[s] \in Call
         /\ calls[s].kind \in Kinds /\ calls[s].auth \in Someone /\ calls[s].user \in Someone
         /\ calls[s].chat \in Chats /\ calls[s].answer \in SUBSET Ids
         /\ calls[s].status \in {"free", "asked", "ok", "error"}
<1>1. calls[s] \in Call
  BY DEF TypeOK
<1>. QED
  BY <1>1 DEF Call

LEMMA PutType ==
  ASSUME TypeOK, NEW s \in Slots, NEW call \in Call, Put(s, call)
  PROVE  /\ calls' \in [Slots -> Call] /\ calls'[s] = call
         /\ \A t \in Slots \ {s} : calls'[t] = calls[t]
BY DEF TypeOK, Put

LEMMA SpendType ==
  ASSUME TypeOK, NEW limit \in Limits, Spend(limit)
  PROVE  left' \in [Limits -> Nat]
BY DEF TypeOK, Spend

(* A request of the user interface takes a free slot *)
LEMMA StartType ==
  ASSUME TypeOK, NEW call \in Call, Start(call)
  PROVE  /\ \E s \in Slots : calls[s].status = "free" /\ Put(s, call)
         /\ calls' \in [Slots -> Call]
         /\ left' \in [Limits -> Nat]
<1>1. Free \subseteq Slots /\ Slots \subseteq Nat /\ Free # {}
  BY DEF Free, Slots, Start
<1>2. Min(Free) \in Free
  BY <1>1, MinType
<1>3. Min(Free) \in Slots /\ calls[Min(Free)].status = "free" /\ Put(Min(Free), call)
  BY <1>1, <1>2 DEF Start, Free
<1>4. left' \in [Limits -> Nat]
  BY SpendType DEF Start, Limits
<1>. QED
  BY <1>3, <1>4, PutType

LEMMA MissedType ==
  ASSUME TypeOK
  PROVE  Missed \subseteq Chats /\ Awaited \subseteq Chats
<1>1. \A s \in Slots : calls[s].chat \in Chats
  BY CallType
<1>. QED
  BY <1>1 DEF Missed, Awaited, UnderWay

(* What the server may answer *)
LEMMA AnswerType ==
  ASSUME TypeOK, NEW call \in Call
  PROVE  AnswerTo(call) \subseteq ServerIds
<1>1. \A c : Of(c, ServerIds) \subseteq ServerIds
  BY DEF Of
<1>2. LastIds(call.auth) \subseteq ServerIds
  <2>1. ASSUME NEW c \in {d \in MyChats(call.auth) : Of(d, ServerIds) # {}}
        PROVE  Max(Of(c, ServerIds)) \in ServerIds
    <3>1. Of(c, ServerIds) \in SUBSET (1 .. Len(posted)) /\ Len(posted) \in Nat
      BY <1>1, IdsType
    <3>2. Max(Of(c, ServerIds)) \in Of(c, ServerIds)
      BY <2>1, <3>1, MaxType
    <3>. QED
      BY <1>1, <3>2
  <2>. QED
    BY <2>1 DEF LastIds
<1>3. \A S : Page(S) \subseteq S
  BY DEF Page
<1>. QED
  BY <1>1, <1>2, <1>3 DEF AnswerTo

LEMMA InitTypes == Init => TypeOK
<1>1. ASSUME Init PROVE TypeOK
  <2>1. calls \in [Slots -> Call]
    BY <1>1, NoCallType DEF Init
  <2>2. posted = <<>> /\ Len(posted) = 0 /\ posted \in Seq(Chats) /\ wire \in Seq(1 .. Len(posted))
    BY <1>1 DEF Init
  <2>3. left \in [Limits -> Nat] /\ scenario \in Scenarios
    BY <1>1, ClientAssumption DEF Init, Scenario
  <2>4. late \in BOOLEAN /\ overlap \in BOOLEAN
    BY <1>1 DEF Init
  <2>. QED
    BY <1>1, <2>1, <2>2, <2>3, <2>4, ClientAssumption DEF Init, TypeOK, Someone, Session
<1>. QED
  BY <1>1

(* The rest of the state of a step that changes requests only              *)
LEMMA CallsOnly ==
  ASSUME TypeOK, calls' \in [Slots -> Call], left' \in [Limits -> Nat],
         UNCHANGED <<session, storage, push, posted, scenario>>,
         torn' \subseteq Chats, late' \in BOOLEAN, overlap' \in BOOLEAN
  PROVE  TypeOK'
BY DEF TypeOK, session, storage, push

LEMMA HistoryTypes ==
  ASSUME TypeOK
  PROVE  torn \subseteq Chats /\ late \in BOOLEAN /\ overlap \in BOOLEAN /\ token \in Someone
           /\ left \in [Limits -> Nat] /\ calls \in [Slots -> Call]
BY DEF TypeOK

LEMMA AskedTypes ==
  ASSUME TypeOK,
         \/ \E u \in Users : LoginUser(u)
         \/ FetchChats
         \/ \E c \in MyChats(token) : SendMessage(c)
         \/ \E c \in MyChats(token), kind \in {"change", "direct"} : Change(kind, c)
  PROVE  TypeOK'
<1>1. PICK call \in Call : Start(call)
  <2>1. token \in Someone /\ userId \in Someone /\ 0 \in Ids \cup {0}
    BY DEF TypeOK
  <2>2. ASSUME NEW u \in Users, LoginUser(u) PROVE \E call \in Call : Start(call)
    BY <2>1, <2>2, AskType, AnyChatType DEF LoginUser, Kinds, Someone
  <2>3. CASE FetchChats
    BY <2>1, <2>3, AskType, AnyChatType DEF FetchChats, FetchChatsCall, Kinds
  <2>4. ASSUME NEW c \in MyChats(token), SendMessage(c) PROVE \E call \in Call : Start(call)
    BY <2>1, <2>4, AskType, MyChatsType DEF SendMessage, Kinds
  <2>5. ASSUME NEW c \in MyChats(token), NEW kind \in {"change", "direct"}, Change(kind, c)
        PROVE  \E call \in Call : Start(call)
    BY <2>1, <2>5, AskType, MyChatsType DEF Change, Kinds
  <2>. QED
    BY <2>2, <2>3, <2>4, <2>5
<1>2. calls' \in [Slots -> Call] /\ left' \in [Limits -> Nat]
  BY <1>1, StartType
<1>3. UNCHANGED <<session, storage, push, posted, scenario, torn, late>>
  BY DEF LoginUser, FetchChats, SendMessage, Change, history
<1>4. overlap' \in BOOLEAN
  <2>1. CASE UNCHANGED overlap
    BY <2>1, HistoryTypes
  <2>2. ASSUME NEW u \in Users, LoginUser(u) PROVE overlap' \in BOOLEAN
    BY <2>2, Zenon DEF LoginUser
  <2>3. \/ UNCHANGED overlap
        \/ \E u \in Users : LoginUser(u)
    BY DEF FetchChats, SendMessage, Change, history
  <2>. QED
    BY <2>1, <2>2, <2>3
<1>. QED
  BY <1>2, <1>3, <1>4, CallsOnly, HistoryTypes

LEMMA FetchChatHistoryTypes ==
  ASSUME TypeOK, NEW c \in MyChats(token), NEW before \in {0, OldestOf(c)} \cup Of(c, shown),
         FetchChatHistory(c, before)
  PROVE  TypeOK'
<1>1. c \in Chats /\ before \in Ids \cup {0}
  BY MyChatsType, OldestType, IdsType DEF Of
<1>2. Ask("history", token, c, before, OldestOf(c)) \in Call
  BY <1>1, AskType, OldestType, HistoryTypes DEF Kinds
<1>3. calls' \in [Slots -> Call] /\ left' \in [Limits -> Nat]
  BY <1>2, StartType DEF FetchChatHistory
<1>4. torn' \subseteq Chats /\ shown' \subseteq 1 .. Len(posted)
  BY <1>1 DEF FetchChatHistory, TypeOK
<1>. QED
  BY <1>3, <1>4 DEF FetchChatHistory, TypeOK, session, push

LEMMA SessionTypes ==
  ASSUME TypeOK, Logout \/ SaveSettings
  PROVE  TypeOK'
<1>1. left' \in [Limits -> Nat]
  BY SpendType DEF Logout, SaveSettings, Limits
<1>2. CASE SaveSettings
  BY <1>1, <1>2 DEF SaveSettings, TypeOK, storage, push, history, Session
<1>3. CASE Logout
  <2>1. NoUser \in Someone /\ [token |-> NoUser, user |-> NoUser] \in Session
    BY DEF Someone, Session
  <2>2. torn' \subseteq Chats
    BY <1>3, MissedType DEF Logout
  <2>3. late' \in BOOLEAN
    BY <1>3 DEF Logout
  <2>4. overlap' \in BOOLEAN
    BY <1>3, Zenon DEF Logout
  <2>5. UNCHANGED <<calls, posted, scenario>>
    BY <1>3 DEF Logout
  <2>6. wire' = <<>> /\ messages' = {} /\ previews' = {} /\ shown' = {} /\ socket' = "none"
        /\ socketUser' = NoUser
    BY <1>3 DEF Logout, ClearCache
  <2>7. token' = NoUser /\ userId' = NoUser /\ disk' = [token |-> NoUser, user |-> NoUser]
    BY <1>3 DEF Logout
  <2>. QED
    BY <1>1, <2>1, <2>2, <2>3, <2>4, <2>5, <2>6, <2>7 DEF TypeOK
<1>. QED
  BY <1>2, <1>3

(* A message that is appended to the chats of the server                   *)
LEMMA PostedTypes ==
  ASSUME TypeOK, NEW c \in Chats, Len(posted) < MaxPosts, posted' = Append(posted, c)
  PROVE  /\ posted' \in Seq(Chats) /\ Len(posted') = Len(posted) + 1 /\ Len(posted') <= MaxPosts
         /\ messages \subseteq 1 .. Len(posted') /\ shown \subseteq 1 .. Len(posted')
         /\ \A m \in ServerIds : posted'[m] = posted[m]
         /\ posted'[Len(posted) + 1] = c
         /\ ServerIds' = ServerIds \cup {Len(posted) + 1}
         /\ wire \in Seq(1 .. Len(posted'))
         /\ Append(wire, Len(posted) + 1) \in Seq(1 .. Len(posted'))
<1>1. posted \in Seq(Chats) /\ Len(posted) \in Nat /\ wire \in Seq(1 .. Len(posted))
  BY DEF TypeOK
<1>2. posted' \in Seq(Chats) /\ Len(posted') = Len(posted) + 1
  BY <1>1
<1>3. \A m \in 1 .. Len(posted) : posted'[m] = posted[m]
  BY <1>1
<1>4. posted'[Len(posted) + 1] = c
  BY <1>1
<1>5. 1 .. Len(posted) \subseteq 1 .. Len(posted')
  BY <1>1, <1>2
<1>6. wire \in Seq(1 .. Len(posted'))
  BY <1>1, <1>5
<1>7. Append(wire, Len(posted) + 1) \in Seq(1 .. Len(posted'))
  BY <1>1, <1>2, <1>6
<1>8. ServerIds = 1 .. Len(posted) /\ ServerIds' = 1 .. Len(posted) + 1
  BY <1>1, <1>2 DEF ServerIds
<1>9. messages \subseteq 1 .. Len(posted') /\ shown \subseteq 1 .. Len(posted')
  BY <1>5 DEF TypeOK
<1>10. Len(posted') <= MaxPosts
  BY <1>1, <1>2, ClientAssumption
<1>11. ServerIds' = ServerIds \cup {Len(posted) + 1}
  BY <1>1, <1>8
<1>. QED
  BY <1>2, <1>3, <1>4, <1>6, <1>7, <1>8, <1>9, <1>10, <1>11

LEMMA AnnounceTypes ==
  ASSUME TypeOK, NEW c \in Chats, NEW m, NEW sender, Announce(m, c, sender)
  PROVE  /\ torn' \subseteq Chats /\ UNCHANGED <<socket, socketUser>>
         /\ wire' \in {wire, Append(wire, m)}
BY DEF Announce, TypeOK

LEMMA ServerTypes ==
  ASSUME TypeOK,
         \/ \E s \in Slots : Serve(s)
         \/ \E c \in Chats : Post(c)
  PROVE  TypeOK'
<1>1. ASSUME NEW c \in Chats, Post(c) PROVE TypeOK'
  <2>1. left' \in [Limits -> Nat]
    BY <1>1, SpendType DEF Post, Limits
  <2>2. /\ Len(posted) < MaxPosts /\ posted' = Append(posted, c)
        /\ Announce(Len(posted) + 1, c, NoUser)
        /\ UNCHANGED <<session, storage, calls, late, overlap, scenario>>
    BY <1>1 DEF Post
  <2>. QED
    BY <2>1, <2>2, PostedTypes, AnnounceTypes DEF TypeOK, session, storage
<1>2. ASSUME NEW s \in Slots, Serve(s) PROVE TypeOK'
  <2>1. /\ calls[s] \in Call /\ calls[s].chat \in Chats
        /\ UNCHANGED <<session, storage, late, overlap, left, scenario>>
    BY <1>2, CallType DEF Serve
  <2>2. CASE ~Allowed(calls[s])
    <3>1. [calls[s] EXCEPT !.status = "error"] \in Call
      BY <2>1 DEF Call
    <3>2. calls' \in [Slots -> Call] /\ UNCHANGED <<posted, push, torn>>
      BY <1>2, <2>2, <3>1, PutType DEF Serve
    <3>. QED
      BY <2>1, <3>2 DEF TypeOK, session, storage, push
  <2>3. CASE Allowed(calls[s]) /\ calls[s].kind = "send"
    <3>1. /\ Len(posted) < MaxPosts /\ posted' = Append(posted, calls[s].chat)
          /\ Put(s, [calls[s] EXCEPT !.status = "ok", !.answer = {Len(posted) + 1}])
          /\ Announce(Len(posted) + 1, calls[s].chat, calls[s].auth)
      BY <1>2, <2>3 DEF Serve
    <3>2. Len(posted) + 1 \in Ids
      BY <3>1, IdsType, ClientAssumption DEF Ids
    <3>3. [calls[s] EXCEPT !.status = "ok", !.answer = {Len(posted) + 1}] \in Call
      BY <2>1, <3>2 DEF Call
    <3>4. calls' \in [Slots -> Call]
      BY <3>1, <3>3, PutType
    <3>. QED
      BY <2>1, <3>1, <3>4, PostedTypes, AnnounceTypes DEF TypeOK, session, storage
  <2>4. CASE Allowed(calls[s]) /\ calls[s].kind # "send"
    <3>1. AnswerTo(calls[s]) \in SUBSET Ids
      BY <2>1, AnswerType, IdsType
    <3>2. [calls[s] EXCEPT !.status = "ok", !.answer = AnswerTo(calls[s])] \in Call
      BY <2>1, <3>1 DEF Call
    <3>3. calls' \in [Slots -> Call] /\ UNCHANGED <<posted, push, torn>>
      BY <1>2, <2>4, <3>2, PutType DEF Serve
    <3>. QED
      BY <2>1, <3>3 DEF TypeOK, session, storage, push
  <2>. QED
    BY <2>2, <2>3, <2>4
<1>. QED
  BY <1>1, <1>2

(* A reply holds messages of the server, and messages of a chat only if    *)
(* the user whose token was sent is a member of it.                        *)
ReplyOK(call, posts) ==
  /\ call.answer \subseteq DOMAIN posts
  /\ call.status = "free" => call = NoCall
  /\ call.status = "ok" /\ call.kind \in {"history", "send"} =>
       /\ call.auth \in MembersOf[call.chat]
       /\ \A m \in call.answer : posts[m] = call.chat

RepliesOK == \A s \in Slots : ReplyOK(calls[s], posted)

LEMMA ReplyTypes ==
  ASSUME TypeOK, RepliesOK, NEW s \in Slots, Reply(s)
  PROVE  TypeOK'
<1>1. /\ calls[s] \in Call /\ calls[s].kind \in Kinds /\ calls[s].auth \in Someone
      /\ calls[s].user \in Someone /\ calls[s].chat \in Chats
      /\ UNCHANGED <<posted, overlap, left, scenario>>
  BY CallType DEF Reply
<1>2. late \in BOOLEAN /\ torn \subseteq Chats /\ Missed \subseteq Chats /\ token \in Someone
      /\ userId \in Someone /\ 0 \in Ids \cup {0}
  BY HistoryTypes, MissedType DEF TypeOK
<1>3. CASE LoginAnswered(s)
  <2>1. Ask("user_id", calls[s].user, AnyChat, 0, 0) \in Call
    BY <1>1, <1>2, AskType, AnyChatType DEF Kinds
  <2>2. [Ask("user_id", calls[s].user, AnyChat, 0, 0) EXCEPT !.auth = calls[s].user] \in Call
    BY <1>1, <2>1 DEF Call
  <2>3. calls' \in [Slots -> Call]
    BY <1>3, <2>2, PutType DEF LoginAnswered
  <2>4. late' \in BOOLEAN
    BY <1>2, <1>3, Zenon DEF LoginAnswered
  <2>5. torn' \subseteq Chats /\ token' \in Someone /\ UNCHANGED <<userId, disk, storage>>
    BY <1>1, <1>2, <1>3 DEF LoginAnswered
  <2>6. socket' = "connecting" /\ socketUser' \in Someone /\ wire' = <<>>
    BY <1>1, <1>3 DEF LoginAnswered, Opening
  <2>. QED
    BY <1>1, <2>3, <2>4, <2>5, <2>6 DEF TypeOK, storage
<1>4. CASE UserIdAnswered(s)
  <2>1. calls' \in [Slots -> Call]
    BY <1>4, NoCallType, PutType DEF UserIdAnswered
  <2>2. userId' \in Someone /\ disk' \in Session
    BY <1>1, <1>2, <1>4 DEF UserIdAnswered, SetUserId, Session, TypeOK
  <2>3. UNCHANGED <<token, storage, push, torn, late>>
    BY <1>4 DEF UserIdAnswered
  <2>. QED
    BY <1>1, <2>1, <2>2, <2>3 DEF TypeOK, storage, push
<1>5. CASE PreviewsAnswered(s)
  <2>1. calls' \in [Slots -> Call]
    BY <1>5, NoCallType, PutType DEF PreviewsAnswered
  <2>2. previews' \subseteq Chats /\ Outdated(s) \subseteq Chats
    BY <1>5, MyChatsType DEF PreviewsAnswered, UpdateChatPreviews, Outdated
  <2>3. /\ messages' = {m \in messages : posted[m] \notin Outdated(s)}
        /\ shown' = shown \cup (messages \ messages')
        /\ torn' = (torn \ Outdated(s)) \cup (Outdated(s) \cap (Awaited \cup Announced))
        /\ UNCHANGED <<session, push>>
    BY <1>5 DEF PreviewsAnswered, ClearChats
  <2>4. messages' \subseteq 1 .. Len(posted) /\ shown' \subseteq 1 .. Len(posted)
    BY <2>3 DEF TypeOK
  <2>5. late' \in BOOLEAN
    BY <1>2, <1>5, Zenon DEF PreviewsAnswered, LateFor
  <2>6. torn' \subseteq Chats
    BY <1>2, <2>2, <2>3
  <2>. QED
    BY <1>1, <2>1, <2>2, <2>3, <2>4, <2>5, <2>6 DEF TypeOK, session, push
<1>6. CASE HistoryAnswered(s) \/ SendAnswered(s)
  <2>1. calls' \in [Slots -> Call]
    BY <1>6, NoCallType, PutType DEF HistoryAnswered, SendAnswered
  <2>2. late' \in BOOLEAN
    BY <1>2, <1>6, Zenon DEF HistoryAnswered, SendAnswered, LateFor
  <2>3. UNCHANGED <<session, previews, shown, push, torn>>
    BY <1>6 DEF HistoryAnswered, SendAnswered
  <2>4. messages' \subseteq messages \cup calls[s].answer
    BY <1>6 DEF HistoryAnswered, SendAnswered, AddMessages
  <2>5. messages' \subseteq 1 .. Len(posted)
    BY <2>4, IdsType DEF RepliesOK, ReplyOK, ServerIds
  <2>. QED
    BY <1>1, <2>1, <2>2, <2>3, <2>5 DEF TypeOK, session, push
<1>7. CASE ChangeAnswered(s)
  <2>1. FetchChatsCall \in Call
    BY <1>2, AskType, AnyChatType DEF FetchChatsCall, Kinds
  <2>2. calls' \in [Slots -> Call]
    BY <1>7, <2>1, NoCallType, PutType DEF ChangeAnswered
  <2>. QED
    BY <1>1, <1>2, <1>7, <2>2, CallsOnly, HistoryTypes DEF ChangeAnswered
<1>8. CASE DirectAnswered(s)
  <2>1. Ask("history", token, calls[s].chat, 0, OldestOf(calls[s].chat)) \in Call
    BY <1>1, <1>2, AskType, OldestType DEF Kinds
  <2>2. calls' \in [Slots -> Call]
    BY <1>8, <2>1, NoCallType, PutType DEF DirectAnswered
  <2>. QED
    BY <1>1, <1>2, <1>8, <2>2, CallsOnly, HistoryTypes DEF DirectAnswered
<1>. QED
  BY <1>1, <1>3, <1>4, <1>5, <1>6, <1>7, <1>8 DEF Reply, Kinds

LEMMA SocketTypes ==
  ASSUME TypeOK,
         Accepted \/ ReceivePush \/ SocketLost \/ Restart \/ \E s \in Slots : ReplyFails(s)
  PROVE  TypeOK'
<1>1. CASE Accepted
  BY <1>1 DEF Accepted, TypeOK, session, storage, history
<1>2. CASE ReceivePush
  <2>1. wire \in Seq(1 .. Len(posted)) /\ wire # <<>>
    BY <1>2 DEF ReceivePush, TypeOK
  <2>2. Head(wire) \in 1 .. Len(posted) /\ Tail(wire) \in Seq(1 .. Len(posted))
    BY <2>1
  <2>. QED
    BY <1>2, <2>2 DEF ReceivePush, AddMessages, TypeOK, session, history
<1>3. CASE SocketLost
  <2>1. left' \in [Limits -> Nat]
    BY <1>3, SpendType DEF SocketLost, Limits
  <2>2. torn' \subseteq Chats
    BY <1>3, HistoryTypes, MissedType DEF SocketLost
  <2>3. wire' \in Seq(1 .. Len(posted)) /\ socket' = "none" /\ socketUser' \in Someone
    BY <1>3 DEF SocketLost, Someone
  <2>. QED
    BY <1>3, <2>1, <2>2, <2>3 DEF SocketLost, TypeOK, session, storage
<1>4. CASE Restart
  <2>1. left' \in [Limits -> Nat]
    BY <1>4, SpendType DEF Restart, Limits
  <2>2. torn' \subseteq Chats
    BY <1>4, HistoryTypes, MissedType DEF Restart
  <2>3. late' \in BOOLEAN
    BY <1>4, HistoryTypes, Zenon DEF Restart
  <2>4. disk.token \in Someone /\ disk.user \in Someone
    BY DEF TypeOK, Session
  <2>5. wire' = <<>> /\ socket' \in {"none", "connecting"} /\ socketUser' \in Someone
    BY <1>4, <2>4 DEF Restart, Opening, Someone
  <2>6. calls' \in [Slots -> Call]
    BY <1>4, NoCallType DEF Restart
  <2>7. /\ token' = disk.token /\ userId' = disk.user /\ shown' = {}
        /\ UNCHANGED <<disk, messages, previews, posted, overlap, scenario>>
    BY <1>4 DEF Restart
  <2>8. wire' \in Seq(1 .. Len(posted))
    BY <2>5
  <2>. QED
    BY <2>1, <2>2, <2>3, <2>4, <2>5, <2>6, <2>7, <2>8 DEF TypeOK
<1>5. ASSUME NEW s \in Slots, ReplyFails(s) PROVE TypeOK'
  <2>1. calls' \in [Slots -> Call]
    BY <1>5, NoCallType, PutType DEF ReplyFails
  <2>2. left' \in [Limits -> Nat]
    BY <1>5, SpendType, HistoryTypes DEF ReplyFails, Limits
  <2>3. torn' \subseteq Chats
    BY <1>5, HistoryTypes DEF ReplyFails
  <2>. QED
    BY <1>5, <2>1, <2>2, <2>3, CallsOnly, HistoryTypes DEF ReplyFails
<1>. QED
  BY <1>1, <1>2, <1>3, <1>4, <1>5

LEMMA TypeStep == TypeOK /\ RepliesOK /\ [Next]_vars => TypeOK'
<1>1. ASSUME TypeOK, RepliesOK, Next PROVE TypeOK'
  BY <1>1, AskedTypes, FetchChatHistoryTypes, SessionTypes, ServerTypes, ReplyTypes,
    SocketTypes DEF Next
<1>2. ASSUME TypeOK, UNCHANGED vars PROVE TypeOK'
  BY <1>2 DEF TypeOK, vars, session, storage, push, history
<1>. QED
  BY <1>1, <1>2

-----------------------------------------------------------------------------
(* Replies                                                                 *)

(* A request that nobody has served yet *)
Fresh(call) == call = NoCall \/ (call.status = "asked" /\ call.answer = {})

LEMMA FreshOK ==
  ASSUME NEW call, Fresh(call), NEW posts
  PROVE  ReplyOK(call, posts)
BY DEF Fresh, ReplyOK, NoCall

LEMMA AskFresh ==
  ASSUME NEW kind, NEW user, NEW c, NEW before, NEW oldest
  PROVE  /\ Fresh(NoCall)
         /\ Fresh(Ask(kind, user, c, before, oldest))
         /\ Fresh([Ask(kind, user, c, before, oldest) EXCEPT !.auth = user])
BY DEF Fresh, Ask

(* A message that is appended changes no reply *)
LEMMA ReplyStays ==
  ASSUME TypeOK, NEW call, ReplyOK(call, posted),
         \/ UNCHANGED posted
         \/ \E c \in Chats : Len(posted) < MaxPosts /\ posted' = Append(posted, c)
  PROVE  ReplyOK(call, posted')
<1>1. ASSUME NEW c \in Chats, Len(posted) < MaxPosts, posted' = Append(posted, c)
      PROVE  ReplyOK(call, posted')
  <2>1. DOMAIN posted \subseteq DOMAIN posted' /\ \A m \in DOMAIN posted : posted'[m] = posted[m]
    BY <1>1, PostedTypes DEF ServerIds
  <2>. QED
    BY <2>1 DEF ReplyOK
<1>. QED
  BY <1>1

LEMMA RepliesKept ==
  ASSUME TypeOK, RepliesOK,
         \/ UNCHANGED posted
         \/ \E c \in Chats : Len(posted) < MaxPosts /\ posted' = Append(posted, c),
         \A s \in Slots : calls'[s] = calls[s] \/ Fresh(calls'[s])
                            \/ ReplyOK(calls'[s], posted')
  PROVE  RepliesOK'
<1>1. ASSUME NEW s \in Slots PROVE ReplyOK(calls'[s], posted')
  <2>1. ReplyOK(calls[s], posted')
    BY ReplyStays DEF RepliesOK
  <2>. QED
    BY <2>1, FreshOK
<1>. QED
  BY <1>1 DEF RepliesOK

(* A request of the user interface, and a slot that is set anew            *)
LEMMA StartFresh ==
  ASSUME TypeOK, NEW call \in Call, Fresh(call), Start(call)
  PROVE  \A s \in Slots : calls'[s] = calls[s] \/ Fresh(calls'[s])
<1>1. PICK s \in Slots : Put(s, call)
  BY StartType
<1>. QED
  BY <1>1, PutType

LEMMA AskedReplies ==
  ASSUME TypeOK, RepliesOK,
         \/ \E u \in Users : LoginUser(u)
         \/ FetchChats
         \/ \E c \in MyChats(token) :
              \E before \in {0, OldestOf(c)} \cup Of(c, shown) : FetchChatHistory(c, before)
         \/ \E c \in MyChats(token) : SendMessage(c)
         \/ \E c \in MyChats(token), kind \in {"change", "direct"} : Change(kind, c)
  PROVE  RepliesOK'
<1>1. UNCHANGED posted
  BY DEF LoginUser, FetchChats, FetchChatHistory, SendMessage, Change, push
<1>2. token \in Someone /\ userId \in Someone /\ 0 \in Ids \cup {0} /\ calls \in [Slots -> Call]
  BY DEF TypeOK
<1>3. PICK call : Fresh(call) /\ Start(call)
  BY AskFresh DEF LoginUser, FetchChats, FetchChatsCall, FetchChatHistory, SendMessage, Change
<1>4. \A s \in Slots : calls'[s] = calls[s] \/ Fresh(calls'[s])
  BY <1>2, <1>3 DEF Start, Put
<1>. QED
  BY <1>1, <1>4, RepliesKept

LEMMA ServedReplies ==
  ASSUME TypeOK, RepliesOK, NEW s \in Slots, Serve(s)
  PROVE  RepliesOK'
<1>1. /\ calls[s] \in Call /\ calls[s].chat \in Chats /\ calls[s].status = "asked"
      /\ ReplyOK(calls[s], posted)
  BY CallType DEF Serve, RepliesOK
<1>2. CASE ~Allowed(calls[s])
  <2> DEFINE call == [calls[s] EXCEPT !.status = "error"]
  <2>1. Put(s, call) /\ UNCHANGED posted
    BY <1>2 DEF Serve
  <2>2. call \in Call /\ call.status = "error" /\ call.answer = calls[s].answer
    BY <1>1 DEF Call
  <2>3. ReplyOK(call, posted')
    BY <1>1, <2>1, <2>2 DEF ReplyOK
  <2> HIDE DEF call
  <2>. QED
    BY <2>1, <2>2, <2>3, PutType, RepliesKept
<1>3. CASE Allowed(calls[s]) /\ calls[s].kind = "send"
  <2> DEFINE call == [calls[s] EXCEPT !.status = "ok", !.answer = {Len(posted) + 1}]
  <2>1. /\ Len(posted) < MaxPosts /\ posted' = Append(posted, calls[s].chat)
        /\ Put(s, call)
    BY <1>3 DEF Serve
  <2>2. Len(posted) + 1 \in Ids
    BY <2>1, IdsType, ClientAssumption DEF Ids
  <2>3. /\ call \in Call /\ call.status = "ok" /\ call.answer = {Len(posted) + 1}
        /\ call.auth = calls[s].auth /\ call.chat = calls[s].chat /\ call.kind = "send"
    BY <1>1, <1>3, <2>2 DEF Call
  <2>4. call.auth \in MembersOf[call.chat]
    BY <1>3, <2>3 DEF Allowed
  <2>5. Len(posted) + 1 \in DOMAIN posted' /\ posted'[Len(posted) + 1] = calls[s].chat
    BY <1>1, <2>1, PostedTypes DEF ServerIds
  <2>6. ReplyOK(call, posted')
    BY <2>3, <2>4, <2>5 DEF ReplyOK
  <2> HIDE DEF call
  <2>. QED
    BY <1>1, <2>1, <2>3, <2>6, PutType, RepliesKept
<1>4. CASE Allowed(calls[s]) /\ calls[s].kind # "send"
  <2> DEFINE call == [calls[s] EXCEPT !.status = "ok", !.answer = AnswerTo(calls[s])]
  <2>1. Put(s, call) /\ UNCHANGED posted
    BY <1>4 DEF Serve
  <2>2. AnswerTo(calls[s]) \subseteq ServerIds /\ ServerIds \subseteq Ids
    BY <1>1, AnswerType, IdsType
  <2>3. /\ call \in Call /\ call.status = "ok" /\ call.answer = AnswerTo(calls[s])
        /\ call.auth = calls[s].auth /\ call.chat = calls[s].chat /\ call.kind = calls[s].kind
    BY <1>1, <2>2 DEF Call
  <2>4. ASSUME call.kind = "history"
        PROVE  /\ call.auth \in MembersOf[call.chat]
               /\ \A m \in call.answer : posted[m] = call.chat
    <3>1. call.auth \in MembersOf[call.chat]
      BY <1>4, <2>3, <2>4 DEF Allowed
    <3>2. AnswerTo(calls[s]) =
            Page({m \in Of(calls[s].chat, ServerIds) :
                    calls[s].before = 0 \/ m < calls[s].before})
      BY <2>3, <2>4 DEF AnswerTo
    <3>3. AnswerTo(calls[s]) \subseteq Of(calls[s].chat, ServerIds)
      BY <3>2 DEF Page
    <3>. QED
      BY <2>3, <3>1, <3>3 DEF Of
  <2>5. ReplyOK(call, posted')
    BY <1>4, <2>1, <2>2, <2>3, <2>4 DEF ReplyOK, ServerIds
  <2> HIDE DEF call
  <2>. QED
    BY <2>1, <2>3, <2>5, PutType, RepliesKept
<1>. QED
  BY <1>2, <1>3, <1>4

LEMMA ReplyReplies ==
  ASSUME TypeOK, RepliesOK, NEW s \in Slots, Reply(s) \/ ReplyFails(s)
  PROVE  RepliesOK'
<1>1. UNCHANGED posted /\ calls \in [Slots -> Call]
  BY DEF Reply, ReplyFails, TypeOK
<1>2. \E call : Fresh(call) /\ Put(s, call)
  <2>1. CASE ReplyFails(s)
    BY <2>1, AskFresh DEF ReplyFails
  <2>2. CASE Reply(s)
    <3>1. calls[s].kind \in Kinds
      BY CallType
    <3>2. CASE LoginAnswered(s)
      BY <3>2, AskFresh DEF LoginAnswered
    <3>3. CASE UserIdAnswered(s) \/ PreviewsAnswered(s) \/ HistoryAnswered(s) \/ SendAnswered(s)
      BY <3>3, AskFresh DEF UserIdAnswered, PreviewsAnswered, HistoryAnswered, SendAnswered
    <3>4. CASE ChangeAnswered(s)
      BY <3>4, AskFresh DEF ChangeAnswered, FetchChatsCall
    <3>5. CASE DirectAnswered(s)
      BY <3>5, AskFresh DEF DirectAnswered
    <3>. QED
      BY <2>2, <3>1, <3>2, <3>3, <3>4, <3>5 DEF Reply, Kinds
  <2>. QED
    BY <2>1, <2>2
<1>3. \A t \in Slots : calls'[t] = calls[t] \/ Fresh(calls'[t])
  BY <1>1, <1>2 DEF Put
<1>. QED
  BY <1>1, <1>3, RepliesKept

LEMMA RepliesStep == TypeOK /\ RepliesOK /\ [Next]_vars => RepliesOK'
<1> SUFFICES ASSUME TypeOK, RepliesOK, [Next]_vars PROVE RepliesOK'
  OBVIOUS
<1>1. CASE UNCHANGED <<calls, posted>>
  BY <1>1 DEF RepliesOK
<1>2. ASSUME NEW c \in Chats, Post(c) PROVE RepliesOK'
  BY <1>2, RepliesKept DEF Post
<1>3. CASE Restart
  <2>1. UNCHANGED posted /\ \A s \in Slots : Fresh(calls'[s])
    BY <1>3, AskFresh DEF Restart
  <2>. QED
    BY <2>1, RepliesKept
<1>4. CASE Logout \/ SaveSettings \/ Accepted \/ ReceivePush \/ SocketLost \/ UNCHANGED vars
  BY <1>1, <1>4 DEF Logout, SaveSettings, Accepted, ReceivePush, SocketLost, vars
<1>. QED
  BY <1>2, <1>3, <1>4, AskedReplies, ServedReplies, ReplyReplies DEF Next

LEMMA InitReplies == Init => RepliesOK
<1>1. ASSUME Init, NEW s \in Slots PROVE ReplyOK(calls[s], posted)
  BY <1>1, FreshOK, AskFresh DEF Init
<1>. QED
  BY <1>1 DEF RepliesOK

(* Every variable keeps its type, in particular the client saves only ids  *)
(* of messages that the server has, whatever replies and pushes bring.     *)
THEOREM TypeCorrect == Spec => [](TypeOK /\ RepliesOK)
<1>1. Init => TypeOK /\ RepliesOK
  BY InitTypes, InitReplies
<1>2. TypeOK /\ RepliesOK /\ [Next]_vars => (TypeOK /\ RepliesOK)'
  BY TypeStep, RepliesStep
<1>. QED
  BY <1>1, <1>2, PTL DEF Spec

-----------------------------------------------------------------------------
(* The session                                                             *)

Signing == {"login", "user_id"}

(* Token and id belong together.  A login is under way while there is no   *)
(* token, a request for the id while the token is of the user it is about, *)
(* and there is one of them at most.                                       *)
Together ==
  /\ token = NoUser => userId = NoUser
  /\ token # NoUser /\ userId # NoUser => token = userId
  /\ disk.user # NoUser => disk.token = disk.user
  /\ disk.token \in {NoUser, token}

SigningIn ==
  /\ \A s \in Slots : calls[s].kind = "login" => token = NoUser
  /\ \A s \in Slots : calls[s].kind = "user_id" => token = calls[s].user
  /\ \A s, t \in Slots : calls[s].kind \in Signing /\ calls[t].kind \in Signing => s = t

SessionInv == ~overlap => Together /\ SigningIn

Typed == TypeOK /\ RepliesOK

LEMMA KindOfFree ==
  ASSUME Typed, NEW s \in Slots
  PROVE  calls[s].kind \in Signing => s \in UnderWay(Signing)
<1>1. calls[s].status = "free" => calls[s] = NoCall
  BY DEF Typed, RepliesOK, ReplyOK
<1>2. NoCall.kind \notin Signing
  BY DEF NoCall, Signing
<1>. QED
  BY <1>1, <1>2 DEF UnderWay

(* A call of another kind than these takes a slot *)
LEMMA OtherCalls ==
  ASSUME Typed, SessionInv, UNCHANGED <<session, overlap>>,
         \A s \in Slots : calls'[s] = calls[s] \/ calls'[s].kind \notin Signing
                            \/ (calls'[s].kind = calls[s].kind /\ calls'[s].user = calls[s].user)
  PROVE  SessionInv'
BY DEF SessionInv, Together, SigningIn, Signing, session

LEMMA AskKind ==
  ASSUME NEW kind, NEW user, NEW c, NEW before, NEW oldest
  PROVE  /\ NoCall.kind = "change"
         /\ Ask(kind, user, c, before, oldest).kind = kind
         /\ Ask(kind, user, c, before, oldest).user = user
BY DEF NoCall, Ask

LEMMA PutKinds ==
  ASSUME Typed, SessionInv, UNCHANGED <<session, overlap>>,
         NEW s, NEW call, Put(s, call), call.kind \notin Signing
  PROVE  SessionInv'
<1>1. \A t \in Slots : calls'[t] = calls[t] \/ calls'[t].kind \notin Signing
  BY DEF Put, Typed, TypeOK
<1>. QED
  BY <1>1, OtherCalls

LEMMA LoginSession ==
  ASSUME Typed, SessionInv, NEW u \in Users, LoginUser(u)
  PROVE  SessionInv'
<1> SUFFICES ASSUME ~overlap' PROVE (Together /\ SigningIn)'
  BY DEF SessionInv
<1>1. ~overlap /\ UnderWay(Signing) = {} /\ token = NoUser /\ UNCHANGED session
  BY DEF LoginUser, Signing
<1>2. Together' /\ UNCHANGED token
  BY <1>1 DEF SessionInv, Together, session
<1>3. \A t \in Slots : calls[t].kind \notin Signing
  BY <1>1, KindOfFree
<1>4. calls \in [Slots -> Call] /\ Start(Ask("login", u, AnyChat, 0, 0))
  BY DEF Typed, TypeOK, LoginUser
<1>5. PICK s : Put(s, Ask("login", u, AnyChat, 0, 0))
  BY <1>4 DEF Start
<1>6. \A t \in Slots : calls'[t] = calls[t] \/ (t = s /\ calls'[t].kind = "login")
  BY <1>4, <1>5, AskKind DEF Put
<1>7. SigningIn'
  BY <1>1, <1>2, <1>3, <1>6 DEF SigningIn, Signing
<1>. QED
  BY <1>2, <1>7

LEMMA LogoutSession ==
  ASSUME Typed, SessionInv, Logout
  PROVE  SessionInv'
<1> SUFFICES ASSUME ~overlap' PROVE (Together /\ SigningIn)'
  BY DEF SessionInv
<1>1. UnderWay(Signing) = {} /\ UNCHANGED calls
  BY DEF Logout, Signing
<1>2. \A t \in Slots : calls[t].kind \notin Signing
  BY <1>1, KindOfFree
<1>3. SigningIn'
  BY <1>1, <1>2 DEF SigningIn, Signing
<1>4. Together'
  BY DEF Logout, Together
<1>. QED
  BY <1>3, <1>4

LEMMA SavedSession ==
  ASSUME Typed, SessionInv, SaveSettings \/ Restart
  PROVE  SessionInv'
<1> SUFFICES ASSUME ~overlap' PROVE (Together /\ SigningIn)'
  BY DEF SessionInv
<1>1. ~overlap
  BY DEF SaveSettings, Restart, history
<1>2. Together /\ SigningIn
  BY <1>1 DEF SessionInv
<1>3. CASE SaveSettings
  BY <1>2, <1>3 DEF SaveSettings, Together, SigningIn
<1>4. CASE Restart
  <2>1. \A s \in Slots : calls'[s].kind = "change"
    BY <1>4 DEF Restart, NoCall
  <2>2. SigningIn'
    BY <2>1 DEF SigningIn, Signing
  <2>3. token' = disk.token /\ userId' = disk.user /\ UNCHANGED disk
    BY <1>4 DEF Restart
  <2>. QED
    BY <1>2, <2>2, <2>3 DEF Together
<1>. QED
  BY <1>3, <1>4

LEMMA SignedIn ==
  ASSUME Typed, SessionInv, NEW s \in Slots, UNCHANGED overlap,
         \/ LoginAnswered(s) /\ calls[s].kind = "login"
         \/ UserIdAnswered(s) /\ calls[s].kind = "user_id"
  PROVE  SessionInv'
<1> SUFFICES ASSUME ~overlap PROVE (Together /\ SigningIn)'
  BY DEF SessionInv
<1>1. Together /\ SigningIn /\ calls \in [Slots -> Call]
  BY DEF SessionInv, Typed, TypeOK
<1>2. \A t \in Slots \ {s} : calls[t].kind \notin Signing
  BY <1>1 DEF SigningIn, Signing
<1>3. CASE LoginAnswered(s) /\ calls[s].kind = "login"
  <2> DEFINE call == [Ask("user_id", calls[s].user, AnyChat, 0, 0) EXCEPT !.auth = calls[s].user]
  <2>1. call.kind = "user_id" /\ call.user = calls[s].user
    BY DEF Ask
  <2>2. Put(s, call) /\ token' = calls[s].user /\ UNCHANGED <<userId, disk>>
    BY <1>3 DEF LoginAnswered
  <2> HIDE DEF call
  <2>3. calls'[s] = call /\ \A t \in Slots \ {s} : calls'[t] = calls[t]
    BY <1>1, <2>2 DEF Put
  <2>4. token = NoUser
    BY <1>1, <1>3 DEF SigningIn
  <2>5. SigningIn'
    BY <1>2, <2>1, <2>2, <2>3 DEF SigningIn, Signing
  <2>6. Together'
    BY <1>1, <2>2, <2>4 DEF Together
  <2>. QED
    BY <2>5, <2>6
<1>4. CASE UserIdAnswered(s) /\ calls[s].kind = "user_id"
  <2>1. /\ userId' = calls[s].user /\ Put(s, NoCall) /\ UNCHANGED token
        /\ disk' = IF token # NoUser /\ userId # calls[s].user
                     THEN [token |-> token, user |-> calls[s].user] ELSE disk
    BY <1>4 DEF UserIdAnswered, SetUserId
  <2>2. \A t \in Slots : calls'[t].kind \notin Signing
    BY <1>1, <1>2, <2>1, AskKind DEF Put, Signing
  <2>3. SigningIn'
    BY <2>2 DEF SigningIn, Signing
  <2>4. token = calls[s].user
    BY <1>1, <1>4 DEF SigningIn
  <2>5. Together'
    BY <1>1, <2>1, <2>4 DEF Together
  <2>. QED
    BY <2>3, <2>5
<1>. QED
  BY <1>3, <1>4

LEMMA ReplySession ==
  ASSUME Typed, SessionInv, NEW s \in Slots, Reply(s) \/ ReplyFails(s)
  PROVE  SessionInv'
<1>1. UNCHANGED overlap
  BY DEF Reply, ReplyFails
<1>2. CASE Reply(s) /\ calls[s].kind \in Signing
  <2>1. \/ LoginAnswered(s) /\ calls[s].kind = "login"
        \/ UserIdAnswered(s) /\ calls[s].kind = "user_id"
    BY <1>2 DEF Reply, Signing
  <2>. QED
    BY <1>1, <2>1, SignedIn
<1>3. CASE Reply(s) /\ calls[s].kind \notin Signing
  <2>1. calls[s].kind \in Kinds
    BY CallType DEF Typed
  <2>2. PreviewsAnswered(s) \/ HistoryAnswered(s) \/ SendAnswered(s) \/ ChangeAnswered(s)
          \/ DirectAnswered(s)
    BY <1>3, <2>1 DEF Reply, Kinds, Signing
  <2>3. UNCHANGED session
    BY <2>2 DEF PreviewsAnswered, HistoryAnswered, SendAnswered, ChangeAnswered, DirectAnswered
  <2>4. \E call : Put(s, call) /\ call.kind \notin Signing
    BY <2>2, AskKind DEF PreviewsAnswered, HistoryAnswered, SendAnswered, ChangeAnswered,
      DirectAnswered, FetchChatsCall, Signing
  <2>. QED
    BY <1>1, <2>3, <2>4, PutKinds
<1>4. CASE ReplyFails(s)
  <2>1. Put(s, NoCall) /\ UNCHANGED session /\ NoCall.kind \notin Signing
    BY <1>4, AskKind DEF ReplyFails, Signing
  <2>. QED
    BY <1>1, <2>1, PutKinds
<1>. QED
  BY <1>2, <1>3, <1>4

LEMMA AskedSession ==
  ASSUME Typed, SessionInv,
         \/ FetchChats
         \/ \E c \in MyChats(token) :
              \E before \in {0, OldestOf(c)} \cup Of(c, shown) : FetchChatHistory(c, before)
         \/ \E c \in MyChats(token) : SendMessage(c)
         \/ \E c \in MyChats(token), kind \in {"change", "direct"} : Change(kind, c)
  PROVE  SessionInv'
<1>1. UNCHANGED <<session, overlap>>
  BY DEF FetchChats, FetchChatHistory, SendMessage, Change, history
<1>2. \E call : Start(call) /\ call.kind \notin Signing
  BY AskKind DEF FetchChats, FetchChatsCall, FetchChatHistory, SendMessage, Change, Signing
<1>3. \E s, call : Put(s, call) /\ call.kind \notin Signing
  BY <1>2 DEF Start
<1>. QED
  BY <1>1, <1>3, PutKinds

LEMMA ServedSession ==
  ASSUME Typed, SessionInv, NEW s \in Slots, Serve(s)
  PROVE  SessionInv'
<1>1. UNCHANGED <<session, overlap>> /\ calls[s] \in Call /\ calls \in [Slots -> Call]
  BY CallType DEF Serve, Typed, TypeOK
<1>2. \/ Put(s, [calls[s] EXCEPT !.status = "error"])
      \/ \E ids : Put(s, [calls[s] EXCEPT !.status = "ok", !.answer = ids])
  BY DEF Serve
<1>3. PICK call : Put(s, call) /\ call.kind = calls[s].kind /\ call.user = calls[s].user
  <2>1. \A ids : /\ [calls[s] EXCEPT !.status = "ok", !.answer = ids].kind = calls[s].kind
                 /\ [calls[s] EXCEPT !.status = "ok", !.answer = ids].user = calls[s].user
    BY <1>1 DEF Call
  <2>2. /\ [calls[s] EXCEPT !.status = "error"].kind = calls[s].kind
        /\ [calls[s] EXCEPT !.status = "error"].user = calls[s].user
    BY <1>1 DEF Call
  <2>. QED
    BY <1>2, <2>1, <2>2
<1>4. \A t \in Slots : calls'[t].kind = calls[t].kind /\ calls'[t].user = calls[t].user
  BY <1>1, <1>3 DEF Put
<1>. QED
  BY <1>1, <1>4, OtherCalls

LEMMA SessionStep == Typed /\ SessionInv /\ [Next]_vars => SessionInv'
<1> SUFFICES ASSUME Typed, SessionInv, [Next]_vars PROVE SessionInv'
  OBVIOUS
<1>1. CASE UNCHANGED <<session, overlap, calls>>
  BY <1>1, OtherCalls
<1>2. CASE (\E c \in Chats : Post(c)) \/ Accepted \/ ReceivePush \/ SocketLost \/ UNCHANGED vars
  BY <1>1, <1>2 DEF Post, Accepted, ReceivePush, SocketLost, vars, history
<1>. QED
  BY <1>2, LoginSession, LogoutSession, SavedSession, ReplySession, AskedSession,
    ServedSession DEF Next

(* Token and user id, in memory and saved, belong together, unless a login *)
(* or logout happened while a login was under way.                         *)
THEOREM SessionsBelongTogether == Spec => []SessionsAgree
<1>1. Init => Typed /\ SessionInv
  <2>1. Init => Together
    BY DEF Init, Together
  <2>2. Init => SigningIn
    BY DEF Init, SigningIn, Signing, NoCall
  <2>. QED
    BY <2>1, <2>2, InitTypes, InitReplies DEF Typed, SessionInv
<1>2. Typed /\ SessionInv /\ [Next]_vars => (Typed /\ SessionInv)'
  BY TypeStep, RepliesStep, SessionStep DEF Typed
<1>3. SessionInv => SessionsAgree
  BY DEF SessionInv, Together, SessionsAgree
<1>. QED
  BY <1>1, <1>2, <1>3, PTL DEF Spec

-----------------------------------------------------------------------------
(* The accounts of one device                                              *)

(* The websocket is that of the user who is logged in, and so is what is   *)
(* on its way                                                              *)
SocketInv ==
  /\ socket # "none" => socketUser = token
  /\ socket # "open" => wire = <<>>
  /\ \A n \in DOMAIN wire : posted[wire[n]] \in MyChats(token)

AccountsInv == SocketInv /\ AccountsSeparate

LEMMA NobodysChats == MyChats(NoUser) = {}
BY ClientAssumption DEF MyChats

LEMMA WireType ==
  ASSUME Typed
  PROVE  wire \in Seq(ServerIds) /\ \A n \in DOMAIN wire : wire[n] \in ServerIds
<1>1. wire \in Seq(ServerIds)
  BY IdsType DEF Typed, TypeOK
<1>. QED
  BY <1>1

LEMMA Untouched ==
  ASSUME AccountsInv, UNCHANGED <<token, push, messages, previews, posted, late>>
  PROVE  AccountsInv'
BY DEF AccountsInv, SocketInv, AccountsSeparate, push, MyChats

LEMMA NewMessage ==
  ASSUME Typed, AccountsInv, NEW c \in Chats, NEW sender,
         Len(posted) < MaxPosts, posted' = Append(posted, c),
         Announce(Len(posted) + 1, c, sender), UNCHANGED <<token, messages, previews, late>>
  PROVE  AccountsInv'
<1> DEFINE m == Len(posted) + 1
<1>1. /\ \A n \in ServerIds : posted'[n] = posted[n]
      /\ posted'[m] = c /\ messages \subseteq ServerIds
  BY PostedTypes, IdsType DEF Typed
<1>2. UNCHANGED <<socket, socketUser>>
      /\ wire' = IF socket = "open" /\ socketUser \in MembersOf[c] \ {sender}
                   THEN Append(wire, m) ELSE wire
  BY DEF Announce
<1>3. AccountsSeparate'
  BY <1>1 DEF AccountsInv, AccountsSeparate, MyChats
<1>4. \A n \in DOMAIN wire : posted'[wire[n]] \in MyChats(token)
  BY <1>1, WireType DEF AccountsInv, SocketInv
<1>5. CASE wire' = wire
  BY <1>2, <1>3, <1>4, <1>5 DEF AccountsInv, SocketInv, MyChats
<1>6. CASE wire' = Append(wire, m) /\ socket = "open" /\ socketUser \in MembersOf[c]
  <2>1. c \in MyChats(token)
    BY <1>6 DEF AccountsInv, SocketInv, MyChats
  <2>2. wire \in Seq(ServerIds)
    BY WireType
  <2>3. \A n \in DOMAIN wire' : (n \in DOMAIN wire /\ wire'[n] = wire[n]) \/ wire'[n] = m
    <3> HIDE DEF m
    <3>. QED
      BY <1>6, <2>2
  <2>4. \A n \in DOMAIN wire' : posted'[wire'[n]] \in MyChats(token)
    <3> HIDE DEF m
    <3>. QED
      BY <1>1, <1>4, <2>1, <2>3
  <2>. QED
    BY <1>2, <1>3, <1>6, <2>4 DEF AccountsInv, SocketInv, MyChats
<1>. QED
  BY <1>2, <1>5, <1>6

LEMMA ServedAccounts ==
  ASSUME Typed, AccountsInv, NEW s \in Slots, Serve(s)
  PROVE  AccountsInv'
<1>1. UNCHANGED <<token, messages, previews, late>> /\ calls[s].chat \in Chats
  BY CallType DEF Serve, session, storage, Typed
<1>2. CASE UNCHANGED <<posted, push>>
  BY <1>1, <1>2, Untouched
<1>3. CASE /\ Len(posted) < MaxPosts /\ posted' = Append(posted, calls[s].chat)
           /\ Announce(Len(posted) + 1, calls[s].chat, calls[s].auth)
  BY <1>1, <1>3, NewMessage
<1>. QED
  BY <1>2, <1>3 DEF Serve

(* The socket is opened anew, or closed *)
LEMMA OpenedAccounts ==
  ASSUME AccountsSeparate', wire' = <<>>,
         socket' = "none" \/ (socket' = "connecting" /\ socketUser' = token')
  PROVE  AccountsInv'
BY DEF AccountsInv, SocketInv

LEMMA SocketAccounts ==
  ASSUME Typed, AccountsInv, Accepted \/ ReceivePush \/ SocketLost \/ Restart \/ Logout
  PROVE  AccountsInv'
<1>1. CASE Accepted
  <2>1. /\ socket = "connecting" /\ socket' = "open"
        /\ UNCHANGED <<token, socketUser, wire, messages, previews, posted, late>>
    BY <1>1 DEF Accepted, session, storage, history
  <2>. QED
    BY <2>1 DEF AccountsInv, SocketInv, AccountsSeparate, MyChats
<1>2. CASE ReceivePush
  <2>1. /\ wire # <<>> /\ wire' = Tail(wire) /\ messages' = messages \cup {Head(wire)}
        /\ socket = "open" /\ UNCHANGED <<token, previews, socket, socketUser, posted, late>>
    BY <1>2 DEF ReceivePush, AddMessages, session, history
  <2>2. wire \in Seq(ServerIds) /\ 1 \in DOMAIN wire /\ Head(wire) = wire[1]
    BY <2>1, WireType
  <2>3. \A n \in DOMAIN wire' : n + 1 \in DOMAIN wire /\ wire'[n] = wire[n + 1]
    BY <2>1, <2>2
  <2>4. posted[Head(wire)] \in MyChats(token)
    BY <2>2 DEF AccountsInv, SocketInv
  <2>5. SocketInv'
    BY <2>1, <2>3 DEF AccountsInv, SocketInv, MyChats
  <2>6. AccountsSeparate'
    BY <2>1, <2>4 DEF AccountsInv, AccountsSeparate, MyChats
  <2>. QED
    BY <2>5, <2>6 DEF AccountsInv
<1>3. CASE SocketLost
  <2>1. AccountsSeparate'
    BY <1>3 DEF SocketLost, AccountsInv, AccountsSeparate, MyChats, session, storage
  <2>. QED
    BY <1>3, <2>1, OpenedAccounts DEF SocketLost
<1>4. CASE Restart
  <2>1. UNCHANGED <<messages, previews, posted>> /\ token' = disk.token
    BY <1>4 DEF Restart
  <2>2. ~late' => ~late /\ token' = token
    BY <1>4, <2>1 DEF Restart
  <2>3. AccountsSeparate'
    BY <2>1, <2>2 DEF AccountsInv, AccountsSeparate, MyChats
  <2>. QED
    BY <1>4, <2>1, <2>3, OpenedAccounts DEF Restart, Opening
<1>5. CASE Logout
  <2>1. AccountsSeparate'
    BY <1>5 DEF Logout, ClearCache, AccountsSeparate
  <2>. QED
    BY <1>5, <2>1, OpenedAccounts DEF Logout
<1>. QED
  BY <1>1, <1>2, <1>3, <1>4, <1>5

LEMMA ReplyAccounts ==
  ASSUME Typed, AccountsInv, NEW s \in Slots, Reply(s)
  PROVE  AccountsInv'
<1>1. calls[s].kind \in Kinds /\ UNCHANGED posted /\ ReplyOK(calls[s], posted)
      /\ calls[s].status = "ok"
  BY CallType DEF Reply, Typed, RepliesOK
<1>2. CASE LoginAnswered(s)
  <2>1. /\ token' = calls[s].user /\ UNCHANGED <<messages, previews>>
        /\ socket' = "connecting" /\ socketUser' = token' /\ wire' = <<>>
    BY <1>2 DEF LoginAnswered, Opening, storage
  <2>2. ~late' => ~late /\ token \in {NoUser, token'}
    BY <1>2 DEF LoginAnswered
  <2>3. CASE ~late' /\ token = NoUser
    <3>1. messages = {} /\ previews = {}
      BY <2>2, <2>3, NobodysChats DEF AccountsInv, AccountsSeparate
    <3>. QED
      BY <2>1, <3>1, OpenedAccounts DEF AccountsSeparate
  <2>4. CASE ~late' /\ token = token'
    <3>1. AccountsSeparate'
      BY <1>1, <2>1, <2>2, <2>4 DEF AccountsInv, AccountsSeparate, MyChats
    <3>. QED
      BY <2>1, <3>1, OpenedAccounts
  <2>5. CASE late'
    BY <2>1, <2>5, OpenedAccounts DEF AccountsSeparate
  <2>. QED
    BY <2>2, <2>3, <2>4, <2>5
<1>3. CASE UserIdAnswered(s) \/ ChangeAnswered(s) \/ DirectAnswered(s)
  <2>1. UNCHANGED <<token, messages, previews, push, late>>
    BY <1>3 DEF UserIdAnswered, ChangeAnswered, DirectAnswered, session, storage
  <2>. QED
    BY <1>1, <2>1, Untouched
<1>4. CASE PreviewsAnswered(s)
  <2>1. /\ messages' \subseteq messages /\ previews' = MyChats(calls[s].auth)
        /\ UNCHANGED <<token, push>>
    BY <1>4 DEF PreviewsAnswered, UpdateChatPreviews, ClearChats, session
  <2>2. ~late' => ~late /\ calls[s].auth = token
    BY <1>4 DEF PreviewsAnswered, LateFor
  <2>3. AccountsSeparate'
    BY <1>1, <2>1, <2>2 DEF AccountsInv, AccountsSeparate, MyChats
  <2>4. SocketInv'
    BY <1>1, <2>1 DEF AccountsInv, SocketInv, MyChats, push
  <2>. QED
    BY <2>3, <2>4 DEF AccountsInv
<1>5. CASE (HistoryAnswered(s) \/ SendAnswered(s)) /\ calls[s].kind \in {"history", "send"}
  <2>1. messages' \subseteq messages \cup calls[s].answer /\ UNCHANGED <<token, push, previews>>
    BY <1>5 DEF HistoryAnswered, SendAnswered, AddMessages, session
  <2>2. ~late' => ~late /\ calls[s].auth = token
    BY <1>5 DEF HistoryAnswered, SendAnswered, LateFor
  <2>3. /\ calls[s].auth \in MembersOf[calls[s].chat] /\ calls[s].chat \in Chats
        /\ \A m \in calls[s].answer : posted[m] = calls[s].chat
    BY <1>1, <1>5, CallType DEF ReplyOK, Typed
  <2>4. AccountsSeparate'
    BY <1>1, <2>1, <2>2, <2>3 DEF AccountsInv, AccountsSeparate, MyChats
  <2>5. SocketInv'
    BY <1>1, <2>1 DEF AccountsInv, SocketInv, MyChats, push
  <2>. QED
    BY <2>4, <2>5 DEF AccountsInv
<1>. QED
  BY <1>1, <1>2, <1>3, <1>4, <1>5 DEF Reply, Kinds

LEMMA QuietAccounts ==
  ASSUME Typed, AccountsInv,
         \/ \E u \in Users : LoginUser(u)
         \/ SaveSettings
         \/ FetchChats
         \/ \E c \in MyChats(token) :
              \E before \in {0, OldestOf(c)} \cup Of(c, shown) : FetchChatHistory(c, before)
         \/ \E c \in MyChats(token) : SendMessage(c)
         \/ \E c \in MyChats(token), kind \in {"change", "direct"} : Change(kind, c)
         \/ \E s \in Slots : ReplyFails(s)
         \/ UNCHANGED vars
  PROVE  AccountsInv'
<1>1. UNCHANGED <<token, push, messages, previews, posted, late>>
  BY DEF LoginUser, SaveSettings, FetchChats, FetchChatHistory, SendMessage, Change,
    ReplyFails, vars, session, storage, history
<1>. QED
  BY <1>1, Untouched

LEMMA AccountsStep == Typed /\ AccountsInv /\ [Next]_vars => AccountsInv'
<1> SUFFICES ASSUME Typed, AccountsInv, [Next]_vars PROVE AccountsInv'
  OBVIOUS
<1>1. ASSUME NEW c \in Chats, Post(c) PROVE AccountsInv'
  <2>1. /\ Len(posted) < MaxPosts /\ posted' = Append(posted, c)
        /\ Announce(Len(posted) + 1, c, NoUser) /\ UNCHANGED <<token, messages, previews, late>>
    BY <1>1 DEF Post, session, storage
  <2>. QED
    BY <2>1, NewMessage
<1>. QED
  BY <1>1, QuietAccounts, SocketAccounts, ReplyAccounts, ServedAccounts DEF Next

(* The tables of the client hold nothing of another user, unless a reply   *)
(* was applied when its user was no longer logged in.                      *)
THEOREM AccountsKeptApart == Spec => []AccountsSeparate
<1>1. Init => Typed /\ AccountsInv
  <2>1. Init => AccountsInv
    BY DEF Init, AccountsInv, SocketInv, AccountsSeparate
  <2>. QED
    BY <2>1, InitTypes, InitReplies DEF Typed
<1>2. Typed /\ AccountsInv /\ [Next]_vars => (Typed /\ AccountsInv)'
  BY TypeStep, RepliesStep, AccountsStep DEF Typed
<1>3. AccountsInv => AccountsSeparate
  BY DEF AccountsInv
<1>. QED
  BY <1>1, <1>2, <1>3, PTL DEF Spec

-----------------------------------------------------------------------------
(* No holes                                                                *)

LEMMA ArrivingIs ==
  ASSUME NEW m
  PROVE  m \in Arriving <=>
           \/ \E n \in DOMAIN wire : wire[n] = m
           \/ \E s \in Slots : /\ calls[s].kind = "send" /\ calls[s].status = "ok"
                               /\ m \in calls[s].answer
BY DEF Arriving

(* An id that a push or a reply brings has been given                      *)
LEMMA KnownType ==
  ASSUME Typed, NEW c
  PROVE  /\ Known(c) \subseteq Of(c, ServerIds)
         /\ \A s \in Slots : calls[s].answer \subseteq ServerIds
         /\ \A m \in ServerIds : m \in Nat
<1>1. \A s \in Slots : calls[s].answer \subseteq ServerIds
  BY DEF Typed, RepliesOK, ReplyOK, ServerIds
<1>2. \A n \in DOMAIN wire : wire[n] \in ServerIds
  BY WireType
<1>3. /\ messages \subseteq ServerIds /\ ServerIds = 1 .. Len(posted)
      /\ \A m \in ServerIds : m \in Nat
  BY IdsType DEF Typed
<1>4. Arriving \subseteq ServerIds
  BY <1>1, <1>2, ArrivingIs
<1>. QED
  BY <1>1, <1>3, <1>4 DEF Known, Of

(* A reply that brings a message of a chat to its sender is awaited        *)
LEMMA SentInChat ==
  ASSUME Typed, NEW s \in Slots, calls[s].kind = "send", calls[s].status = "ok",
         NEW m \in calls[s].answer
  PROVE  posted[m] = calls[s].chat /\ calls[s].chat \in Awaited
<1>1. posted[m] = calls[s].chat
  BY DEF Typed, RepliesOK, ReplyOK
<1>2. s \in UnderWay({"history", "send"})
  BY DEF UnderWay
<1>. QED
  BY <1>1, <1>2 DEF Awaited

(* What is known of a chat is saved, pushed or awaited                     *)
LEMMA KnownFrom ==
  ASSUME Typed, NEW c, Known(c) # {}
  PROVE  Cached(c) \/ c \in Announced
<1>1. PICK m \in Known(c) : TRUE
  OBVIOUS
<1>2. CASE m \in messages
  BY <1>1, <1>2 DEF Known, Of, Cached
<1>3. CASE m \in Arriving
  <2>1. CASE \E n \in DOMAIN wire : wire[n] = m
    BY <1>1, <2>1 DEF Known, Of, Announced
  <2>2. ASSUME NEW s \in Slots, calls[s].kind = "send", calls[s].status = "ok",
               m \in calls[s].answer
        PROVE  Cached(c)
    BY <1>1, <2>2, SentInChat DEF Known, Of, Cached
  <2>. QED
    BY <1>3, <2>1, <2>2, ArrivingIs
<1>. QED
  BY <1>1, <1>2, <1>3 DEF Known, Of

(* A chat that is not cached has no request for it under way               *)
LEMMA NotCached ==
  ASSUME NEW c, ~Cached(c)
  PROVE  /\ Of(c, messages) = {}
         /\ \A s \in Slots : ~(/\ calls[s].kind \in {"history", "send"}
                               /\ calls[s].status # "free" /\ calls[s].chat = c)
BY DEF Cached, Awaited, UnderWay

(* Nothing is known of a chat, and nothing of it is awaited                *)
LEMMA EmptyWhole ==
  ASSUME NEW c, Known(c)' = {},
         \A s \in Slots : ~(/\ calls'[s].kind = "history" /\ calls'[s].status # "free"
                            /\ calls'[s].chat = c)
  PROVE  Whole(c)'
BY DEF Whole, Upward, UnderWay

(* What is known of a chat may become more                                 *)
LEMMA WholeKept ==
  ASSUME NEW c, Whole(c), posted' = posted, Known(c) \subseteq Known(c)',
         Upward(c, Known(c))', Of(c, messages) \subseteq messages',
         \A s \in Slots : \/ calls'[s] = calls[s]
                          \/ calls'[s].kind # "history" \/ calls'[s].status = "free"
                          \/ calls'[s].chat # c \/ Continues(c, s)'
  PROVE  Whole(c)'
<1>1. ASSUME NEW s \in UnderWay({"history"})', calls'[s].chat = c PROVE Continues(c, s)'
  <2>1. s \in Slots /\ calls'[s].kind = "history" /\ calls'[s].status # "free"
    BY <1>1 DEF UnderWay
  <2>2. CASE calls'[s] = calls[s]
    <3>1. Continues(c, s)
      BY <1>1, <2>1, <2>2 DEF Whole, UnderWay
    <3>2. ASSUME calls[s].status = "ok", NEW n \in calls[s].answer,
                 NEW m \in Of(c, ServerIds), n < m
          PROVE  m \in calls[s].answer \cup Known(c)'
      BY <3>1, <3>2 DEF Continues, Upward
    <3>3. Of(c, ServerIds)' = Of(c, ServerIds)
      BY DEF Of, ServerIds
    <3>4. calls'[s].status = "ok" => Upward(c, calls[s].answer)'
      BY <2>2, <3>2, <3>3 DEF Upward
    <3>. QED
      BY <2>2, <3>1, <3>4 DEF Continues, Of
  <2>. QED
    BY <1>1, <2>1, <2>2
<1>. QED
  BY <1>1 DEF Whole

LEMMA WholeSame ==
  ASSUME NEW c, Whole(c), posted' = posted, Known(c)' = Known(c),
         Of(c, messages) \subseteq messages',
         \A s \in Slots : \/ calls'[s] = calls[s]
                          \/ calls'[s].kind # "history" \/ calls'[s].status = "free"
                          \/ calls'[s].chat # c \/ Continues(c, s)'
  PROVE  Whole(c)'
<1>1. Upward(c, Known(c))'
  BY DEF Whole, Upward, Of, ServerIds
<1>. QED
  BY <1>1, WholeKept

(* The pushes on their way and the replies to senders stay the same        *)
LEMMA ArrivingSame ==
  ASSUME Typed, wire' = wire, NEW s \in Slots, NEW call, Put(s, call),
         calls[s].kind # "send" \/ calls[s].status # "ok",
         call.kind # "send" \/ call.status # "ok"
  PROVE  Arriving' = Arriving
<1>1. calls'[s] = call /\ \A t \in Slots \ {s} : calls'[t] = calls[t]
  BY DEF Put, Typed, TypeOK
<1>. QED
  BY <1>1 DEF Arriving

(* The websocket is closed or opened anew: what has been missed is torn    *)
LEMMA MissedWhole ==
  ASSUME Typed, NEW c \in Chats, c \notin Missed, Whole(c), wire' = <<>>,
         UNCHANGED <<posted, messages>>,
         \A s \in Slots : calls'[s] = calls[s] \/ calls'[s].kind \notin {"history", "send"}
  PROVE  Whole(c)'
<1>1. \A m : m \in Arriving' =>
        \E s \in Slots : /\ calls[s].kind = "send" /\ calls[s].status = "ok"
                         /\ m \in calls[s].answer
  <2>1. DOMAIN wire' = {}
    OBVIOUS
  <2>. QED
    BY <2>1 DEF Arriving
<1>2. Arriving' \subseteq Arriving
  BY <1>1, ArrivingIs
<1>3. CASE ~Cached(c)
  <2>1. Known(c)' = {}
    <3>1. ASSUME NEW m \in Known(c)' PROVE FALSE
      <4>1. m \in Arriving' /\ posted[m] = c
        BY <1>3, <3>1, NotCached DEF Known, Of
      <4>2. PICK s \in Slots : /\ calls[s].kind = "send" /\ calls[s].status = "ok"
                               /\ m \in calls[s].answer
        BY <1>1, <4>1
      <4>. QED
        BY <1>3, <4>1, <4>2, SentInChat, NotCached
    <3>. QED
      BY <3>1
  <2>. QED
    BY <1>3, <2>1, NotCached, EmptyWhole
<1>4. CASE Cached(c)
  <2>1. c \notin Announced /\ \A s \in UnderWay({"send"}) : calls[s].chat # c
    BY <1>4 DEF Missed
  <2>2. ASSUME NEW m, posted[m] = c, m \in Arriving \cup Arriving' PROVE FALSE
    <3>1. m \in Arriving
      BY <1>2, <2>2
    <3>2. CASE \E n \in DOMAIN wire : wire[n] = m
      BY <2>1, <2>2, <3>2 DEF Announced
    <3>3. ASSUME NEW s \in Slots, calls[s].kind = "send", calls[s].status = "ok",
                 m \in calls[s].answer
          PROVE  FALSE
      BY <2>1, <2>2, <3>3, SentInChat DEF UnderWay
    <3>. QED
      BY <3>1, <3>2, <3>3, ArrivingIs
  <2>3. Known(c)' = Known(c)
    BY <2>2 DEF Known, Of
  <2>. QED
    BY <2>3, WholeSame DEF Of
<1>. QED
  BY <1>3, <1>4

-----------------------------------------------------------------------------
(* A message that is appended                                              *)

LEMMA NewMessageWhole ==
  ASSUME Typed, SocketInv, NEW c \in Chats, c \notin torn', Whole(c),
         NEW d \in Chats, NEW sender, Len(posted) < MaxPosts, posted' = Append(posted, d),
         Announce(Len(posted) + 1, d, sender), messages' = messages,
         Arriving \subseteq Arriving', Arriving' \subseteq Arriving \cup {Len(posted) + 1},
         sender = NoUser \/ Len(posted) + 1 \in Arriving',
         \A s \in Slots : calls'[s] = calls[s] \/ calls'[s].kind # "history"
  PROVE  Whole(c)'
<1> DEFINE k == Len(posted) + 1
<1>1. /\ \A n \in ServerIds : posted'[n] = posted[n] /\ n \in Nat
      /\ posted'[k] = d /\ ServerIds' = ServerIds \cup {k} /\ k \notin ServerIds
      /\ \A n \in ServerIds' : n <= k
      /\ messages \subseteq ServerIds /\ Known(c) \subseteq Of(c, ServerIds)
  BY PostedTypes, IdsType, KnownType DEF Typed
<1>2. Arriving \subseteq ServerIds
  BY WireType, KnownType, ArrivingIs
<1>3. Known(c) \subseteq Known(c)' /\ Known(c)' \subseteq Known(c) \cup {k}
  BY <1>1, <1>2 DEF Known, Of
<1>4. Of(c, ServerIds)' = Of(c, ServerIds) \cup (IF c = d THEN {k} ELSE {})
  BY <1>1 DEF Of
<1>5. c = d /\ (Cached(c) \/ c \in Announced) => k \in Known(c)'
  <2>1. SUFFICES ASSUME c = d, Cached(c) \/ c \in Announced PROVE k \in Arriving'
    BY <1>1 DEF Known, Of
  <2>2. socket = "open" /\ socketUser \in MembersOf[c]
    <3>1. CASE Cached(c)
      BY <2>1, <3>1 DEF Announce
    <3>2. CASE c \in Announced
      <4>1. PICK n \in DOMAIN wire : posted[wire[n]] = c
        BY <3>2 DEF Announced
      <4>2. wire # <<>>
        BY <4>1
      <4>. QED
        BY <4>1, <4>2 DEF SocketInv, MyChats
    <3>. QED
      BY <2>1, <3>1, <3>2
  <2>3. CASE socketUser = sender
    BY <2>2, <2>3, ClientAssumption
  <2>4. CASE socketUser # sender
    <3>1. wire' = Append(wire, k)
      BY <2>1, <2>2, <2>4 DEF Announce
    <3>2. wire \in Seq(ServerIds)
      BY WireType
    <3>3. Len(wire) + 1 \in DOMAIN wire' /\ wire'[Len(wire) + 1] = k
      <4> HIDE DEF k
      <4>. QED
        BY <3>1, <3>2
    <3>. QED
      BY <3>3 DEF Arriving
  <2>. QED
    BY <2>3, <2>4
<1>6. Upward(c, Known(c))'
  <2>1. ASSUME NEW n \in Known(c)', NEW m \in Of(c, ServerIds)', n < m PROVE m \in Known(c)'
    <3>1. n \in Nat /\ m \in Nat /\ n # k
      BY <1>1, <1>3, <1>4, <2>1 DEF Of
    <3>2. n \in Known(c)
      BY <1>3, <2>1, <3>1
    <3>3. CASE m \in Of(c, ServerIds)
      BY <1>3, <2>1, <3>2, <3>3 DEF Whole, Upward
    <3>4. CASE m = k /\ c = d
      BY <1>5, <3>2, <3>4, KnownFrom
    <3>. QED
      BY <1>4, <2>1, <3>3, <3>4
  <2>. QED
    BY <2>1 DEF Upward
<1>7. ASSUME NEW s \in UnderWay({"history"})', calls'[s].chat = c PROVE Continues(c, s)'
  <2>1. calls'[s] = calls[s] /\ s \in UnderWay({"history"}) /\ s \in Slots
    BY <1>7 DEF UnderWay
  <2>2. Continues(c, s) /\ calls[s].answer \subseteq ServerIds
    BY <1>7, <2>1, KnownType DEF Whole
  <2>3. Cached(c)
    BY <1>7, <2>1 DEF Cached, Awaited, UnderWay
  <2>4. ASSUME calls[s].status = "ok" PROVE Upward(c, calls[s].answer)'
    <3>1. SUFFICES ASSUME NEW n \in calls[s].answer, NEW m \in Of(c, ServerIds)', n < m
                   PROVE  m \in calls[s].answer \cup Known(c)'
      BY <2>1 DEF Upward
    <3>2. CASE m \in Of(c, ServerIds)
      BY <1>3, <2>2, <2>4, <3>1, <3>2 DEF Continues, Upward
    <3>3. CASE m = k /\ c = d
      BY <1>5, <2>3, <3>3
    <3>. QED
      BY <1>4, <3>1, <3>2, <3>3
  <2>5. calls[s].oldest \in Of(c, messages)' \cup {0}
    BY <1>1, <2>2 DEF Continues, Of
  <2>. QED
    BY <2>1, <2>2, <2>4, <2>5 DEF Continues
<1>. QED
  BY <1>6, <1>7 DEF Whole

(* A request is added or replaced by one that awaits nothing of the chat,  *)
(* or continues what is saved of it.                                       *)
LEMMA PutWhole ==
  ASSUME Typed, NEW c, Whole(c), UNCHANGED <<posted, messages, wire>>,
         NEW s \in Slots, NEW call, Put(s, call),
         calls[s].kind # "send" \/ calls[s].status # "ok",
         call.kind # "send" \/ call.status # "ok",
         \/ call.kind # "history" \/ call.status = "free"
         \/ call.chat # c \/ Continues(c, s)'
  PROVE  Whole(c)'
<1>1. calls'[s] = call /\ \A t \in Slots \ {s} : calls'[t] = calls[t]
  BY DEF Put, Typed, TypeOK
<1>2. Known(c)' = Known(c)
  BY ArrivingSame DEF Known, Of
<1>. QED
  BY <1>1, <1>2, WholeSame DEF Of

(* A free slot holds no call *)
LEMMA FreeCall ==
  ASSUME Typed, NEW s \in Slots, calls[s].status = "free"
  PROVE  calls[s].kind = "change" /\ calls[s].answer = {}
<1>1. calls[s] = NoCall
  BY DEF Typed, RepliesOK, ReplyOK
<1>2. NoCall.kind = "change" /\ NoCall.answer = {}
  BY DEF NoCall
<1>. QED
  BY <1>1, <1>2

LEMMA StartWhole ==
  ASSUME Typed, NEW c, Whole(c), UNCHANGED <<posted, messages, wire>>,
         NEW call \in Call, Start(call), call.status = "asked",
         \/ call.kind # "history" \/ call.chat # c
         \/ /\ call.before = call.oldest
            /\ call.oldest \in Of(c, messages) \cup {0}
  PROVE  Whole(c)'
<1>1. PICK s \in Slots : calls[s].status = "free" /\ Put(s, call)
  BY StartType DEF Typed
<1>2. calls'[s] = call
  BY <1>1, PutType DEF Typed
<1>3. call.kind # "history" \/ call.chat # c \/ Continues(c, s)'
  BY <1>2 DEF Continues, Of
<1>. QED
  BY <1>1, <1>3, FreeCall, PutWhole

LEMMA OldestIn ==
  ASSUME Typed, NEW c, OldestOf(c) # 0
  PROVE  OldestOf(c) \in Of(c, messages)
<1>1. Of(c, messages) \subseteq Nat
  BY IdsType DEF Typed, Of
<1>. QED
  BY <1>1, MinType DEF OldestOf

LEMMA AskedWhole ==
  ASSUME Typed, HolesInv, NEW c \in Chats, c \notin torn',
         \/ \E u \in Users : LoginUser(u)
         \/ FetchChats
         \/ \E d \in MyChats(token) :
              \E before \in {0, OldestOf(d)} \cup Of(d, shown) : FetchChatHistory(d, before)
         \/ \E d \in MyChats(token) : SendMessage(d)
         \/ \E d \in MyChats(token), kind \in {"change", "direct"} : Change(kind, d)
  PROVE  Whole(c)'
<1>1. /\ token \in Someone /\ userId \in Someone /\ 0 \in Ids \cup {0} /\ AnyChat \in Chats
      /\ Users \subseteq Someone
  BY AnyChatType DEF Typed, TypeOK, Someone
<1>2. ASSUME NEW u \in Users, LoginUser(u) PROVE Whole(c)'
  <2> DEFINE call == Ask("login", u, AnyChat, 0, 0)
  <2>1. Start(call) /\ UNCHANGED <<posted, messages, wire, torn>>
    BY <1>2 DEF LoginUser, storage, push
  <2>2. call \in Call /\ call.status = "asked" /\ call.kind = "login"
    BY <1>1, AskType DEF Kinds
  <2> HIDE DEF call
  <2>. QED
    BY <2>1, <2>2, StartWhole DEF HolesInv
<1>3. CASE FetchChats
  <2>1. Start(FetchChatsCall) /\ UNCHANGED <<posted, messages, wire, torn>>
    BY <1>3 DEF FetchChats, storage, push, history
  <2>2. FetchChatsCall \in Call /\ FetchChatsCall.status = "asked" /\ FetchChatsCall.kind = "previews"
    BY <1>1, AskType DEF Kinds, FetchChatsCall
  <2>. QED
    BY <2>1, <2>2, StartWhole DEF HolesInv
<1>4. ASSUME NEW d \in MyChats(token), SendMessage(d) PROVE Whole(c)'
  <2> DEFINE call == Ask("send", token, d, 0, 0)
  <2>1. Start(call) /\ UNCHANGED <<posted, messages, wire, torn>>
    BY <1>4 DEF SendMessage, storage, push, history
  <2>2. call \in Call /\ call.status = "asked" /\ call.kind = "send"
    BY <1>1, AskType, MyChatsType DEF Kinds
  <2> HIDE DEF call
  <2>. QED
    BY <2>1, <2>2, StartWhole DEF HolesInv
<1>5. ASSUME NEW d \in MyChats(token), NEW kind \in {"change", "direct"}, Change(kind, d)
      PROVE  Whole(c)'
  <2> DEFINE call == Ask(kind, token, d, 0, 0)
  <2>1. Start(call) /\ UNCHANGED <<posted, messages, wire, torn>>
    BY <1>5 DEF Change, storage, push, history
  <2>2. call \in Call /\ call.status = "asked" /\ call.kind # "history"
    BY <1>1, AskType, MyChatsType DEF Kinds
  <2> HIDE DEF call
  <2>. QED
    BY <2>1, <2>2, StartWhole DEF HolesInv
<1>6. ASSUME NEW d \in MyChats(token), NEW before \in {0, OldestOf(d)} \cup Of(d, shown),
             FetchChatHistory(d, before)
      PROVE  Whole(c)'
  <2> DEFINE call == Ask("history", token, d, before, OldestOf(d))
  <2>1. /\ Start(call) /\ UNCHANGED <<posted, messages, wire>> /\ ~ServedLocally(d, before)
        /\ torn' = IF before # 0 /\ OldestOf(d) = 0 THEN torn \cup {d} ELSE torn
    BY <1>6 DEF FetchChatHistory, push
  <2>2. /\ before \in Ids \cup {0} /\ OldestOf(d) \in Ids \cup {0}
    BY OldestType, IdsType DEF Typed, Of
  <2>3. /\ call \in Call /\ call.status = "asked" /\ call.chat = d
        /\ call.before = before /\ call.oldest = OldestOf(d)
    BY <1>1, <2>2, AskType, MyChatsType DEF Kinds, Ask
  <2>4. c = d => before = OldestOf(d) /\ OldestOf(d) \in Of(c, messages) \cup {0}
    BY <2>1, OldestIn DEF ServedLocally
  <2>5. Whole(c)
    BY <2>1 DEF HolesInv
  <2> HIDE DEF call
  <2>. QED
    BY <2>1, <2>3, <2>4, <2>5, StartWhole
<1>. QED
  BY <1>2, <1>3, <1>4, <1>5, <1>6

-----------------------------------------------------------------------------
(* The server                                                              *)

(* What the server answers to a request for history leaves out nothing     *)
(* that is newer and unknown.                                              *)
LEMMA AnswerWhole ==
  ASSUME Typed, NEW s \in Slots, calls[s].kind = "history", NEW c, calls[s].chat = c,
         Continues(c, s), Upward(c, Known(c))
  PROVE  Upward(c, AnswerTo(calls[s]))
<1> DEFINE before == calls[s].before
           asked == {m \in Of(c, ServerIds) : before = 0 \/ m < before}
<1>1. AnswerTo(calls[s]) = Page(asked)
  BY DEF AnswerTo
<1>2. /\ \A m \in ServerIds : m \in Nat
      /\ before = 0 \/ before \in Of(c, messages)
      /\ Of(c, messages) \subseteq Known(c) /\ messages \subseteq ServerIds
  BY IdsType, KnownType DEF Continues, Known, Of, Typed
<1>3. ASSUME NEW n \in Page(asked), NEW m \in Of(c, ServerIds), n < m
      PROVE  m \in Page(asked) \cup Known(c)
  <2>1. n \in asked /\ Cardinality({k \in asked : k > n}) < PageSize
    BY <1>3 DEF Page
  <2>2. CASE m \in asked
    <3> DEFINE above(x) == {k \in asked : k > x}
    <3>1. above(m) \subseteq above(n)
      BY <1>2, <1>3, <2>1, <2>2 DEF Of
    <3>2. IsFiniteSet(above(n)) /\ Cardinality(above(n)) \in Nat /\ Cardinality(above(m)) \in Nat
      <4>1. ServerIds = 1 .. Len(posted) /\ Len(posted) \in Nat
        BY IdsType DEF Typed
      <4>2. IsFiniteSet(ServerIds)
        <5>1. 1 \in Int /\ Len(posted) \in Int
          BY <4>1
        <5>2. IsFiniteSet(1 .. Len(posted))
          BY <5>1, FS_Interval
        <5>. QED
          BY <4>1, <5>2
      <4>3. above(n) \subseteq ServerIds /\ above(m) \subseteq ServerIds
        BY DEF Of
      <4>. QED
        BY <4>2, <4>3, FS_Subset, FS_CardinalityType
    <3>3. Cardinality(above(m)) <= Cardinality(above(n))
      BY <3>1, <3>2, FS_Subset
    <3>4. Cardinality(above(m)) < PageSize
      BY <2>1, <3>2, <3>3, ClientAssumption
    <3>. QED
      BY <2>2, <3>4 DEF Page
  <2>3. CASE m \notin asked
    <3>1. before # 0 /\ before \in Known(c) /\ m \in Nat /\ before \in Nat /\ ~(m < before)
      BY <1>2, <1>3, <2>3 DEF Of
    <3>2. CASE m = before
      BY <3>1, <3>2
    <3>3. CASE before < m
      BY <1>3, <3>1, <3>3 DEF Upward
    <3>. QED
      BY <3>1, <3>2, <3>3
  <2>. QED
    BY <2>2, <2>3
<1>. QED
  BY <1>1, <1>3 DEF Upward

LEMMA PostedWhole ==
  ASSUME Typed, SocketInv, HolesInv, NEW c \in Chats, c \notin torn', NEW d \in Chats, Post(d)
  PROVE  Whole(c)'
<1>1. /\ Len(posted) < MaxPosts /\ posted' = Append(posted, d)
      /\ Announce(Len(posted) + 1, d, NoUser) /\ UNCHANGED <<messages, calls>>
  BY DEF Post, storage
<1>2. wire \in Seq(ServerIds) /\ wire' \in {wire, Append(wire, Len(posted) + 1)}
  BY <1>1, WireType DEF Announce
<1>3. /\ \A n \in DOMAIN wire : n \in DOMAIN wire' /\ wire'[n] = wire[n]
      /\ \A n \in DOMAIN wire' : (n \in DOMAIN wire /\ wire'[n] = wire[n])
                                   \/ wire'[n] = Len(posted) + 1
  BY <1>2
<1>4. Arriving \subseteq Arriving' /\ Arriving' \subseteq Arriving \cup {Len(posted) + 1}
  BY <1>1, <1>3 DEF Arriving
<1>5. Whole(c)
  BY <1>1 DEF HolesInv, Announce
<1>. QED
  BY <1>1, <1>4, <1>5, NewMessageWhole

LEMMA ServedWhole ==
  ASSUME Typed, SocketInv, HolesInv, NEW c \in Chats, c \notin torn', NEW s \in Slots, Serve(s)
  PROVE  Whole(c)'
<1>1. /\ calls[s] \in Call /\ calls[s].chat \in Chats /\ calls[s].status = "asked"
      /\ messages' = messages
  BY CallType DEF Serve, Typed, storage
<1>2. CASE ~Allowed(calls[s])
  <2> DEFINE call == [calls[s] EXCEPT !.status = "error"]
  <2>1. Put(s, call) /\ UNCHANGED <<posted, wire, torn>>
    BY <1>2 DEF Serve, push
  <2>2. /\ call.status = "error" /\ call.kind = calls[s].kind /\ call.chat = calls[s].chat
        /\ call.before = calls[s].before /\ call.oldest = calls[s].oldest /\ call \in Call
    BY <1>1 DEF Call
  <2>3. Whole(c) /\ calls'[s] = call
    BY <2>1, <2>2, PutType DEF HolesInv, Typed
  <2> HIDE DEF call
  <2>4. call.kind = "history" /\ call.chat = c => Continues(c, s)
    BY <1>1, <2>2, <2>3 DEF Whole, UnderWay
  <2>5. call.kind = "history" /\ call.chat = c => Continues(c, s)'
    BY <1>1, <2>1, <2>2, <2>3, <2>4 DEF Continues, Of
  <2>. QED
    BY <1>1, <2>1, <2>2, <2>3, <2>5, PutWhole
<1>3. CASE Allowed(calls[s]) /\ calls[s].kind = "send"
  <2> DEFINE k == Len(posted) + 1
             call == [calls[s] EXCEPT !.status = "ok", !.answer = {k}]
  <2>1. /\ Len(posted) < MaxPosts /\ posted' = Append(posted, calls[s].chat)
        /\ Put(s, call) /\ Announce(k, calls[s].chat, calls[s].auth)
    BY <1>3 DEF Serve
  <2>2. k \in Ids
    BY <2>1, IdsType, ClientAssumption DEF Ids, Typed
  <2>3. /\ call.status = "ok" /\ call.kind = "send" /\ call.answer = {k} /\ call \in Call
    BY <1>1, <1>3, <2>2 DEF Call
  <2>4. calls'[s] = call /\ \A t \in Slots \ {s} : calls'[t] = calls[t]
    BY <2>1, <2>3, PutType DEF Typed
  <2>5. wire \in Seq(ServerIds) /\ wire' \in {wire, Append(wire, k)}
    BY <2>1, WireType DEF Announce
  <2> HIDE DEF call
  <2>6. /\ \A n \in DOMAIN wire : n \in DOMAIN wire' /\ wire'[n] = wire[n]
        /\ \A n \in DOMAIN wire' : (n \in DOMAIN wire /\ wire'[n] = wire[n]) \/ wire'[n] = k
    <3> HIDE DEF k
    <3>. QED
      BY <2>5
  <2>7. /\ Arriving \subseteq Arriving' /\ Arriving' \subseteq Arriving \cup {k}
        /\ k \in Arriving'
    <3> HIDE DEF k
    <3>. QED
      BY <1>1, <2>3, <2>4, <2>6 DEF Arriving
  <2>8. Whole(c)
    BY <2>1 DEF HolesInv, Announce
  <2>9. \A t \in Slots : calls'[t] = calls[t] \/ calls'[t].kind # "history"
    BY <2>3, <2>4
  <2>. QED
    BY <1>1, <2>1, <2>7, <2>8, <2>9, NewMessageWhole
<1>4. CASE Allowed(calls[s]) /\ calls[s].kind # "send"
  <2> DEFINE call == [calls[s] EXCEPT !.status = "ok", !.answer = AnswerTo(calls[s])]
  <2>1. Put(s, call) /\ UNCHANGED <<posted, wire, torn>>
    BY <1>4 DEF Serve, push
  <2>2. AnswerTo(calls[s]) \subseteq Ids
    BY <1>1, AnswerType, IdsType DEF Typed
  <2>3. /\ call.status = "ok" /\ call.kind = calls[s].kind /\ call.chat = calls[s].chat
        /\ call.before = calls[s].before /\ call.oldest = calls[s].oldest
        /\ call.answer = AnswerTo(calls[s]) /\ call \in Call
    BY <1>1, <2>2 DEF Call
  <2>4. Whole(c) /\ calls'[s] = call
    BY <2>1, <2>3, PutType DEF HolesInv, Typed
  <2> HIDE DEF call
  <2>5. Known(c)' = Known(c)
    BY <1>1, <1>4, <2>1, <2>3, ArrivingSame DEF Known, Of
  <2>6. ASSUME call.kind = "history", call.chat = c PROVE Continues(c, s)'
    <3>1. Continues(c, s)
      BY <1>1, <2>3, <2>4, <2>6 DEF Whole, UnderWay
    <3>2. Upward(c, AnswerTo(calls[s]))
      BY <2>3, <2>4, <2>6, <3>1, AnswerWhole DEF Whole
    <3> DEFINE ids == AnswerTo(calls[s])
    <3>3. calls'[s].answer = ids
      BY <2>3, <2>4
    <3> HIDE DEF ids
    <3>4. Of(c, ServerIds)' = Of(c, ServerIds)
      BY <2>1 DEF Of, ServerIds
    <3>5. ASSUME NEW n \in ids, NEW m \in Of(c, ServerIds)', n < m
          PROVE  m \in ids \cup Known(c)'
      BY <2>5, <3>2, <3>4, <3>5 DEF Upward, ids
    <3>6. Upward(c, calls[s].answer)'
      BY <3>3, <3>5 DEF Upward
    <3>. QED
      BY <1>1, <2>1, <2>3, <2>4, <3>1, <3>6 DEF Continues, Of
  <2>. QED
    BY <1>1, <1>4, <2>1, <2>3, <2>4, <2>6, PutWhole
<1>. QED
  BY <1>2, <1>3, <1>4

-----------------------------------------------------------------------------
(* Replies                                                                 *)

LEMMA PreviewsWhole ==
  ASSUME Typed, HolesInv, NEW c \in Chats, c \notin torn', NEW s \in Slots, Reply(s),
         calls[s].kind = "previews", PreviewsAnswered(s)
  PROVE  Whole(c)'
<1>1. /\ messages' = {m \in messages : posted[m] \notin Outdated(s)}
      /\ torn' = (torn \ Outdated(s)) \cup (Outdated(s) \cap (Awaited \cup Announced))
      /\ Put(s, NoCall) /\ UNCHANGED <<wire, posted>>
  BY DEF PreviewsAnswered, ClearChats, push, Reply
<1>2. NoCall.kind = "change" /\ NoCall.status = "free"
  BY DEF NoCall
<1>3. calls'[s] = NoCall /\ \A t \in Slots \ {s} : calls'[t] = calls[t]
  BY <1>1, NoCallType, PutType DEF Typed
<1>4. Arriving' = Arriving
  BY <1>1, <1>2, ArrivingSame
<1>5. CASE c \in Outdated(s)
  <2>1. c \notin Awaited /\ c \notin Announced
    BY <1>1, <1>5
  <2>2. Known(c)' = {}
    <3>1. ASSUME NEW m \in Known(c)' PROVE FALSE
      <4>1. m \in Arriving /\ posted[m] = c
        BY <1>1, <1>4, <1>5, <3>1 DEF Known, Of
      <4>2. CASE \E n \in DOMAIN wire : wire[n] = m
        BY <2>1, <4>1, <4>2 DEF Announced
      <4>3. ASSUME NEW t \in Slots, calls[t].kind = "send", calls[t].status = "ok",
                   m \in calls[t].answer
            PROVE  FALSE
        BY <2>1, <4>1, <4>3, SentInChat
      <4>. QED
        BY <4>1, <4>2, <4>3, ArrivingIs
    <3>. QED
      BY <3>1
  <2>3. ASSUME NEW t \in Slots
        PROVE  ~(calls'[t].kind = "history" /\ calls'[t].status # "free" /\ calls'[t].chat = c)
    BY <1>2, <1>3, <2>1 DEF Awaited, UnderWay
  <2>. QED
    BY <2>2, <2>3, EmptyWhole
<1>6. CASE c \notin Outdated(s)
  <2>1. Whole(c)
    BY <1>1, <1>6 DEF HolesInv
  <2>2. Known(c)' = Known(c) /\ Of(c, messages) \subseteq messages'
    BY <1>1, <1>4, <1>6 DEF Known, Of
  <2>3. \A t \in Slots : calls'[t] = calls[t] \/ calls'[t].kind # "history"
    BY <1>2, <1>3
  <2>. QED
    BY <1>1, <2>1, <2>2, <2>3, WholeSame
<1>. QED
  BY <1>5, <1>6

LEMMA SendWhole ==
  ASSUME Typed, HolesInv, NEW c \in Chats, c \notin torn', NEW s \in Slots, Reply(s),
         calls[s].kind = "send", SendAnswered(s)
  PROVE  Whole(c)'
<1>1. /\ messages' = messages \cup calls[s].answer /\ calls[s].status = "ok"
      /\ Put(s, NoCall) /\ UNCHANGED <<wire, posted, torn>>
  BY DEF SendAnswered, AddMessages, push, Reply
<1>2. NoCall.kind = "change"
  BY DEF NoCall
<1>3. calls'[s] = NoCall /\ \A t \in Slots \ {s} : calls'[t] = calls[t]
  BY <1>1, NoCallType, PutType DEF Typed
<1>4. messages' \cup Arriving' = messages \cup Arriving
  BY <1>1, <1>2, <1>3 DEF Arriving
<1>5. Known(c)' = Known(c)
  BY <1>1, <1>4 DEF Known, Of
<1>6. \A t \in Slots : calls'[t] = calls[t] \/ calls'[t].kind # "history"
  BY <1>2, <1>3
<1>. QED
  BY <1>1, <1>5, <1>6, WholeSame DEF HolesInv, Of

(* The page is joined to what is saved without a gap *)
LEMMA HistoryWhole ==
  ASSUME Typed, HolesInv, NEW c \in Chats, c \notin torn', NEW s \in Slots, Reply(s),
         calls[s].kind = "history", HistoryAnswered(s)
  PROVE  Whole(c)'
<1> DEFINE oldest == calls[s].oldest
           new == {m \in calls[s].answer : oldest = 0 \/ oldest > m}
<1>1. /\ messages' = messages \cup new /\ calls[s].status = "ok"
      /\ Put(s, NoCall) /\ UNCHANGED <<wire, posted, torn>>
  BY DEF HistoryAnswered, AddMessages, push, Reply
<1>2. NoCall.kind = "change"
  BY DEF NoCall
<1>3. calls'[s] = NoCall /\ \A t \in Slots \ {s} : calls'[t] = calls[t]
  BY <1>1, NoCallType, PutType DEF Typed
<1>4. Arriving' = Arriving
  BY <1>1, <1>2, ArrivingSame
<1>5. Known(c)' = Known(c) \cup Of(c, new)
  BY <1>1, <1>4 DEF Known, Of
<1>6. /\ Whole(c) /\ \A m \in new : posted[m] = calls[s].chat
      /\ \A t \in Slots : calls'[t] = calls[t] \/ calls'[t].kind # "history"
  BY <1>1, <1>2, <1>3 DEF HolesInv, Typed, RepliesOK, ReplyOK
<1>7. Upward(c, Known(c))'
  <2>1. Of(c, ServerIds)' = Of(c, ServerIds)
    BY <1>1 DEF Of, ServerIds
  <2>2. ASSUME NEW n \in Known(c)', NEW m \in Of(c, ServerIds), n < m PROVE m \in Known(c)'
    <3>1. CASE n \in Known(c)
      BY <1>5, <1>6, <2>2, <3>1 DEF Whole, Upward
    <3>2. CASE n \in Of(c, new)
      <4>1. n \in new /\ calls[s].chat = c
        BY <1>6, <3>2 DEF Of
      <4>2. Continues(c, s)
        BY <1>1, <1>6, <4>1 DEF Whole, UnderWay
      <4>3. m \in calls[s].answer \cup Known(c)
        BY <1>1, <2>2, <4>1, <4>2 DEF Continues, Upward
      <4>4. CASE m \in new
        BY <1>5, <2>2, <4>4 DEF Of
      <4>5. CASE m \in calls[s].answer /\ m \notin new
        <5>1. oldest # 0 /\ ~(oldest > m)
          BY <4>5
        <5>2. oldest \in Known(c) /\ oldest \in ServerIds /\ m \in ServerIds
          BY <2>2, <4>2, <5>1, KnownType DEF Continues, Known, Of
        <5>3. oldest = m \/ oldest < m
          BY <5>1, <5>2, KnownType
        <5>4. m \in Known(c)
          BY <1>6, <2>2, <5>2, <5>3 DEF Whole, Upward
        <5>. QED
          BY <1>5, <5>4
      <4>. QED
        BY <1>5, <4>3, <4>4, <4>5
    <3>. QED
      BY <1>5, <2>2, <3>1, <3>2
  <2>. QED
    BY <2>1, <2>2 DEF Upward
<1>8. Known(c) \subseteq Known(c)' /\ Of(c, messages) \subseteq messages'
  BY <1>1, <1>5 DEF Of
<1>. QED
  BY <1>1, <1>6, <1>7, <1>8, WholeKept

LEMMA ReplyWhole ==
  ASSUME Typed, HolesInv, NEW c \in Chats, c \notin torn', NEW s \in Slots, Reply(s)
  PROVE  Whole(c)'
<1>1. calls[s].kind \in Kinds /\ calls[s].chat \in Chats /\ posted' = posted
  BY CallType DEF Reply, Typed
<1>2. CASE LoginAnswered(s)
  <2> DEFINE call == [Ask("user_id", calls[s].user, AnyChat, 0, 0) EXCEPT !.auth = calls[s].user]
  <2>1. /\ Put(s, call) /\ wire' = <<>> /\ torn' = torn \cup Missed /\ messages' = messages
    BY <1>2 DEF LoginAnswered, Opening, storage
  <2>2. call.kind = "user_id"
    BY DEF Ask
  <2>3. \A t \in Slots : calls'[t] = calls[t] \/ calls'[t].kind \notin {"history", "send"}
    <3> HIDE DEF call
    <3>. QED
      BY <2>1, <2>2 DEF Put, Typed, TypeOK
  <2>. QED
    BY <1>1, <2>1, <2>3, MissedWhole DEF HolesInv
<1>3. CASE UserIdAnswered(s) /\ calls[s].kind = "user_id"
  <2>1. Put(s, NoCall) /\ UNCHANGED <<messages, wire, torn>>
    BY <1>3 DEF UserIdAnswered, storage, push
  <2>2. NoCall.kind = "change"
    BY DEF NoCall
  <2>. QED
    BY <1>1, <1>3, <2>1, <2>2, PutWhole DEF HolesInv
<1>4. CASE ChangeAnswered(s) /\ calls[s].kind = "change"
  <2>1. PICK call \in {NoCall, FetchChatsCall} : Put(s, call)
    BY <1>4 DEF ChangeAnswered
  <2>2. call.kind \in {"change", "previews"}
    BY <2>1 DEF NoCall, FetchChatsCall, Ask
  <2>3. UNCHANGED <<messages, wire, torn>>
    BY <1>4 DEF ChangeAnswered, storage, push
  <2>. QED
    BY <1>1, <1>4, <2>1, <2>2, <2>3, PutWhole DEF HolesInv
<1>5. CASE DirectAnswered(s) /\ calls[s].kind = "direct"
  <2> DEFINE d == calls[s].chat
             ask == Ask("history", token, d, 0, OldestOf(d))
  <2>1. UNCHANGED <<messages, wire, torn>>
    BY <1>5 DEF DirectAnswered, storage, push
  <2>2. CASE Put(s, NoCall)
    <3>1. NoCall.kind = "change"
      BY DEF NoCall
    <3>. QED
      BY <1>1, <1>5, <2>1, <2>2, <3>1, PutWhole DEF HolesInv
  <2>3. CASE Put(s, ask) /\ ~ServedLocally(d, 0)
    <3>1. OldestOf(d) = 0
      BY <2>3 DEF ServedLocally
    <3>2. ask.before = 0 /\ ask.oldest = 0 /\ ask.status = "asked"
      BY <3>1 DEF Ask
    <3> HIDE DEF ask
    <3>3. calls'[s] = ask
      BY <2>3 DEF Put, Typed, TypeOK
    <3>4. Continues(c, s)'
      BY <3>2, <3>3 DEF Continues
    <3>. QED
      BY <1>1, <1>5, <2>1, <2>3, <3>2, <3>4, PutWhole DEF HolesInv
  <2>. QED
    BY <1>5, <2>2, <2>3 DEF DirectAnswered
<1>. QED
  BY <1>1, <1>2, <1>3, <1>4, <1>5, PreviewsWhole, HistoryWhole, SendWhole DEF Reply, Kinds

LEMMA FailedWhole ==
  ASSUME Typed, HolesInv, NEW c \in Chats, c \notin torn', NEW s \in Slots, ReplyFails(s)
  PROVE  Whole(c)'
<1>1. /\ calls[s].status # "free" /\ Put(s, NoCall) /\ UNCHANGED <<messages, wire, posted>>
      /\ torn' = torn \cup {d \in Chats : /\ Cached(d) /\ d = calls[s].chat
                                          /\ calls[s].kind = "send"}
  BY DEF ReplyFails, storage, push
<1>2. NoCall.kind = "change" /\ NoCall.status = "free"
  BY DEF NoCall
<1>3. Whole(c)
  BY <1>1 DEF HolesInv
<1>4. CASE calls[s].kind # "send"
  BY <1>1, <1>2, <1>3, <1>4, PutWhole
<1>5. CASE calls[s].kind = "send"
  <2>1. s \in UnderWay({"history", "send"})
    BY <1>1, <1>5 DEF UnderWay
  <2>2. calls[s].chat # c
    BY <1>1, <1>5, <2>1 DEF Cached, Awaited
  <2>3. calls'[s] = NoCall /\ \A t \in Slots \ {s} : calls'[t] = calls[t]
    BY <1>1, NoCallType, PutType DEF Typed
  <2>4. ASSUME NEW m, posted[m] = c PROVE m \in Arriving' <=> m \in Arriving
    <3>1. ~(calls[s].status = "ok" /\ m \in calls[s].answer)
      BY <1>5, <2>2, <2>4, SentInChat
    <3>. QED
      BY <1>1, <1>2, <1>5, <2>3, <3>1 DEF Arriving
  <2>5. Known(c)' = Known(c)
    BY <1>1, <2>4 DEF Known, Of
  <2>6. \A t \in Slots : calls'[t] = calls[t] \/ calls'[t].kind # "history"
    BY <1>2, <2>3
  <2>. QED
    BY <1>1, <1>3, <2>5, <2>6, WholeSame DEF Of
<1>. QED
  BY <1>4, <1>5

-----------------------------------------------------------------------------
(* The websocket, and the session                                          *)

LEMMA SocketWhole ==
  ASSUME Typed, HolesInv, NEW c \in Chats, c \notin torn',
         Accepted \/ ReceivePush \/ SocketLost \/ Restart \/ Logout \/ SaveSettings
           \/ UNCHANGED vars
  PROVE  Whole(c)'
<1>1. CASE Accepted \/ SaveSettings \/ UNCHANGED vars
  <2>1. UNCHANGED <<messages, wire, calls, posted, torn>>
    BY <1>1 DEF Accepted, SaveSettings, vars, storage, push, history
  <2>2. Known(c)' = Known(c)
    BY <2>1 DEF Known, Of, Arriving
  <2>. QED
    BY <2>1, <2>2, WholeSame DEF HolesInv, Of
<1>2. CASE ReceivePush
  <2>1. /\ wire # <<>> /\ wire' = Tail(wire) /\ messages' = messages \cup {Head(wire)}
        /\ UNCHANGED <<calls, posted, torn>>
    BY <1>2 DEF ReceivePush, AddMessages, history
  <2>2. wire \in Seq(ServerIds) /\ 1 \in DOMAIN wire /\ Head(wire) = wire[1]
    BY <2>1, WireType
  <2>3. /\ \A n \in DOMAIN wire' : n + 1 \in DOMAIN wire /\ wire'[n] = wire[n + 1]
        /\ \A n \in DOMAIN wire : n = 1 \/ (n - 1 \in DOMAIN wire' /\ wire[n] = wire'[n - 1])
    BY <2>1, <2>2
  <2>4. ASSUME NEW m PROVE m \in (messages \cup Arriving)' <=> m \in messages \cup Arriving
    <3>1. m = Head(wire) => \E n \in DOMAIN wire : wire[n] = m
      BY <2>2
    <3>2. (\E n \in DOMAIN wire' : wire'[n] = m) => \E n \in DOMAIN wire : wire[n] = m
      BY <2>3
    <3>3. (\E n \in DOMAIN wire : wire[n] = m) =>
            m = Head(wire) \/ \E n \in DOMAIN wire' : wire'[n] = m
      BY <2>2, <2>3
    <3>. QED
      BY <2>1, <3>1, <3>2, <3>3 DEF Arriving
  <2>5. Known(c)' = Known(c)
    BY <2>1, <2>4 DEF Known, Of
  <2>. QED
    BY <2>1, <2>5, WholeSame DEF HolesInv, Of
<1>3. CASE SocketLost
  <2>1. wire' = <<>> /\ torn' = torn \cup Missed /\ UNCHANGED <<messages, calls, posted>>
    BY <1>3 DEF SocketLost, storage
  <2>. QED
    BY <2>1, MissedWhole DEF HolesInv
<1>4. CASE Restart
  <2>1. /\ wire' = <<>> /\ torn' = torn \cup Missed /\ UNCHANGED <<messages, posted>>
        /\ \A t \in Slots : calls'[t] = NoCall
    BY <1>4 DEF Restart, Opening
  <2>2. NoCall.kind = "change"
    BY DEF NoCall
  <2>. QED
    BY <2>1, <2>2, MissedWhole DEF HolesInv
<1>5. CASE Logout
  <2>1. /\ messages' = {} /\ wire' = <<>> /\ torn' = Awaited /\ UNCHANGED <<calls, posted>>
    BY <1>5 DEF Logout, ClearCache
  <2>2. ASSUME NEW m \in Known(c)' PROVE FALSE
    <3>1. m \in Arriving' /\ posted[m] = c /\ DOMAIN wire' = {}
      BY <2>1, <2>2 DEF Known, Of
    <3>2. PICK s \in Slots : /\ calls[s].kind = "send" /\ calls[s].status = "ok"
                             /\ m \in calls[s].answer
      BY <2>1, <3>1 DEF Arriving
    <3>. QED
      BY <2>1, <3>1, <3>2, SentInChat
  <2>3. Known(c)' = {}
    BY <2>2
  <2>4. ASSUME NEW t \in Slots
        PROVE  ~(calls'[t].kind = "history" /\ calls'[t].status # "free" /\ calls'[t].chat = c)
    BY <2>1 DEF Awaited, UnderWay
  <2>. QED
    BY <2>3, <2>4, EmptyWhole
<1>. QED
  BY <1>1, <1>2, <1>3, <1>4, <1>5

LEMMA HolesStep == Typed /\ SocketInv /\ HolesInv /\ [Next]_vars => HolesInv'
<1>1. ASSUME Typed, SocketInv, HolesInv, [Next]_vars, NEW c \in Chats, c \notin torn'
      PROVE  Whole(c)'
  BY <1>1, AskedWhole, PostedWhole, ServedWhole, ReplyWhole, FailedWhole, SocketWhole DEF Next
<1>. QED
  BY <1>1 DEF HolesInv

(* What the client saves of a chat is the newest of the chat, without a    *)
(* hole, as long as it has missed nothing.                                 *)
THEOREM SavedWithoutHoles == Spec => []NoHoles
<1>1. Init => Typed /\ AccountsInv /\ HolesInv
  <2>1. ASSUME Init PROVE AccountsInv /\ HolesInv
    <3>1. AccountsInv
      BY <2>1 DEF Init, AccountsInv, SocketInv, AccountsSeparate
    <3>2. NoCall.kind = "change"
      BY DEF NoCall
    <3>3. posted = <<>> /\ ServerIds = {} /\ \A s \in Slots : calls[s] = NoCall
      BY <2>1 DEF Init, ServerIds
    <3>4. HolesInv
      BY <3>2, <3>3 DEF HolesInv, Whole, Upward, Of, UnderWay
    <3>. QED
      BY <3>1, <3>4
  <2>. QED
    BY <2>1, InitTypes, InitReplies DEF Typed
<1>2. Typed /\ AccountsInv /\ HolesInv /\ [Next]_vars => (Typed /\ AccountsInv /\ HolesInv)'
  BY TypeStep, RepliesStep, AccountsStep, HolesStep DEF Typed, AccountsInv
<1>3. ASSUME Typed, HolesInv PROVE NoHoles
  <2>1. ASSUME NEW c \in Chats \ torn, NEW m \in Of(c, ServerIds) \ (messages \cup Arriving),
               NEW n \in Of(c, messages)
        PROVE  m < n
    <3>1. n \in Known(c) /\ m \notin Known(c) /\ m \in ServerIds /\ n \in ServerIds
      BY <1>3, <2>1, KnownType DEF Known, Of
    <3>2. ~(n < m) /\ m # n
      BY <1>3, <2>1, <3>1 DEF HolesInv, Whole, Upward
    <3>. QED
      BY <1>3, <3>1, <3>2, KnownType
  <2>. QED
    BY <2>1 DEF NoHoles
<1>. QED
  BY <1>1, <1>2, <1>3, PTL DEF Spec
=============================================================================
