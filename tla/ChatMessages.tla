---------------------------- MODULE ChatMessages ----------------------------
(***************************************************************************)
(* Messages of ordinary chats: ChatController and ChatService over         *)
(* ChatRepository, MessageRepository and AttachmentRepository.             *)
(*                                                                         *)
(* Each request is a coroutine; one action is what it does from one SQL    *)
(* statement to the next.  MessageRepository::send and the addition of a   *)
(* member are transactions.  A statement takes a connection of the pool    *)
(* and gives it back; a transaction keeps its connection.  Statements that *)
(* only read rows which never change (users, chats) are left out, and so   *)
(* are roles and the limit of members, which GroupMembers models.          *)
(***************************************************************************)
EXTENDS S3Service, Sequences, FiniteSets

CONSTANTS
  Users,
  Chats,
  MembersAtFirst,  \* members of each chat
  Online,          \* users with a connection that pushes reach
  Requests,        \* names of requests, each made once
  NoRequest,
  Body,            \* what each of them asks for
  Limit,           \* messages in one page of the history
  MaxFiles,        \* attachments of one request for links
  PoolSize,        \* connections to the data base
  Scenarios        \* bounds a behaviour may choose from

Shapes == {"ok", "no_json", "missing_field", "invalid_field"}

(***************************************************************************)
(* by is the caller, and for "add" and "leave" the user who comes or goes. *)
(* chat is that of the path or the body.  about is the request whose       *)
(* message a reply, a page or getMessageById names.  tokens are named by   *)
(* the requests for links that returned them.                              *)
(***************************************************************************)
Request ==
  [kind : {"send", "read", "page", "preview", "by_id", "links", "add",
           "leave"},
   by : Users, chat : Chats, type : MessageTypes, shape : Shapes,
   about : Requests \cup {NoRequest}, forwards : BOOLEAN,
   tokens : Seq(Requests), files : Seq(Extensions)]

Scenario == [asked : SUBSET Requests, overlap : Nat, faults : Nat,
             crashes : Nat]

ASSUME MessagesAssumption ==
  /\ MembersAtFirst \in [Chats -> SUBSET Users]
  /\ Online \subseteq Users
  /\ IsFiniteSet(Requests) /\ NoRequest \notin Requests
  /\ Body \in [Requests -> Request]
  /\ Limit \in Nat \ {0} /\ MaxFiles \in Nat /\ PoolSize \in Nat \ {0}
  /\ Scenarios \subseteq Scenario

VARIABLES
  members,    \* rows of chat_members: users of each chat
  mark,       \* last_read_message_id of each member; 0 is NULL
  lastId,     \* the sequence of message ids
  id,         \* the id of the message of each request; 0: none yet
  files,      \* rows of attachments: how many each message has
  stored,     \* requests whose message is committed
  held,       \* requests whose transaction holds a connection
  target,     \* the message id that a request marks as read
  found,      \* messages a request has read, named by their requests
  base,       \* the read mark a request for previews has read
  unread,     \* the number of unread messages it has counted
  list,       \* chat_members in sendMessage, those still to be notified
  told,       \* notifications handed over: pairs <<request, user>>
  overtaken,  \* history: messages committed after a later one of their chat
  crossed,    \* history: requests that overlapped another of their user
  earlier,    \* history: what was stored when a user was last added
  pc, faults, crashes, scenario

rows == <<members, mark, lastId, id, files, stored, held>>
reading == <<target, found, base, unread>>
pushing == <<list, told>>
history == <<overtaken, crossed, earlier>>
vars == <<rows, reading, history, pushing, pc, faults, crashes, scenario, s3>>

(* In a transaction *)
TxSteps == {"name", "insert", "attach", "commit", "rollback", "add"}

Steps == TxSteps \cup
  {"access", "begin", "find_member", "update_mark", "sender", "members",
   "push", "select", "attachments", "own_rows", "last", "count", "delete"}

(* "200" stands for the 201 of an addition, too *)
Answers == {"200", "201", "400", "403", "404", "500"}

TypeOK ==
  /\ S3TypeOK
  /\ members \in [Chats -> SUBSET Users]
  /\ mark \in [Chats -> [Users -> Nat]]
  /\ lastId \in Nat
  /\ id \in [Requests -> Nat]
  /\ files \in [Requests -> Nat]
  /\ stored \subseteq Requests
  /\ held \subseteq Requests /\ Cardinality(held) <= PoolSize
  /\ target \in [Requests -> Nat]
  /\ found \in [Requests -> SUBSET Requests]
  /\ base \in [Requests -> Nat] /\ unread \in [Requests -> Nat]
  /\ list \in [Requests -> SUBSET Users]
  /\ told \subseteq Requests \X Users
  /\ overtaken \subseteq Requests /\ crossed \subseteq Requests
  /\ earlier \in [Chats -> [Users -> SUBSET Requests]]
  /\ pc \in [Requests -> {"never", "new", "lost"} \cup Steps \cup Answers]
  /\ faults \in Nat /\ crashes \in Nat
  /\ scenario \in Scenarios

Zero == [q \in Requests |-> 0]

Init ==
  /\ S3Init
  /\ members = MembersAtFirst
  /\ mark = [c \in Chats |-> [u \in Users |-> 0]]
  /\ lastId = 0 /\ id = Zero /\ files = Zero
  /\ stored = {} /\ held = {}
  /\ target = Zero /\ base = Zero /\ unread = Zero
  /\ found = [q \in Requests |-> {}]
  /\ list = [q \in Requests |-> {}] /\ told = {}
  /\ overtaken = {} /\ crossed = {}
  /\ earlier = [c \in Chats |-> [u \in Users |-> {}]]
  /\ scenario \in Scenarios
  /\ pc = [q \in Requests |-> IF q \in scenario.asked THEN "new" ELSE "never"]
  /\ faults = 0 /\ crashes = 0

-----------------------------------------------------------------------------
Goto(q, next) == pc' = [pc EXCEPT ![q] = next]

InFlight == {q \in Requests : pc[q] \in Steps}

ConnectionFree == Cardinality(held) < PoolSize

Member(q) == Body[q].by \in members[Body[q].chat]

(* Committed messages of the chat of q *)
InChat(q) == {m \in stored : Body[m].chat = Body[q].chat}

Newest(messages) == {m \in messages : \A n \in messages : id[n] <= id[m]}

(* What the user has got in answers and pushes *)
Got(u) ==
  (UNION {found[q] : q \in {r \in Requests : Body[r].by = u /\ pc[r] = "200"}})
    \cup {q \in Requests : Body[q].by = u /\ pc[q] = "201"}
    \cup {q \in Requests : u \in Online /\ <<q, u>> \in told}

(* The message that a read request names: the newest one got of the chat   *)
ReadMessages(q) == Newest({m \in Got(Body[q].by) : Body[m].chat = Body[q].chat})

WellFormed(q) ==
  /\ Body[q].kind \in {"send", "read", "links"} =>
       Body[q].shape \notin {"no_json", "missing_field"}
  /\ Body[q].kind \in {"send", "links"} => Body[q].shape # "invalid_field"
  /\ Body[q].kind = "links" =>
       /\ Len(Body[q].files) <= MaxFiles
       /\ Body[q].type = "voice" => Len(Body[q].files) = 1

FirstStep(q) ==
  CASE Body[q].kind \in {"send", "page", "links"} -> "access"
    [] Body[q].kind = "read" -> "find_member"
    [] Body[q].kind = "preview" -> "own_rows"
    [] Body[q].kind = "by_id" -> "select"
    [] Body[q].kind = "add" -> "begin"
    [] Body[q].kind = "leave" -> "delete"

(* A request enters: the filters and the controller                        *)
Receive(q) ==
  /\ server = "up"
  /\ pc[q] = "new"
  /\ Cardinality(InFlight) < scenario.overlap
  /\ Goto(q, IF WellFormed(q) THEN FirstStep(q) ELSE "400")
  /\ IF Body[q].kind = "read"
       THEN \E m \in ReadMessages(q) : target' = [target EXCEPT ![q] = id[m]]
       ELSE UNCHANGED target
  /\ LET others == {r \in InFlight : Body[r].by = Body[q].by}
     IN crossed' = crossed \cup others \cup
                     (IF others = {} THEN {} ELSE {q})
  /\ UNCHANGED <<rows, found, base, unread, overtaken, earlier, pushing, faults,
                 crashes, scenario, s3>>

(* Steps that change nothing but what is named *)
Quiet == UNCHANGED <<history, pushing, faults, crashes, scenario, s3>>

-----------------------------------------------------------------------------
(* Access *)

(* A link is signed for each file; its token names type and file *)
FilesFit(q) ==
  \A n \in DOMAIN Body[q].files :
    ValidateFileType(Body[q].type, MimeOf(Body[q].files[n]))

TokensValid(q) ==
  \A n \in DOMAIN Body[q].tokens :
    LET t == Body[q].tokens[n]
    IN Body[t].kind = "links" /\ pc[t] = "200" /\ Body[t].type = Body[q].type

CheckChatAccess(q) ==
  /\ pc[q] = "access" /\ ConnectionFree
  /\ Goto(q, CASE ~Member(q) -> "403"
               [] Member(q) /\ Body[q].kind = "page" -> "select"
               [] Member(q) /\ Body[q].kind = "by_id" -> "attachments"
               [] Member(q) /\ Body[q].kind = "links" ->
                    IF FilesFit(q) THEN "200" ELSE "400"
               [] Member(q) /\ Body[q].kind = "send" ->
                    IF TokensValid(q) THEN "begin" ELSE "400")
  /\ UNCHANGED <<rows, reading>> /\ Quiet

-----------------------------------------------------------------------------
(* The transactions of send and of addGroupChatMember *)

Begin(q) ==
  /\ pc[q] = "begin" /\ ConnectionFree
  /\ held' = held \cup {q}
  /\ Goto(q, CASE Body[q].kind = "add" -> "add"
               [] Body[q].kind = "send" ->
                    IF Body[q].forwards THEN "name" ELSE "insert")
  /\ UNCHANGED <<members, mark, lastId, id, files, stored, reading>> /\ Quiet

(* The name of the forwarded user is read through another connection *)
ForwardedUser(q) ==
  /\ pc[q] = "name" /\ ConnectionFree
  /\ Goto(q, "insert")
  /\ UNCHANGED <<rows, reading>> /\ Quiet

AfterInsert(q, n) == IF n < Len(Body[q].tokens) THEN "attach" ELSE "commit"

(* The sequence counts on even if the transaction is rolled back.  A reply  *)
(* must name a committed message.                                           *)
InsertMessage(q) ==
  /\ pc[q] = "insert"
  /\ lastId' = lastId + 1
  /\ IF Body[q].about \in stored \cup {NoRequest}
       THEN /\ id' = [id EXCEPT ![q] = lastId + 1]
            /\ Goto(q, AfterInsert(q, 0))
       ELSE Goto(q, "rollback") /\ UNCHANGED id
  /\ UNCHANGED <<members, mark, files, stored, held, reading>> /\ Quiet

CreateAttachment(q) ==
  /\ pc[q] = "attach"
  /\ files' = [files EXCEPT ![q] = @ + 1]
  /\ Goto(q, AfterInsert(q, files[q] + 1))
  /\ UNCHANGED <<members, mark, lastId, id, stored, held, reading>> /\ Quiet

Overtakes(q) ==
  {m \in held \ {q} : Body[m].chat = Body[q].chat /\ id[m] \in 1 .. id[q]}

Commit(q) ==
  /\ pc[q] = "commit"
  /\ stored' = stored \cup {q}
  /\ held' = held \ {q}
  /\ overtaken' = overtaken \cup Overtakes(q)
  /\ Goto(q, "find_member")
  /\ target' = [target EXCEPT ![q] = id[q]]
  /\ UNCHANGED <<members, mark, lastId, id, files, found, base, unread,
                 crossed, earlier, pushing, faults, crashes, scenario, s3>>

(* Mutant: the attachments were inserted outside the transaction *)
RollbackMessageOnly(q) ==
  /\ pc[q] = "rollback"
  /\ id' = [id EXCEPT ![q] = 0]
  /\ held' = held \ {q}
  /\ Goto(q, "500")
  /\ UNCHANGED <<members, mark, lastId, files, stored, reading>> /\ Quiet

(* Mutant: the connection is not given back *)
RollbackKeepsConnection(q) ==
  /\ pc[q] = "rollback"
  /\ id' = [id EXCEPT ![q] = 0]
  /\ files' = [files EXCEPT ![q] = 0]
  /\ Goto(q, "500")
  /\ UNCHANGED <<members, mark, lastId, stored, held, reading>> /\ Quiet

Rollback(q) ==
  /\ pc[q] = "rollback"
  /\ id' = [id EXCEPT ![q] = 0]
  /\ files' = [files EXCEPT ![q] = 0]
  /\ held' = held \ {q}
  /\ Goto(q, "500")
  /\ UNCHANGED <<members, mark, lastId, stored, reading>> /\ Quiet

-----------------------------------------------------------------------------
(* markAsRead, of the message just sent or of a read request *)

MarkDone(q, done) ==
  IF Body[q].kind = "send" THEN "sender" ELSE IF done THEN "200" ELSE "500"

FindMember(q) ==
  /\ pc[q] = "find_member" /\ ConnectionFree
  /\ Goto(q, IF Member(q) THEN "update_mark" ELSE MarkDone(q, FALSE))
  /\ UNCHANGED <<rows, reading>> /\ Quiet

(* Mutant: the rows of all members are updated *)
UpdateAllMarks(q) ==
  /\ pc[q] = "update_mark" /\ ConnectionFree
  /\ mark' = [mark EXCEPT ![Body[q].chat] =
       [u \in Users |-> IF u \in members[Body[q].chat] THEN target[q] ELSE @[u]]]
  /\ Goto(q, MarkDone(q, TRUE))
  /\ UNCHANGED <<members, lastId, id, files, stored, held, reading>> /\ Quiet

(* The UPDATE of a row that is gone changes nothing *)
UpdateMark(q) ==
  /\ pc[q] = "update_mark" /\ ConnectionFree
  /\ mark' = [mark EXCEPT ![Body[q].chat][Body[q].by] =
                IF Member(q) THEN target[q] ELSE @]
  /\ Goto(q, MarkDone(q, TRUE))
  /\ UNCHANGED <<members, lastId, id, files, stored, held, reading>> /\ Quiet

SenderInfo(q) ==
  /\ pc[q] = "sender" /\ ConnectionFree
  /\ Goto(q, "members")
  /\ UNCHANGED <<rows, reading>> /\ Quiet

(* Mutant: the members of a chat are cached *)
GetCachedMembers(q) ==
  /\ pc[q] = "members" /\ ConnectionFree
  /\ list' = [list EXCEPT ![q] = MembersAtFirst[Body[q].chat] \ {Body[q].by}]
  /\ Goto(q, "push")
  /\ UNCHANGED <<rows, reading, history, told, faults, crashes, scenario, s3>>

(* All but the sender are to be notified *)
GetMembers(q) ==
  /\ pc[q] = "members" /\ ConnectionFree
  /\ list' = [list EXCEPT ![q] = members[Body[q].chat] \ {Body[q].by}]
  /\ Goto(q, "push")
  /\ UNCHANGED <<rows, reading, history, told, faults, crashes, scenario, s3>>

(* notifyClient, for one of them after the other, and then the answer *)
Push(q) ==
  /\ pc[q] = "push"
  /\ IF list[q] = {}
       THEN Goto(q, "201") /\ UNCHANGED pushing
       ELSE \E u \in list[q] :
              /\ list' = [list EXCEPT ![q] = @ \ {u}]
              /\ told' = told \cup {<<q, u>>}
              /\ UNCHANGED pc
  /\ UNCHANGED <<rows, reading, history, faults, crashes, scenario, s3>>

-----------------------------------------------------------------------------
(* Reading messages *)

Before(q) ==
  IF Body[q].about = NoRequest THEN InChat(q)
    ELSE {m \in InChat(q) : id[m] < id[Body[q].about]}

(* Mutant: the page is not ordered before it is cut off *)
AnyPage(messages) ==
  {page \in SUBSET messages :
     Cardinality(page) = Limit \/ (Cardinality(page) < Limit /\ page = messages)}

(* ORDER BY id DESC LIMIT *)
NewestPage(messages) ==
  {{m \in messages : Cardinality({n \in messages : id[n] > id[m]}) < Limit}}

(* getByChat, or findByPrimaryKey, which looks into every chat *)
Select(q) ==
  /\ pc[q] = "select" /\ ConnectionFree
  /\ IF Body[q].kind = "page"
       THEN /\ \E page \in NewestPage(Before(q)) : found' = [found EXCEPT ![q] = page]
            /\ Goto(q, "attachments")
       ELSE /\ found' = [found EXCEPT ![q] = {Body[q].about} \cap stored]
            /\ Goto(q, IF Body[q].about \in stored THEN "access" ELSE "404")
  /\ UNCHANGED <<rows, target, base, unread>> /\ Quiet

(* The rows of the messages' attachments, and links for them *)
Attachments(q) ==
  /\ pc[q] = "attachments" /\ ConnectionFree
  /\ Goto(q, "200")
  /\ UNCHANGED <<rows, reading>> /\ Quiet

(* getByUser reads the user's rows of chat_members, then two queries a chat *)
OwnRows(q) ==
  /\ pc[q] = "own_rows" /\ ConnectionFree
  /\ base' = [base EXCEPT ![q] = mark[Body[q].chat][Body[q].by]]
  /\ Goto(q, IF Member(q) THEN "last" ELSE "200")
  /\ UNCHANGED <<rows, target, found, unread>> /\ Quiet

LastMessage(q) ==
  /\ pc[q] = "last" /\ ConnectionFree
  /\ found' = [found EXCEPT ![q] = Newest(InChat(q))]
  /\ Goto(q, "count")
  /\ UNCHANGED <<rows, target, base, unread>> /\ Quiet

(* Mutant: the mark is read again for the count *)
CountFromMark(q) ==
  /\ pc[q] = "count" /\ ConnectionFree
  /\ unread' = [unread EXCEPT ![q] =
       Cardinality({m \in InChat(q) : id[m] > mark[Body[q].chat][Body[q].by]})]
  /\ Goto(q, "attachments")
  /\ UNCHANGED <<rows, target, found, base>> /\ Quiet

CountUnread(q) ==
  /\ pc[q] = "count" /\ ConnectionFree
  /\ unread' = [unread EXCEPT ![q] =
       Cardinality({m \in InChat(q) : id[m] > base[q]})]
  /\ Goto(q, "attachments")
  /\ UNCHANGED <<rows, target, found, base>> /\ Quiet

-----------------------------------------------------------------------------
(* The member leaves or is removed: one DELETE, see GroupMembers *)
Leave(q) ==
  /\ pc[q] = "delete" /\ ConnectionFree
  /\ members' = [members EXCEPT ![Body[q].chat] = @ \ {Body[q].by}]
  /\ mark' = [mark EXCEPT ![Body[q].chat][Body[q].by] = 0]
  /\ Goto(q, "200")
  /\ UNCHANGED <<lastId, id, files, stored, held, reading>> /\ Quiet

(* FOR UPDATE of the row of the chat waits for inserted messages, which    *)
(* refer to it                                                             *)
LockedOut(q) ==
  pc[q] = "add" /\ \E m \in held : Body[m].chat = Body[q].chat /\ id[m] > 0

(* The lock, the row of a user who has none yet, and the commit.  The mark *)
(* of the row is NULL, as it is where there is no row.                     *)
AddMember(q) ==
  LET c == Body[q].chat  u == Body[q].by IN
  /\ pc[q] = "add" /\ ~LockedOut(q)
  /\ IF Member(q)
       THEN Goto(q, "rollback") /\ UNCHANGED <<members, held, earlier>>
       ELSE /\ members' = [members EXCEPT ![c] = @ \cup {u}]
            /\ earlier' = [earlier EXCEPT ![c][u] = stored]
            /\ held' = held \ {q}
            /\ Goto(q, "200")
  /\ UNCHANGED <<mark, lastId, id, files, stored, reading, overtaken, crossed,
                 pushing, faults, crashes, scenario, s3>>

(* A statement or the signing of a link fails.  A forwarded user who does   *)
(* not exist is such a failure, too.                                        *)
Fails(q) ==
  /\ faults < scenario.faults
  /\ pc[q] \in Steps \ {"rollback", "push"}
  /\ faults' = faults + 1
  /\ Goto(q, IF pc[q] \in TxSteps THEN "rollback" ELSE "500")
  /\ UNCHANGED <<rows, reading, history, pushing, crashes, scenario, s3>>

(* The process stops: open transactions are rolled back *)
Crash ==
  /\ server = "up"
  /\ crashes < scenario.crashes
  /\ crashes' = crashes + 1
  /\ pc' = [q \in Requests |-> IF pc[q] \in Steps THEN "lost" ELSE pc[q]]
  /\ id' = [q \in Requests |-> IF q \in held THEN 0 ELSE id[q]]
  /\ files' = [q \in Requests |-> IF q \in held THEN 0 ELSE files[q]]
  /\ held' = {}
  /\ RestartServer
  /\ UNCHANGED <<members, mark, lastId, stored, reading, history, pushing,
                 faults, scenario>>

-----------------------------------------------------------------------------
Plain == UNCHANGED <<rows, reading, history, pushing, pc, crashes, scenario>>

(* Calls to the storage at start-up; what fails, or comes from elsewhere,   *)
(* counts as a fault                                                        *)
StartUp ==
  \/ BucketFound \/ BucketMissing \/ MakeBucketAnswered \/ MakeBucketRefused
  \/ server = "dead" /\ RestartServer

StartUpFails == BucketExistsFails \/ MakeBucketFails \/ MadeElsewhere

Storage ==
  /\ \/ StartUp /\ UNCHANGED faults
     \/ StartUpFails /\ faults < scenario.faults /\ faults' = faults + 1
  /\ Plain

Handle(q) ==
  \/ CheckChatAccess(q) \/ Begin(q) \/ ForwardedUser(q) \/ InsertMessage(q)
  \/ CreateAttachment(q) \/ Commit(q) \/ Rollback(q)
  \/ FindMember(q) \/ UpdateMark(q) \/ SenderInfo(q) \/ GetMembers(q)
  \/ Push(q) \/ Select(q) \/ Attachments(q)
  \/ OwnRows(q) \/ LastMessage(q) \/ CountUnread(q) \/ AddMember(q) \/ Leave(q)

Next ==
  \/ \E q \in Requests : Receive(q) \/ Handle(q) \/ Fails(q)
  \/ Crash \/ Storage

Spec == Init /\ [][Next]_vars

-----------------------------------------------------------------------------
Sent == {q \in Requests : Body[q].kind = "send"}

(* A message that was refused is not in the chat; one that ended in an     *)
(* error is there only if something failed after its commit.               *)
RefusedIsNotStored ==
  \A q \in Sent : q \in stored =>
    /\ pc[q] \notin {"400", "403", "404"}
    /\ pc[q] \in {"500", "lost"} => faults + crashes > 0

(* A message and its attachments are stored together or not at all, and    *)
(* they are of the kinds that messages of its type may carry, although the *)
(* kind is checked when the links are asked for and the type when the      *)
(* message is sent.                                                        *)
AttachmentsWhole ==
  \A q \in Requests : q \notin held =>
    /\ files[q] = IF q \in stored THEN Len(Body[q].tokens) ELSE 0
    /\ q \in stored => \A n \in DOMAIN Body[q].tokens :
         LET link == Body[Body[q].tokens[n]]
         IN \A f \in DOMAIN link.files :
              ValidateFileType(Body[q].type, MimeOf(link.files[f]))

(* Nobody falls between the history and the pushes: a member who is told   *)
(* nothing of a message that was answered with 201 was added when it was   *)
(* stored already, so that every page he asks for can show it.             *)
ToldOrInHistory ==
  \A q \in Sent : pc[q] = "201" =>
    \A u \in members[Body[q].chat] \ {Body[q].by} :
      <<q, u>> \in told \/ q \in earlier[Body[q].chat][u]

(* Pages of the history that a user has got *)
Pages(u) ==
  {p \in Requests : Body[p].kind = "page" /\ Body[p].by = u /\ pc[p] = "200"}

Between(a, m, b) == id[a] < id[m] /\ id[m] < id[b]

(* What a read request marks as read although its user has not got it: to  *)
(* a member who is connected its push is still to come, or was lost with   *)
(* an error, or he was added later; and a page he has got leaves it out    *)
(* from between two of its messages only if it was committed out of order. *)
ReadMeansGot ==
  \A q \in Requests : Body[q].kind = "read" /\ pc[q] = "200" =>
    LET u == Body[q].by
    IN \A m \in InChat(q) \ Got(u) : id[m] <= target[q] =>
         /\ u \in Online \cap members[Body[q].chat] =>
              \/ pc[m] \in Steps \cup {"500", "lost"}
              \/ m \in earlier[Body[q].chat][u]
         /\ \A p \in Pages(u) : Body[p].chat = Body[q].chat =>
              \A a, b \in found[p] : Between(a, m, b) => m \in overtaken

(* The preview of a chat never shows a new last message with nothing       *)
(* unread, although the two are read one after the other.                  *)
PreviewNeverHidesUnread ==
  \A q \in Requests : Body[q].kind = "preview" /\ pc[q] = "200" =>
    \A m \in found[q] : id[m] > base[q] => unread[q] > 0

(* The mark of a user moves back only by a request that overlapped another *)
(* request of his, or when he was not answered the message it moves from.  *)
MarkMovesBackOnlyByOverlap ==
  [][\A c \in Chats, u \in Users :
       u \in members'[c] /\ mark'[c][u] < mark[c][u] =>
         \/ \E q \in crossed : Body[q].by = u /\ pc[q] = "update_mark"
                                 /\ pc'[q] # "update_mark"
         \/ \E q \in Sent : Body[q].by = u /\ id[q] = mark[c][u]
                              /\ pc[q] \in {"500", "lost"}]_vars

(* No request waits for a connection for ever, unless as many forwards as  *)
(* there are connections wait for a second one.                            *)
NoJamBelowPoolSize ==
  InFlight # {} /\ ~ConnectionFree =>
    \/ \E q \in held : pc[q] \in TxSteps \ {"name"} /\ ~LockedOut(q)
    \/ Cardinality({q \in held : pc[q] = "name"}) = PoolSize

-----------------------------------------------------------------------------
(* Why pages have no holes and marks do not move back: invariants that     *)
(* each step keeps                                                         *)

(* Every id was counted, by a transaction that is open or committed *)
IdsCounted ==
  \A q \in Requests : id[q] <= lastId /\ (id[q] > 0 => q \in held \cup stored)

(* What has an id below that of a stored message of its chat is stored     *)
(* too, or was overtaken by it                                             *)
CommitsInOrder ==
  \A b \in stored, m \in Requests :
    /\ Body[m].chat = Body[b].chat
    /\ 0 < id[m] /\ id[m] < id[b]
    => m \in stored \cup overtaken

(* A page leaves out only what was not there when it was read *)
PageWhole(p) ==
  Body[p].kind = "page" /\ pc[p] \in {"attachments", "200"} =>
    /\ found[p] \subseteq InChat(p)
    /\ \A a, b \in found[p], m \in Requests :
         Body[m].chat = Body[p].chat /\ Between(a, m, b) =>
           m \in found[p] \cup overtaken

(* A mark is the id of a message of the chat that the user got or sent *)
Marked(c, u) ==
  \/ mark[c][u] = 0
  \/ \E m \in stored : /\ Body[m].chat = c /\ id[m] = mark[c][u]
                       /\ m \in Got(u) \/ Body[m].by = u

(* A request marks its own message, or one that its user has got *)
Targets(q) ==
  pc[q] \in {"find_member", "update_mark"} =>
    IF Body[q].kind = "send" THEN target[q] = id[q]
      ELSE \E m \in Got(Body[q].by) \cap InChat(q) : id[m] = target[q]

(* Two requests of a user that are under way have crossed *)
CrossedSeen ==
  \A q, r \in InFlight : q # r /\ Body[q].by = Body[r].by => q \in crossed

(* The mark is that of a message of the user that ended in an error *)
MarkOfError(q) ==
  \E m \in stored : /\ Body[m].by = Body[q].by
                    /\ id[m] = mark[Body[q].chat][Body[q].by]
                    /\ pc[m] \in {"500", "lost"}

(* A request that met no other of its user finds a mark below its target *)
Apart(q) ==
  LET now == mark[Body[q].chat][Body[q].by]
  IN q \notin crossed =>
       /\ pc[q] \in {"attach", "commit"} => now < id[q]
       /\ pc[q] \in {"find_member", "update_mark"} =>
            now <= target[q] \/ MarkOfError(q)

OrderInv ==
  /\ IdsCounted /\ CommitsInOrder /\ CrossedSeen
  /\ \A q \in Requests :
       /\ found[q] \subseteq stored /\ (pc[q] = "201" => q \in stored)
       /\ PageWhole(q) /\ Targets(q) /\ Apart(q)
  /\ \A c \in Chats, u \in Users : Marked(c, u)
=============================================================================
