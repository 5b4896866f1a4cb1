------------------------- MODULE ChatMessagesProofs -------------------------
(***************************************************************************)
(* Proofs about ChatMessages, for any users, chats, requests, faults and   *)
(* stops, and any size of the pool.                                        *)
(***************************************************************************)
EXTENDS ChatMessages, FiniteSetTheorems, TLAPS

LEMMA BodyType ==
  ASSUME NEW q \in Requests
  PROVE  /\ Body[q] \in Request
         /\ Body[q].by \in Users /\ Body[q].chat \in Chats
         /\ Body[q].about \in Requests \cup {NoRequest}
         /\ Body[q].tokens \in Seq(Requests)
         /\ Len(Body[q].tokens) \in Nat
         /\ DOMAIN Body[q].tokens = 1 .. Len(Body[q].tokens)
         /\ \A n \in DOMAIN Body[q].tokens : Body[q].tokens[n] \in Requests
BY MessagesAssumption DEF Request

LEMMA ScenarioType ==
  ASSUME TypeOK
  PROVE  /\ scenario.overlap \in Nat /\ scenario.faults \in Nat
         /\ scenario.crashes \in Nat
<1>1. scenario \in Scenario
  BY MessagesAssumption DEF TypeOK
<1>. QED
  BY <1>1 DEF Scenario

LEMMA RequestsFinite ==
  ASSUME NEW S \in SUBSET Requests
  PROVE  IsFiniteSet(S) /\ Cardinality(S) \in Nat
BY MessagesAssumption, FS_Subset, FS_CardinalityType

(* The pool: a transaction takes a connection if one is free               *)
LEMMA TakeConnection ==
  ASSUME held \subseteq Requests, ConnectionFree, NEW q \in Requests
  PROVE  Cardinality(held \cup {q}) <= PoolSize
<1>1. IsFiniteSet(held) /\ Cardinality(held) \in Nat
  BY RequestsFinite
<1>2. Cardinality(held \cup {q}) <= Cardinality(held) + 1
  BY <1>1, FS_AddElement
<1>3. Cardinality(held \cup {q}) \in Nat
  BY RequestsFinite
<1>. QED
  BY <1>1, <1>2, <1>3, MessagesAssumption DEF ConnectionFree

LEMMA GiveBack ==
  ASSUME held \subseteq Requests, Cardinality(held) <= PoolSize, NEW S, S \subseteq held
  PROVE  Cardinality(S) <= PoolSize
<1>1. IsFiniteSet(held) /\ Cardinality(held) \in Nat /\ Cardinality(S) \in Nat
  BY RequestsFinite
<1>2. Cardinality(S) <= Cardinality(held)
  BY <1>1, FS_Subset
<1>. QED
  BY <1>1, <1>2, MessagesAssumption

-----------------------------------------------------------------------------
(* The storage                                                             *)

LEMMA StorageTypes ==
  ASSUME S3TypeOK, StartUp \/ StartUpFails \/ RestartServer
  PROVE  S3TypeOK'
<1>1. bucket' \in BOOLEAN
  BY DEF S3TypeOK, StartUp, StartUpFails, BucketFound, BucketMissing, BucketExistsFails,
    MadeElsewhere, MakeBucketAnswered, MakeBucketRefused, MakeBucketFails, RestartServer
<1>2. server \in {"starting", "up", "dead"} \cup Making /\ attempt \in 1 .. MaxAttempts
  BY DEF S3TypeOK
<1>3. \/ NextAttempt
      \/ server' \in {server, "up", "dead"} \cup Making /\ attempt' = attempt
      \/ RestartServer
  BY DEF StartUp, StartUpFails, BucketFound, BucketMissing, BucketExistsFails,
    MadeElsewhere, MakeBucketAnswered, MakeBucketRefused, MakeBucketFails, AfterError
<1>4. server' \in {"starting", "up", "dead"} \cup Making /\ attempt' \in 1 .. MaxAttempts
  <2>1. CASE NextAttempt /\ attempt < MaxAttempts
    BY <1>2, <2>1, S3Assumption DEF NextAttempt
  <2>2. CASE NextAttempt /\ ~(attempt < MaxAttempts)
    BY <1>2, <2>2 DEF NextAttempt
  <2>3. CASE server' \in {server, "up", "dead"} \cup Making /\ attempt' = attempt
    BY <1>2, <2>3
  <2>4. CASE RestartServer
    BY <2>4, S3Assumption DEF RestartServer
  <2>. QED
    BY <1>3, <2>1, <2>2, <2>3, <2>4
<1>. QED
  BY <1>1, <1>4 DEF S3TypeOK

(* Each way to "up" has seen the bucket, made it or been told of it        *)
LEMMA StorageUp ==
  ASSUME UpMeansBucket, StartUp \/ StartUpFails \/ RestartServer \/ UNCHANGED s3
  PROVE  UpMeansBucket'
BY DEF UpMeansBucket, StartUp, StartUpFails, BucketFound, BucketMissing,
  BucketExistsFails, MadeElsewhere, MakeBucketAnswered, MakeBucketRefused,
  MakeBucketFails, AfterError, Making, NextAttempt, RestartServer, s3

-----------------------------------------------------------------------------
(* Types *)

LEMMA InitTypes == Init => TypeOK
<1>1. Cardinality({}) <= PoolSize
  BY FS_EmptySet, MessagesAssumption
<1>2. Init => S3TypeOK
  <2>1. Init => bucket = FALSE
    BY DEF Init, S3Init
  <2>2. Init => server = "starting" /\ attempt = 1
    BY DEF Init, S3Init
  <2>3. 1 \in 1 .. MaxAttempts
    BY S3Assumption
  <2>. QED
    BY <2>1, <2>2, <2>3 DEF S3TypeOK
<1>3. Init => /\ members \in [Chats -> SUBSET Users] /\ mark \in [Chats -> [Users -> Nat]]
              /\ found \in [Requests -> SUBSET Requests]
              /\ list \in [Requests -> SUBSET Users]
              /\ earlier \in [Chats -> [Users -> SUBSET Requests]]
              /\ pc \in [Requests -> {"never", "new"}]
  BY MessagesAssumption DEF Init
<1>4. Zero \in [Requests -> Nat]
  BY DEF Zero
<1>. QED
  BY <1>1, <1>2, <1>3, <1>4 DEF Init, TypeOK

PcTypes == {"never", "new", "lost"} \cup Steps \cup Answers

(* A request takes the steps of its kind only                              *)
StepsOfKind ==
  \A q \in Requests :
    /\ pc[q] \in {"name", "insert", "attach", "commit", "sender", "members", "push"} =>
         Body[q].kind = "send"
    /\ pc[q] \in {"begin", "rollback"} => Body[q].kind \in {"send", "add"}
    /\ pc[q] = "add" => Body[q].kind = "add"
    /\ pc[q] = "access" => Body[q].kind \in {"send", "page", "links", "by_id"}
    /\ pc[q] \in {"find_member", "update_mark"} => Body[q].kind \in {"send", "read"}
    /\ pc[q] = "select" => Body[q].kind \in {"page", "by_id"}
    /\ pc[q] = "attachments" => Body[q].kind \in {"page", "by_id", "preview"}
    /\ pc[q] \in {"own_rows", "last", "count"} => Body[q].kind = "preview"
    /\ pc[q] = "delete" => Body[q].kind = "leave"

LEMMA NewestType ==
  ASSUME NEW S
  PROVE  Newest(S) \subseteq S
BY DEF Newest

LEMMA ReceiveTypes ==
  ASSUME TypeOK, NEW q \in Requests, Receive(q)
  PROVE  TypeOK'
<1>1. target' \in [Requests -> Nat]
  <2>1. \A u \in Users : Got(u) \subseteq Requests
    <3>1. \A r \in Requests : found[r] \subseteq Requests
      BY DEF TypeOK
    <3>2. ASSUME NEW u \in Users, NEW m \in Got(u)
          PROVE  m \in Requests
      <4>1. \/ \E r \in Requests : m \in found[r]
            \/ m \in Requests
        BY <3>2, Zenon DEF Got
      <4>. QED
        BY <3>1, <4>1
    <3>. QED
      BY <3>2
  <2>2. ReadMessages(q) \subseteq Requests
    BY <2>1, BodyType, NewestType DEF ReadMessages
  <2>. QED
    BY <2>2 DEF Receive, TypeOK
<1>2. crossed' \subseteq Requests
  BY DEF Receive, TypeOK, InFlight
<1>3. pc' \in [Requests -> PcTypes]
  <2>1. FirstStep(q) \in Steps
    BY BodyType DEF FirstStep, Steps, TxSteps, Request
  <2>. QED
    BY <2>1 DEF Receive, Goto, TypeOK, PcTypes, Answers
<1>. QED
  BY <1>1, <1>2, <1>3 DEF Receive, TypeOK, PcTypes, rows, pushing, s3, S3TypeOK

(* Steps that change nothing but where the request stands                  *)
LEMMA MoveTypes ==
  ASSUME TypeOK, StepsOfKind, NEW q \in Requests,
         \/ CheckChatAccess(q) \/ ForwardedUser(q) \/ FindMember(q) \/ SenderInfo(q)
         \/ Attachments(q)
  PROVE  TypeOK'
<1>1. pc' \in [Requests -> PcTypes]
  <2>1. CASE CheckChatAccess(q)
    <3>1. Body[q].kind \in {"send", "page", "links", "by_id"}
      BY <2>1 DEF StepsOfKind, CheckChatAccess
    <3>2. \E n \in PcTypes : pc' = [pc EXCEPT ![q] = n]
      BY <2>1, <3>1 DEF CheckChatAccess, Goto, PcTypes, Steps, TxSteps, Answers
    <3>. QED
      BY <3>2 DEF TypeOK, PcTypes
  <2>2. CASE ForwardedUser(q) \/ FindMember(q) \/ SenderInfo(q) \/ Attachments(q)
    <3>1. \E n \in PcTypes : pc' = [pc EXCEPT ![q] = n]
      BY <2>2 DEF ForwardedUser, FindMember, SenderInfo, Attachments, MarkDone,
        Goto, PcTypes, Steps, TxSteps, Answers
    <3>. QED
      BY <3>1 DEF TypeOK, PcTypes
  <2>. QED
    BY <2>1, <2>2
<1>2. UNCHANGED <<rows, reading, history, pushing, faults, crashes, scenario, s3>>
  BY DEF CheckChatAccess, ForwardedUser, FindMember, SenderInfo, Attachments, Quiet
<1>. QED
  BY <1>1, <1>2 DEF TypeOK, PcTypes, rows, reading, history, pushing, s3, S3TypeOK

(* The steps of a transaction                                              *)
LEMMA TransactionTypes ==
  ASSUME TypeOK, StepsOfKind, NEW q \in Requests,
         \/ Begin(q) \/ InsertMessage(q) \/ CreateAttachment(q) \/ Commit(q)
         \/ Rollback(q)
  PROVE  TypeOK'
<1>1. pc' \in [Requests -> PcTypes]
  <2>1. \E n \in PcTypes : pc' = [pc EXCEPT ![q] = n]
    BY DEF StepsOfKind, PcTypes, Begin, InsertMessage, CreateAttachment, Commit, Rollback,
      AfterInsert, Goto, Steps, TxSteps, Answers
  <2>. QED
    BY <2>1 DEF TypeOK, PcTypes
<1>2. held' \subseteq Requests /\ Cardinality(held') <= PoolSize
  <2>1. held \subseteq Requests /\ Cardinality(held) <= PoolSize
    BY DEF TypeOK
  <2>2. CASE Begin(q)
    BY <2>1, <2>2, TakeConnection DEF Begin
  <2>3. CASE Commit(q) \/ Rollback(q)
    <3>1. held' = held \ {q}
      BY <2>3 DEF Commit, Rollback
    <3>. QED
      BY <2>1, <3>1, GiveBack
  <2>4. CASE InsertMessage(q) \/ CreateAttachment(q)
    BY <2>1, <2>4 DEF InsertMessage, CreateAttachment
  <2>. QED
    BY <2>2, <2>3, <2>4
<1>3. lastId' \in Nat /\ id' \in [Requests -> Nat] /\ files' \in [Requests -> Nat]
  <2>1. lastId \in Nat /\ id \in [Requests -> Nat] /\ files \in [Requests -> Nat]
    BY DEF TypeOK
  <2>. QED
    BY <2>1 DEF Begin, InsertMessage, CreateAttachment, Commit, Rollback
<1>4. /\ stored' \subseteq Requests /\ overtaken' \subseteq Requests
      /\ target' \in [Requests -> Nat]
  BY DEF TypeOK, Begin, InsertMessage, CreateAttachment, Commit, Rollback, Overtakes,
    Quiet, history, reading
<1>5. UNCHANGED <<members, mark, found, base, unread, pushing, crossed, earlier, faults,
                  crashes, scenario, s3>>
  BY DEF Begin, InsertMessage, CreateAttachment, Commit, Rollback, Quiet, reading, history
<1>. QED
  BY <1>1, <1>2, <1>3, <1>4, <1>5 DEF TypeOK, PcTypes, pushing, s3, S3TypeOK

LEMMA AddSteps ==
  ASSUME NEW q \in Requests, AddMember(q)
  PROVE  \/ Member(q) /\ UNCHANGED <<members, held, earlier>>
         \/ /\ ~Member(q)
            /\ members' = [members EXCEPT ![Body[q].chat] = @ \cup {Body[q].by}]
            /\ earlier' = [earlier EXCEPT ![Body[q].chat][Body[q].by] = stored]
            /\ held' = held \ {q}
BY DEF AddMember

(* Steps that change the members and their marks                          *)
LEMMA MemberTypes ==
  ASSUME TypeOK, NEW q \in Requests, UpdateMark(q) \/ Leave(q) \/ AddMember(q)
  PROVE  TypeOK'
<1>1. pc' \in [Requests -> PcTypes]
  BY DEF TypeOK, PcTypes, UpdateMark, Leave, AddMember, MarkDone, Goto, Steps, TxSteps,
    Answers
<1>2. /\ members \in [Chats -> SUBSET Users] /\ mark \in [Chats -> [Users -> Nat]]
      /\ earlier \in [Chats -> [Users -> SUBSET Requests]]
      /\ target[q] \in Nat /\ held \subseteq Requests /\ stored \subseteq Requests
      /\ Body[q].chat \in Chats /\ Body[q].by \in Users
  BY BodyType DEF TypeOK
<1>3. members' \in [Chats -> SUBSET Users]
  <2>1. CASE Leave(q)
    BY <1>2, <2>1 DEF Leave
  <2>2. CASE AddMember(q)
    <3>1. members[Body[q].chat] \cup {Body[q].by} \in SUBSET Users
      BY <1>2
    <3>2. CASE members' = members
      BY <1>2, <3>2
    <3>3. CASE members' = [members EXCEPT ![Body[q].chat] = @ \cup {Body[q].by}]
      BY <1>2, <3>1, <3>3
    <3>. QED
      BY <2>2, <3>2, <3>3, AddSteps
  <2>3. CASE UpdateMark(q)
    BY <1>2, <2>3 DEF UpdateMark
  <2>. QED
    BY <2>1, <2>2, <2>3
<1>4. mark' \in [Chats -> [Users -> Nat]]
  <2>1. CASE UpdateMark(q)
    BY <1>2, <2>1 DEF UpdateMark
  <2>2. CASE Leave(q)
    BY <1>2, <2>2 DEF Leave
  <2>3. CASE AddMember(q)
    BY <1>2, <2>3 DEF AddMember
  <2>. QED
    BY <2>1, <2>2, <2>3
<1>5. earlier' \in [Chats -> [Users -> SUBSET Requests]]
  <2>1. CASE AddMember(q)
    <3>1. stored \in SUBSET Requests
      BY <1>2
    <3>2. CASE earlier' = earlier
      BY <1>2, <3>2
    <3>3. CASE earlier' = [earlier EXCEPT ![Body[q].chat][Body[q].by] = stored]
      BY <1>2, <3>1, <3>3
    <3>. QED
      BY <2>1, <3>2, <3>3, AddSteps
  <2>2. CASE UpdateMark(q) \/ Leave(q)
    BY <1>2, <2>2 DEF UpdateMark, Leave, Quiet, history
  <2>. QED
    BY <2>1, <2>2
<1>6. held' \subseteq Requests /\ Cardinality(held') <= PoolSize
  <2>1. held' \subseteq held
    BY DEF UpdateMark, Leave, AddMember
  <2>. QED
    BY <1>2, <2>1, GiveBack DEF TypeOK
<1>7. UNCHANGED <<lastId, id, files, stored, reading, overtaken, crossed, pushing, faults,
                  crashes, scenario, s3>>
  BY DEF UpdateMark, Leave, AddMember, Quiet, history
<1>. QED
  BY <1>1, <1>3, <1>4, <1>5, <1>6, <1>7 DEF TypeOK, PcTypes, reading, pushing, s3, S3TypeOK

(* Steps that tell of a message                                            *)
LEMMA PushTypes ==
  ASSUME TypeOK, NEW q \in Requests, GetMembers(q) \/ Push(q)
  PROVE  TypeOK'
<1>1. pc' \in [Requests -> PcTypes]
  BY DEF TypeOK, PcTypes, GetMembers, Push, Goto, Steps, TxSteps, Answers
<1>2. /\ members[Body[q].chat] \subseteq Users /\ list \in [Requests -> SUBSET Users]
      /\ told \subseteq Requests \X Users
  BY BodyType DEF TypeOK
<1>3. list' \in [Requests -> SUBSET Users] /\ told' \subseteq Requests \X Users
  BY <1>2 DEF GetMembers, Push, pushing
<1>4. UNCHANGED <<rows, reading, history, faults, crashes, scenario, s3>>
  BY DEF GetMembers, Push
<1>. QED
  BY <1>1, <1>3, <1>4 DEF TypeOK, PcTypes, rows, reading, history, s3, S3TypeOK

(* Steps that read messages and marks                                      *)
LEMMA ReadTypes ==
  ASSUME TypeOK, NEW q \in Requests,
         Select(q) \/ OwnRows(q) \/ LastMessage(q) \/ CountUnread(q)
  PROVE  TypeOK'
<1>1. pc' \in [Requests -> PcTypes]
  BY DEF TypeOK, PcTypes, Select, OwnRows, LastMessage, CountUnread, Goto, Steps,
    TxSteps, Answers
<1>2. /\ found \in [Requests -> SUBSET Requests] /\ stored \subseteq Requests
      /\ base \in [Requests -> Nat] /\ unread \in [Requests -> Nat]
      /\ mark[Body[q].chat][Body[q].by] \in Nat
  BY BodyType DEF TypeOK
<1>3. InChat(q) \subseteq Requests /\ Before(q) \subseteq Requests
  BY <1>2 DEF InChat, Before
<1>4. found' \in [Requests -> SUBSET Requests]
  <2>1. \A page \in NewestPage(Before(q)) : page \subseteq Requests
    BY <1>3 DEF NewestPage
  <2>2. CASE Select(q)
    BY <1>2, <2>1, <2>2 DEF Select
  <2>3. CASE LastMessage(q)
    BY <1>2, <1>3, <2>3, NewestType DEF LastMessage
  <2>4. CASE OwnRows(q) \/ CountUnread(q)
    BY <1>2, <2>4 DEF OwnRows, CountUnread
  <2>. QED
    BY <2>2, <2>3, <2>4
<1>5. base' \in [Requests -> Nat]
  BY <1>2 DEF Select, OwnRows, LastMessage, CountUnread
<1>6. unread' \in [Requests -> Nat]
  <2>1. CASE CountUnread(q)
    <3>1. Cardinality({m \in InChat(q) : id[m] > base[q]}) \in Nat
      BY <1>3, RequestsFinite
    <3>. QED
      BY <1>2, <2>1, <3>1 DEF CountUnread
  <2>2. CASE Select(q) \/ OwnRows(q) \/ LastMessage(q)
    BY <1>2, <2>2 DEF Select, OwnRows, LastMessage
  <2>. QED
    BY <2>1, <2>2
<1>7. UNCHANGED <<rows, target, history, pushing, faults, crashes, scenario, s3>>
  BY DEF Select, OwnRows, LastMessage, CountUnread, Quiet
<1>. QED
  BY <1>1, <1>4, <1>5, <1>6, <1>7 DEF TypeOK, PcTypes, rows, history, pushing, s3, S3TypeOK

(* Faults, stops and starts                                                *)
LEMMA FailsTypes ==
  ASSUME TypeOK, NEW q \in Requests, Fails(q)
  PROVE  TypeOK'
<1>1. pc' \in [Requests -> PcTypes]
  BY DEF TypeOK, PcTypes, Fails, Goto, Steps, TxSteps, Answers
<1>. QED
  BY <1>1 DEF TypeOK, PcTypes, Fails, rows, reading, history, pushing, s3, S3TypeOK

LEMMA CrashTypes ==
  ASSUME TypeOK, Crash
  PROVE  TypeOK'
<1>1. S3TypeOK'
  BY StorageTypes DEF Crash, TypeOK
<1>2. pc' \in [Requests -> PcTypes]
  BY DEF TypeOK, PcTypes, Crash
<1>3. id' \in [Requests -> Nat] /\ files' \in [Requests -> Nat]
  BY DEF TypeOK, Crash
<1>4. held' \subseteq Requests /\ Cardinality(held') <= PoolSize
  BY FS_EmptySet, MessagesAssumption DEF Crash
<1>5. crashes' \in Nat
  BY DEF TypeOK, Crash
<1>6. UNCHANGED <<members, mark, lastId, stored, reading, history, pushing, faults,
                  scenario>>
  BY DEF Crash
<1>. QED
  BY <1>1, <1>2, <1>3, <1>4, <1>5, <1>6 DEF TypeOK, PcTypes, reading, history, pushing

LEMMA StartUpTypes ==
  ASSUME TypeOK, Storage
  PROVE  TypeOK'
<1>1. S3TypeOK'
  BY StorageTypes DEF Storage, TypeOK
<1>2. faults' \in Nat
  BY DEF Storage, TypeOK
<1>3. UNCHANGED <<rows, reading, history, pushing, pc, crashes, scenario>>
  BY DEF Storage, Plain
<1>. QED
  BY <1>1, <1>2, <1>3 DEF TypeOK, rows, reading, history, pushing

LEMMA StutterTypes ==
  ASSUME TypeOK, UNCHANGED vars
  PROVE  TypeOK'
BY DEF TypeOK, vars, rows, reading, history, pushing, s3, S3TypeOK

-----------------------------------------------------------------------------
(* Where a request stands                                                  *)

(* Exactly the transactions hold a connection                              *)
HeldInTx == held = {q \in Requests : pc[q] \in TxSteps}

(* A stored message is a sent one, past its commit                         *)
AfterCommit ==
  {"find_member", "update_mark", "sender", "members", "push", "201", "500", "lost"}

StoredSends ==
  \A q \in Requests :
    /\ q \in stored => Body[q].kind = "send" /\ pc[q] \in AfterCommit
    /\ Body[q].kind = "send" /\ pc[q] \in AfterCommit \ {"500", "lost"} => q \in stored
    /\ q \in stored /\ pc[q] \in {"500", "lost"} => faults > 0 \/ crashes > 0

LEMMA InitStands == Init => StepsOfKind /\ HeldInTx /\ StoredSends
<1>1. Init => \A q \in Requests : pc[q] \in {"new", "never"}
  BY DEF Init
<1>. QED
  BY <1>1 DEF Init, StepsOfKind, TxSteps, HeldInTx, StoredSends, AfterCommit

LEMMA FirstStepType ==
  ASSUME NEW q \in Requests
  PROVE  /\ FirstStep(q) \in {"access", "find_member", "own_rows", "select", "begin",
                              "delete"}
         /\ FirstStep(q) = "find_member" => Body[q].kind = "read"
         /\ FirstStep(q) = "begin" => Body[q].kind = "add"
BY BodyType DEF FirstStep, Request

LEMMA AccessSteps ==
  ASSUME StepsOfKind, NEW q \in Requests, CheckChatAccess(q)
  PROVE  \E next \in {"403", "select", "attachments", "200", "400", "begin"} : Goto(q, next)
<1>1. Body[q].kind \in {"send", "page", "links", "by_id"}
  BY DEF StepsOfKind, CheckChatAccess
<1>. QED
  BY <1>1 DEF CheckChatAccess

LEMMA BeginSteps ==
  ASSUME StepsOfKind, NEW q \in Requests, Begin(q)
  PROVE  \E next \in {"add", "name", "insert"} :
            Goto(q, next) /\ (Body[q].kind = IF next = "add" THEN "add" ELSE "send")
<1>1. Body[q].kind \in {"send", "add"}
  BY DEF StepsOfKind, Begin
<1>. QED
  BY <1>1 DEF Begin

LEMMA PushSteps ==
  ASSUME TypeOK, NEW q \in Requests, Push(q)
  PROVE  \E next \in {"push", "201"} : Goto(q, next)
BY DEF TypeOK, Push, Goto

LEMMA StepsOfKindStep ==
  ASSUME TypeOK, StepsOfKind, NEW q \in Requests, Receive(q) \/ Handle(q) \/ Fails(q)
  PROVE  StepsOfKind'
<1>1. pc \in [Requests -> PcTypes] /\ Body[q].kind \in
        {"send", "read", "page", "preview", "by_id", "links", "add", "leave"}
  BY BodyType DEF TypeOK, PcTypes, Request
<1>2. SUFFICES ASSUME NEW next, pc' = [pc EXCEPT ![q] = next],
        /\ next \in {"name", "insert", "attach", "commit", "sender", "members", "push"} =>
             Body[q].kind = "send"
        /\ next \in {"begin", "rollback"} => Body[q].kind \in {"send", "add"}
        /\ next = "add" => Body[q].kind = "add"
        /\ next = "access" => Body[q].kind \in {"send", "page", "links", "by_id"}
        /\ next \in {"find_member", "update_mark"} => Body[q].kind \in {"send", "read"}
        /\ next = "select" => Body[q].kind \in {"page", "by_id"}
        /\ next = "attachments" => Body[q].kind \in {"page", "by_id", "preview"}
        /\ next \in {"own_rows", "last", "count"} => Body[q].kind = "preview"
        /\ next = "delete" => Body[q].kind = "leave"
      PROVE StepsOfKind'
  <2>1. CASE Receive(q)
    BY <1>1, <1>2, <2>1 DEF Receive, Goto, FirstStep
  <2>2. CASE CheckChatAccess(q)
    BY <1>1, <1>2, <2>2 DEF CheckChatAccess, Goto, TxSteps, StepsOfKind
  <2>7. CASE Begin(q)
    BY <1>2, <2>7, BeginSteps DEF Goto
  <2>8. CASE Push(q)
    <3>1. Body[q].kind = "send"
      BY <2>8 DEF Push, StepsOfKind
    <3>. QED
      BY <1>2, <2>8, <3>1, PushSteps DEF Goto
  <2>3. CASE ForwardedUser(q) \/ InsertMessage(q) \/ CreateAttachment(q) \/ AddMember(q)
    BY <1>1, <1>2, <2>3 DEF ForwardedUser, InsertMessage, CreateAttachment, AddMember,
      AfterInsert, Goto, StepsOfKind
  <2>4. CASE Commit(q) \/ Rollback(q) \/ FindMember(q) \/ UpdateMark(q)
    BY <1>1, <1>2, <2>4 DEF Commit, Rollback, FindMember, UpdateMark, MarkDone, Goto,
      TxSteps, StepsOfKind
  <2>5. CASE SenderInfo(q) \/ GetMembers(q) \/ Select(q) \/ Attachments(q)
    BY <1>1, <1>2, <2>5 DEF SenderInfo, GetMembers, Select, Attachments, Goto, StepsOfKind
  <2>6. CASE OwnRows(q) \/ LastMessage(q) \/ CountUnread(q) \/ Leave(q) \/ Fails(q)
    BY <1>1, <1>2, <2>6 DEF OwnRows, LastMessage, CountUnread, Leave, Fails, Goto,
      TxSteps, StepsOfKind
  <2>. QED
    BY <2>1, <2>2, <2>3, <2>4, <2>5, <2>6, <2>7, <2>8 DEF Handle
<1>3. \A r \in Requests : pc'[r] = IF r = q THEN next ELSE pc[r]
  BY <1>1, <1>2
<1>. QED
  BY <1>2, <1>3 DEF StepsOfKind

LEMMA HeldInTxStep ==
  ASSUME TypeOK, StepsOfKind, HeldInTx, NEW q \in Requests,
         Receive(q) \/ Handle(q) \/ Fails(q)
  PROVE  HeldInTx'
<1>1. pc \in [Requests -> PcTypes]
  BY DEF TypeOK, PcTypes
<1>2. SUFFICES ASSUME NEW next, pc' = [pc EXCEPT ![q] = next],
                      held' = IF next \in TxSteps THEN held \cup {q} ELSE held \ {q}
               PROVE  HeldInTx'
  <2>1. q \in held <=> pc[q] \in TxSteps
    BY DEF HeldInTx
  <2>2. CASE Receive(q)
    BY <1>2, <2>1, <2>2, FirstStepType DEF Receive, Goto, rows, TxSteps
  <2>7. CASE CheckChatAccess(q)
    BY <1>2, <2>1, <2>7, AccessSteps DEF CheckChatAccess, Goto, rows, TxSteps
  <2>8. CASE Begin(q)
    BY <1>2, <2>1, <2>8, BeginSteps DEF Begin, Goto, TxSteps
  <2>9. CASE Push(q)
    BY <1>2, <2>1, <2>9, PushSteps DEF Push, Goto, rows, TxSteps
  <2>3. CASE ForwardedUser(q) \/ InsertMessage(q) \/ CreateAttachment(q) \/ AddMember(q)
    BY <1>2, <2>1, <2>3 DEF ForwardedUser, InsertMessage, CreateAttachment, AddMember,
      AfterInsert, Goto, rows, TxSteps
  <2>4. CASE Commit(q) \/ Rollback(q) \/ FindMember(q) \/ UpdateMark(q)
    BY <1>2, <2>1, <2>4 DEF Commit, Rollback, FindMember, UpdateMark, MarkDone, Goto,
      rows, TxSteps
  <2>5. CASE SenderInfo(q) \/ GetMembers(q) \/ Select(q) \/ Attachments(q)
    BY <1>2, <2>1, <2>5 DEF SenderInfo, GetMembers, Select, Attachments, Goto, rows, TxSteps
  <2>6. CASE OwnRows(q) \/ LastMessage(q) \/ CountUnread(q) \/ Leave(q) \/ Fails(q)
    BY <1>2, <2>1, <2>6 DEF OwnRows, LastMessage, CountUnread, Leave, Fails, Goto,
      rows, TxSteps
  <2>. QED
    BY <2>2, <2>3, <2>4, <2>5, <2>6, <2>7, <2>8, <2>9 DEF Handle
<1>. QED
  BY <1>1, <1>2 DEF HeldInTx

LEMMA StoredSendsStep ==
  ASSUME TypeOK, StepsOfKind, HeldInTx, StoredSends, NEW q \in Requests,
         Receive(q) \/ Handle(q) \/ Fails(q)
  PROVE  StoredSends'
<1>1. pc \in [Requests -> PcTypes] /\ faults \in Nat /\ crashes \in Nat
  BY DEF TypeOK, PcTypes
<1>2. SUFFICES ASSUME NEW next, pc' = [pc EXCEPT ![q] = next],
        (faults > 0 => faults' > 0) /\ crashes' = crashes,
        stored' \in {stored, stored \cup {q}},
        q \in stored' => Body[q].kind = "send" /\ next \in AfterCommit,
        Body[q].kind = "send" /\ next \in AfterCommit \ {"500", "lost"} => q \in stored',
        q \in stored' /\ next \in {"500", "lost"} => faults' > 0
      PROVE StoredSends'
  <2>1. /\ q \in stored => Body[q].kind = "send" /\ pc[q] \in AfterCommit
        /\ Body[q].kind = "send" /\ pc[q] \in AfterCommit \ {"500", "lost"} => q \in stored
    BY DEF StoredSends
  <2>2. CASE Receive(q)
    <3>1. \E next \in {"access", "find_member", "own_rows", "select", "begin", "delete",
                      "400"} :
             /\ Goto(q, next)
             /\ next = "find_member" => Body[q].kind = "read"
      BY <2>2, FirstStepType DEF Receive
    <3>2. UNCHANGED <<stored, faults, crashes>> /\ q \notin stored
      BY <2>1, <2>2 DEF Receive, rows, AfterCommit
    <3>. QED
      BY <1>2, <3>1, <3>2 DEF Goto, AfterCommit
  <2>3. CASE CheckChatAccess(q)
    <3>1. UNCHANGED <<stored, faults, crashes>> /\ q \notin stored
      BY <2>1, <2>3 DEF CheckChatAccess, Quiet, rows, AfterCommit
    <3>. QED
      BY <1>2, <2>3, <3>1, AccessSteps DEF Goto, AfterCommit
  <2>10. CASE Begin(q)
    <3>1. UNCHANGED <<stored, faults, crashes>> /\ q \notin stored
      BY <2>1, <2>10 DEF Begin, Quiet, AfterCommit
    <3>. QED
      BY <1>2, <2>10, <3>1, BeginSteps DEF Goto, AfterCommit
  <2>11. CASE Push(q)
    <3>1. UNCHANGED <<stored, faults, crashes>> /\ q \in stored /\ Body[q].kind = "send"
      BY <2>1, <2>11 DEF Push, rows, AfterCommit, StepsOfKind
    <3>. QED
      BY <1>2, <2>11, <3>1, PushSteps DEF Goto, AfterCommit
  <2>4. CASE ForwardedUser(q) \/ InsertMessage(q) \/ CreateAttachment(q) \/ AddMember(q)
    BY <1>1, <1>2, <2>1, <2>4 DEF ForwardedUser, InsertMessage, CreateAttachment, AddMember,
      AfterInsert, Quiet, Goto, rows, AfterCommit
  <2>5. CASE Commit(q)
    <3>1. Body[q].kind = "send"
      BY <2>5 DEF StepsOfKind, Commit, TxSteps
    <3>. QED
      BY <1>1, <1>2, <2>5, <3>1 DEF Commit, Goto, AfterCommit
  <2>6. CASE Rollback(q) \/ FindMember(q) \/ UpdateMark(q)
    BY <1>1, <1>2, <2>1, <2>6 DEF Rollback, FindMember, UpdateMark, MarkDone, Quiet,
      Goto, rows, AfterCommit
  <2>7. CASE SenderInfo(q) \/ GetMembers(q) \/ Select(q) \/ Attachments(q)
    BY <1>1, <1>2, <2>1, <2>7 DEF SenderInfo, GetMembers, Select, Attachments, Quiet, Goto,
      rows, AfterCommit
  <2>8. CASE OwnRows(q) \/ LastMessage(q) \/ CountUnread(q) \/ Leave(q)
    BY <1>1, <1>2, <2>1, <2>8 DEF OwnRows, LastMessage, CountUnread, Leave, Quiet, Goto,
      rows, AfterCommit
  <2>9. CASE Fails(q)
    <3>1. faults' = faults + 1 /\ crashes' = crashes /\ stored' = stored
      BY <2>9 DEF Fails, rows
    <3>2. \/ pc[q] \in TxSteps /\ Goto(q, "rollback")
          \/ Goto(q, "500")
      BY <2>9 DEF Fails
    <3>3. faults' > 0
      BY <1>1, <3>1
    <3>. QED
      BY <1>2, <2>1, <3>1, <3>2, <3>3 DEF Goto, AfterCommit, TxSteps
  <2>. QED
    BY <2>2, <2>3, <2>4, <2>5, <2>6, <2>7, <2>8, <2>9, <2>10, <2>11 DEF Handle
<1>3. /\ \A r \in Requests : pc'[r] = IF r = q THEN next ELSE pc[r]
      /\ (faults > 0 => faults' > 0) /\ crashes' = crashes
  BY <1>1, <1>2
<1>4. \A r \in Requests : r # q => (r \in stored' <=> r \in stored)
  BY <1>2
<1>5. ASSUME NEW r \in Requests
      PROVE  /\ r \in stored' => Body[r].kind = "send" /\ pc'[r] \in AfterCommit
             /\ Body[r].kind = "send" /\ pc'[r] \in AfterCommit \ {"500", "lost"} => r \in stored'
             /\ r \in stored' /\ pc'[r] \in {"500", "lost"} => faults' > 0 \/ crashes' > 0
  <2>1. CASE r = q
    BY <1>1, <1>2, <1>3, <2>1
  <2>2. CASE r # q
    BY <1>3, <1>4, <2>2 DEF StoredSends
  <2>. QED
    BY <2>1, <2>2
<1>. QED
  BY <1>5 DEF StoredSends

(* A stop and a start                                                      *)
LEMMA CrashStands ==
  ASSUME TypeOK, StepsOfKind, HeldInTx, StoredSends, Crash
  PROVE  StepsOfKind' /\ HeldInTx' /\ StoredSends'
<1>1. \A q \in Requests : pc'[q] = IF pc[q] \in Steps THEN "lost" ELSE pc[q]
  BY DEF Crash
<1>2. crashes' > 0 /\ stored' = stored /\ held' = {}
  BY DEF Crash, TypeOK
<1>3. StepsOfKind'
  BY <1>1 DEF StepsOfKind, Steps, TxSteps
<1>4. HeldInTx'
  BY <1>1, <1>2 DEF HeldInTx, Steps, TxSteps
<1>5. StoredSends'
  BY <1>1, <1>2 DEF StoredSends, AfterCommit, Steps, TxSteps
<1>. QED
  BY <1>3, <1>4, <1>5

LEMMA PlainStands ==
  ASSUME TypeOK, StepsOfKind, HeldInTx, StoredSends, Storage \/ UNCHANGED vars
  PROVE  StepsOfKind' /\ HeldInTx' /\ StoredSends'
<1>1. UNCHANGED <<pc, held, stored, crashes>>
  BY DEF Storage, Plain, rows, vars
<1>2. faults > 0 => faults' > 0
  BY DEF Storage, Plain, TypeOK, vars
<1>3. StepsOfKind' /\ HeldInTx'
  BY <1>1 DEF StepsOfKind, HeldInTx
<1>4. StoredSends'
  BY <1>1, <1>2 DEF StoredSends
<1>. QED
  BY <1>3, <1>4

-----------------------------------------------------------------------------
(* The steps of a request that are not those of its transaction            *)
Outside(q) ==
  \/ Receive(q) \/ CheckChatAccess(q) \/ FindMember(q) \/ UpdateMark(q)
  \/ SenderInfo(q) \/ GetMembers(q) \/ Push(q) \/ Select(q) \/ Attachments(q)
  \/ OwnRows(q) \/ LastMessage(q) \/ CountUnread(q) \/ Leave(q)

Inside(q) ==
  \/ Begin(q) \/ ForwardedUser(q) \/ InsertMessage(q) \/ CreateAttachment(q)
  \/ Commit(q) \/ Rollback(q) \/ AddMember(q) \/ Fails(q)

LEMMA EitherSide ==
  ASSUME NEW q, Receive(q) \/ Handle(q) \/ Fails(q)
  PROVE  Outside(q) \/ Inside(q)
BY DEF Handle, Outside, Inside

LEMMA OutsideSteps ==
  ASSUME TypeOK, StepsOfKind, NEW q \in Requests, Outside(q)
  PROVE  /\ \E next \in PcTypes \ TxSteps : pc' = [pc EXCEPT ![q] = next]
         /\ pc[q] \notin TxSteps
         /\ UNCHANGED <<stored, held, files, id, lastId>>
<1>1. CASE Receive(q)
  BY <1>1, FirstStepType DEF Receive, Goto, PcTypes, Steps, TxSteps, Answers, rows
<1>2. CASE CheckChatAccess(q)
  BY <1>2, AccessSteps DEF CheckChatAccess, Goto, PcTypes, Steps, TxSteps, Answers, rows
<1>3. CASE FindMember(q) \/ UpdateMark(q) \/ SenderInfo(q) \/ GetMembers(q)
  BY <1>3 DEF FindMember, UpdateMark, MarkDone, SenderInfo, GetMembers, Goto, PcTypes,
    Steps, TxSteps, Answers, rows
<1>6. CASE Push(q)
  BY <1>6, PushSteps DEF Push, Goto, PcTypes, Steps, TxSteps, Answers, rows
<1>4. CASE Select(q) \/ Attachments(q) \/ OwnRows(q)
  BY <1>4 DEF Select, Attachments, OwnRows, Goto, PcTypes, Steps, TxSteps, Answers, rows
<1>5. CASE LastMessage(q) \/ CountUnread(q) \/ Leave(q)
  BY <1>5 DEF LastMessage, CountUnread, Leave, Goto, PcTypes, Steps, TxSteps, Answers, rows
<1>. QED
  BY <1>1, <1>2, <1>3, <1>4, <1>5, <1>6 DEF Outside

(* What a step of one request leaves alone of the others, and of messages  *)
(* that are stored                                                         *)
LEMMA OthersRows ==
  ASSUME TypeOK, StepsOfKind, NEW q \in Requests, Receive(q) \/ Handle(q) \/ Fails(q),
         NEW r \in Requests, r # q
  PROVE  /\ pc'[r] = pc[r] /\ files'[r] = files[r] /\ id'[r] = id[r]
         /\ (r \in stored' <=> r \in stored) /\ (r \in held' <=> r \in held)
<1>1. pc \in [Requests -> PcTypes] /\ files \in [Requests -> Nat] /\ id \in [Requests -> Nat]
  BY DEF TypeOK, PcTypes
<1>2. CASE Outside(q)
  BY <1>1, <1>2, OutsideSteps
<1>3. CASE Begin(q) \/ ForwardedUser(q) \/ InsertMessage(q)
  BY <1>1, <1>3 DEF Begin, ForwardedUser, InsertMessage, Goto, rows
<1>4. CASE CreateAttachment(q) \/ Commit(q) \/ Rollback(q) \/ Fails(q)
  BY <1>1, <1>4 DEF CreateAttachment, Commit, Rollback, Fails, Goto, rows
<1>5. CASE AddMember(q)
  BY <1>1, <1>5 DEF AddMember, Goto
<1>. QED
  BY <1>2, <1>3, <1>4, <1>5, EitherSide DEF Inside

LEMMA StoredIds ==
  ASSUME TypeOK, StepsOfKind, StoredSends, NEW q \in Requests,
         Receive(q) \/ Handle(q) \/ Fails(q)
  PROVE  stored \subseteq stored' /\ \A m \in stored : id'[m] = id[m]
<1>1. q \in stored => pc[q] \in AfterCommit
  BY DEF StoredSends
<1>2. stored \subseteq Requests /\ id \in [Requests -> Nat]
  BY DEF TypeOK
<1>3. CASE Outside(q)
  BY <1>2, <1>3, OutsideSteps
<1>4. CASE Begin(q) \/ ForwardedUser(q) \/ InsertMessage(q)
  BY <1>1, <1>2, <1>4 DEF Begin, ForwardedUser, InsertMessage, rows, AfterCommit
<1>5. CASE CreateAttachment(q) \/ Commit(q) \/ Rollback(q) \/ Fails(q)
  BY <1>1, <1>2, <1>5 DEF CreateAttachment, Commit, Rollback, Fails, rows, AfterCommit
<1>6. CASE AddMember(q)
  BY <1>2, <1>6 DEF AddMember
<1>. QED
  BY <1>3, <1>4, <1>5, <1>6, EitherSide DEF Inside

-----------------------------------------------------------------------------
(* Attachments                                                             *)

(* The rows of attachments that the transaction of q has written so far    *)
FilesOf(q) ==
  /\ q \notin held => files[q] = IF q \in stored THEN Len(Body[q].tokens) ELSE 0
  /\ pc[q] \in {"name", "insert", "add"} => files[q] = 0
  /\ pc[q] = "attach" => files[q] < Len(Body[q].tokens)
  /\ pc[q] = "commit" => files[q] = Len(Body[q].tokens)

FilesCounted == \A q \in Requests : FilesOf(q)

LEMMA FilesCountedStep ==
  ASSUME TypeOK, StepsOfKind, HeldInTx, StoredSends, FilesCounted,
         NEW q \in Requests, Receive(q) \/ Handle(q) \/ Fails(q)
  PROVE  FilesCounted'
<1>1. ASSUME NEW r \in Requests, r # q PROVE FilesOf(r)'
  BY <1>1, OthersRows DEF FilesCounted, FilesOf
<1>2. FilesOf(q)'
  <2>1. /\ FilesOf(q) /\ Len(Body[q].tokens) \in Nat
        /\ pc \in [Requests -> PcTypes] /\ files \in [Requests -> Nat]
        /\ (q \in held <=> pc[q] \in TxSteps)
        /\ q \in stored => pc[q] \in AfterCommit
    BY BodyType DEF FilesCounted, TypeOK, PcTypes, HeldInTx, StoredSends
  <2>2. CASE Outside(q)
    <3>1. pc'[q] \notin TxSteps /\ UNCHANGED <<stored, held, files>>
      BY <2>1, <2>2, OutsideSteps
    <3>. QED
      BY <2>1, <3>1 DEF FilesOf, TxSteps
  <2>3. CASE Begin(q)
    BY <2>1, <2>3, BeginSteps DEF Begin, Goto, FilesOf, AfterCommit, TxSteps
  <2>4. CASE ForwardedUser(q)
    BY <2>1, <2>4 DEF ForwardedUser, Goto, rows, FilesOf, TxSteps
  <2>5. CASE InsertMessage(q)
    BY <2>1, <2>5 DEF InsertMessage, AfterInsert, Goto, FilesOf, TxSteps
  <2>6. CASE CreateAttachment(q)
    BY <2>1, <2>6 DEF CreateAttachment, AfterInsert, Goto, FilesOf, TxSteps
  <2>7. CASE Commit(q)
    BY <2>1, <2>7 DEF Commit, Goto, FilesOf, TxSteps
  <2>8. CASE Rollback(q)
    BY <2>1, <2>8 DEF Rollback, Goto, FilesOf, AfterCommit, TxSteps
  <2>9. CASE Fails(q)
    BY <2>1, <2>9 DEF Fails, Goto, rows, FilesOf, TxSteps
  <2>10. CASE AddMember(q)
    BY <2>1, <2>10 DEF AddMember, Goto, FilesOf, AfterCommit, TxSteps
  <2>. QED
    BY <2>2, <2>3, <2>4, <2>5, <2>6, <2>7, <2>8, <2>9, <2>10, EitherSide DEF Inside
<1>. QED
  BY <1>1, <1>2 DEF FilesCounted

(* The links behind the attachments of a message were signed for files of  *)
(* kinds that fit its type.                                                *)
Signed(q) ==
  \A n \in DOMAIN Body[q].tokens :
    LET t == Body[q].tokens[n] IN Body[t].type = Body[q].type /\ FilesFit(t)

(* A send whose tokens are checked *)
Checked(q) == Body[q].kind = "send" /\ pc[q] \in TxSteps \cup {"begin"}

LinksFit ==
  \A q \in Requests :
    /\ Body[q].kind = "links" /\ pc[q] = "200" => FilesFit(q)
    /\ Checked(q) \/ q \in stored => Signed(q)

LEMMA AccessOfSend ==
  ASSUME StepsOfKind, LinksFit, NEW q \in Requests, CheckChatAccess(q)
  PROVE  \E next \in {"403", "select", "attachments", "200", "400", "begin"} :
           /\ Goto(q, next)
           /\ next = "begin" => Signed(q)
           /\ next = "200" => Body[q].kind = "links" /\ FilesFit(q)
<1>1. Body[q].kind \in {"send", "page", "links", "by_id"}
  BY DEF StepsOfKind, CheckChatAccess
<1>2. ASSUME TokensValid(q) PROVE Signed(q)
  <2>1. ASSUME NEW n \in DOMAIN Body[q].tokens
        PROVE  Body[Body[q].tokens[n]].type = Body[q].type /\ FilesFit(Body[q].tokens[n])
    BY <1>2, <2>1, BodyType DEF TokensValid, LinksFit
  <2>. QED
    BY <2>1 DEF Signed
<1>. QED
  BY <1>1, <1>2 DEF CheckChatAccess

LEMMA LinksFitStep ==
  ASSUME TypeOK, StepsOfKind, StoredSends, LinksFit, NEW q \in Requests,
         Receive(q) \/ Handle(q) \/ Fails(q)
  PROVE  LinksFit'
<1> DEFINE Fit(r) == /\ Body[r].kind = "links" /\ pc[r] = "200" => FilesFit(r)
                     /\ Checked(r) \/ r \in stored => Signed(r)
<1>1. ASSUME NEW r \in Requests, r # q PROVE Fit(r)'
  <2>1. pc'[r] = pc[r] /\ (r \in stored' <=> r \in stored)
    BY <1>1, OthersRows
  <2>. QED
    BY <2>1 DEF LinksFit, FilesFit, Signed, Checked
<1>2. /\ Checked(q) \/ q \in stored => Signed(q)
      /\ pc \in [Requests -> PcTypes] /\ stored \subseteq Requests
  BY DEF LinksFit, TypeOK, PcTypes
<1>3. Signed(q)' <=> Signed(q)
  BY DEF Signed, FilesFit
<1>4. FilesFit(q)' <=> FilesFit(q)
  BY DEF FilesFit
<1>. HIDE DEF Fit
<1>5. SUFFICES ASSUME NEW next, pc' = [pc EXCEPT ![q] = next],
         next = "200" /\ Body[q].kind = "links" => FilesFit(q),
         (Body[q].kind = "send" /\ next \in TxSteps \cup {"begin"}) \/ q \in stored' =>
           Signed(q)
       PROVE LinksFit'
  <2>1. CASE Receive(q)
    <3>1. UNCHANGED stored
      BY <2>1 DEF Receive, rows
    <3>2. \E next \in {"access", "find_member", "own_rows", "select", "begin", "delete",
                      "400"} :
             Goto(q, next) /\ (next = "begin" => Body[q].kind = "add")
      BY <2>1, FirstStepType DEF Receive
    <3>. QED
      BY <1>2, <1>5, <3>1, <3>2 DEF Goto, Checked, TxSteps
  <2>2. CASE CheckChatAccess(q)
    <3>1. UNCHANGED stored
      BY <2>2 DEF CheckChatAccess, rows
    <3>. QED
      BY <1>2, <1>5, <2>2, <3>1, AccessOfSend DEF Goto, Checked, TxSteps
  <2>3. CASE Begin(q) \/ ForwardedUser(q) \/ InsertMessage(q) \/ CreateAttachment(q)
    <3>1. (Body[q].kind = "send" => Signed(q)) /\ UNCHANGED stored
      BY <1>2, <2>3 DEF Checked, Begin, ForwardedUser, InsertMessage, CreateAttachment, TxSteps, rows
    <3>2. q \in stored => Body[q].kind = "send"
      BY DEF StoredSends
    <3>3. CASE Begin(q)
      BY <1>5, <3>1, <3>2, <3>3, BeginSteps DEF Goto
    <3>4. CASE ForwardedUser(q) \/ InsertMessage(q) \/ CreateAttachment(q)
      <4>1. \E next \in TxSteps : Goto(q, next)
        BY <3>4 DEF ForwardedUser, InsertMessage, CreateAttachment, AfterInsert, TxSteps
      <4>. QED
        BY <1>5, <3>1, <3>2, <4>1 DEF Goto, Checked, TxSteps
    <3>. QED
      BY <2>3, <3>3, <3>4
  <2>8. CASE AddMember(q)
    <3>1. UNCHANGED stored /\ Body[q].kind = "add"
      BY <2>8 DEF AddMember, StepsOfKind
    <3>2. Goto(q, "rollback") \/ Goto(q, "200")
      BY <2>8 DEF AddMember
    <3>. QED
      BY <1>2, <1>5, <3>1, <3>2 DEF Goto
  <2>9. CASE Push(q)
    <3>1. UNCHANGED stored /\ Body[q].kind = "send"
      BY <2>9 DEF Push, rows, StepsOfKind
    <3>. QED
      BY <1>2, <1>5, <2>9, <3>1, PushSteps DEF Goto, Checked, TxSteps
  <2>4. CASE Commit(q) \/ Rollback(q)
    <3>1. /\ Body[q].kind = "send" => Signed(q)
          /\ q \in stored' => Body[q].kind = "send"
      BY <1>2, <2>4 DEF Checked, Commit, Rollback, TxSteps, StepsOfKind, StoredSends
    <3>2. Goto(q, "find_member") \/ Goto(q, "500")
      BY <2>4 DEF Commit, Rollback
    <3>. QED
      BY <1>5, <3>1, <3>2 DEF Goto
  <2>5. CASE FindMember(q) \/ UpdateMark(q) \/ SenderInfo(q) \/ GetMembers(q)
    <3>1. UNCHANGED stored /\ Body[q].kind \in {"send", "read"}
      BY <2>5 DEF FindMember, UpdateMark, SenderInfo, GetMembers, rows, StepsOfKind
    <3>2. \E next \in {"update_mark", "sender", "200", "500", "members", "push"} :
            Goto(q, next)
      BY <2>5 DEF FindMember, UpdateMark, SenderInfo, GetMembers, MarkDone
    <3>. QED
      BY <1>2, <1>5, <3>1, <3>2 DEF Goto, Checked, TxSteps
  <2>6. CASE Select(q) \/ Attachments(q) \/ OwnRows(q) \/ LastMessage(q)
             \/ CountUnread(q) \/ Leave(q)
    <3>1. UNCHANGED stored /\ Body[q].kind \in {"page", "by_id", "preview", "leave"}
      BY <2>6 DEF Select, Attachments, OwnRows, LastMessage, CountUnread, Leave, rows,
        StepsOfKind
    <3>2. \E next \in {"attachments", "access", "404", "200", "last", "count"} : Goto(q, next)
      BY <2>6 DEF Select, Attachments, OwnRows, LastMessage, CountUnread, Leave
    <3>. QED
      BY <1>2, <1>5, <3>1, <3>2 DEF Goto, Checked, TxSteps
  <2>7. CASE Fails(q)
    <3>1. UNCHANGED stored
      BY <2>7 DEF Fails, rows
    <3>2. \/ pc[q] \in TxSteps /\ Goto(q, "rollback")
          \/ Goto(q, "500")
      BY <2>7 DEF Fails
    <3>. QED
      BY <1>2, <1>5, <3>1, <3>2 DEF Goto, Checked, TxSteps
  <2>. QED
    BY <2>1, <2>2, <2>3, <2>4, <2>5, <2>6, <2>7, <2>8, <2>9 DEF Handle
<1>6. Fit(q)'
  <2>1. pc'[q] = next
    BY <1>2, <1>5
  <2>. QED
    <3>1. Body[q].kind = "links" /\ pc'[q] = "200" => FilesFit(q)'
      BY <1>4, <1>5, <2>1
    <3>2. Checked(q)' \/ q \in stored' => Signed(q)'
      BY <1>3, <1>5, <2>1 DEF Checked
    <3>. QED
      BY <3>1, <3>2 DEF Fit
<1>. QED
  BY <1>1, <1>6 DEF LinksFit, Fit

-----------------------------------------------------------------------------
(* Notifications                                                           *)

(* Of a message that is being notified, or has been, every member is told  *)
(* or waits for it on the list, or was added after it was stored.          *)
AllTold(q) ==
  Body[q].kind = "send" /\ pc[q] \in {"push", "201"} =>
    \A u \in members[Body[q].chat] \ {Body[q].by} :
      \/ pc[q] = "push" /\ u \in list[q]
      \/ <<q, u>> \in told
      \/ q \in earlier[Body[q].chat][u]

ToldInv ==
  /\ \A pair \in told : pair[1] \in stored
  /\ \A q \in Requests : AllTold(q)

(* The steps that neither add members nor tell of messages                 *)
LEMMA SilentSteps ==
  ASSUME TypeOK, StepsOfKind, NEW q \in Requests, Receive(q) \/ Handle(q) \/ Fails(q),
         ~AddMember(q), ~GetMembers(q), ~Push(q)
  PROVE  /\ \A c \in Chats : members'[c] \subseteq members[c]
         /\ UNCHANGED <<list, told, earlier>>
         /\ pc'[q] \notin {"push", "201"}
<1>1. members \in [Chats -> SUBSET Users] /\ pc \in [Requests -> PcTypes]
  BY DEF TypeOK, PcTypes
<1>2. \A c \in Chats : members'[c] \subseteq members[c]
  <2>1. CASE Leave(q)
    BY <1>1, <2>1, BodyType DEF Leave
  <2>2. CASE ~Leave(q)
    <3>1. UNCHANGED members
      BY <2>2, EitherSide DEF Outside, Inside, Receive, CheckChatAccess, FindMember,
        UpdateMark, SenderInfo, Select, Attachments, OwnRows, LastMessage, CountUnread,
        Begin, ForwardedUser, InsertMessage, CreateAttachment, Commit, Rollback, Fails,
        rows
    <3>. QED
      BY <3>1
  <2>. QED
    BY <2>1, <2>2
<1>3. UNCHANGED <<list, told, earlier>>
  BY EitherSide DEF Outside, Inside, Receive, CheckChatAccess, FindMember, UpdateMark,
    SenderInfo, Select, Attachments, OwnRows, LastMessage, CountUnread, Leave, Begin,
    ForwardedUser, InsertMessage, CreateAttachment, Commit, Rollback, Fails, Quiet,
    pushing, history
<1>4. pc'[q] \notin {"push", "201"}
  <2>1. CASE Receive(q)
    <3>1. \E next \in {"access", "find_member", "own_rows", "select", "begin", "delete",
                      "400"} : Goto(q, next)
      BY <2>1, FirstStepType DEF Receive
    <3>. QED
      BY <1>1, <3>1 DEF Goto
  <2>2. CASE CheckChatAccess(q) \/ Begin(q)
    BY <1>1, <2>2, AccessSteps, BeginSteps DEF Goto
  <2>3. CASE ForwardedUser(q) \/ InsertMessage(q) \/ CreateAttachment(q) \/ Fails(q)
    BY <1>1, <2>3 DEF ForwardedUser, InsertMessage, CreateAttachment, AfterInsert, Fails,
      Goto
  <2>4. CASE Commit(q) \/ Rollback(q) \/ FindMember(q) \/ UpdateMark(q) \/ SenderInfo(q)
    BY <1>1, <2>4 DEF Commit, Rollback, FindMember, UpdateMark, SenderInfo, MarkDone, Goto
  <2>5. CASE Select(q) \/ Attachments(q) \/ OwnRows(q) \/ LastMessage(q)
             \/ CountUnread(q) \/ Leave(q)
    BY <1>1, <2>5 DEF Select, Attachments, OwnRows, LastMessage, CountUnread, Leave, Goto
  <2>. QED
    BY <2>1, <2>2, <2>3, <2>4, <2>5 DEF Handle
<1>. QED
  BY <1>2, <1>3, <1>4

LEMMA ToldStep ==
  ASSUME TypeOK, StepsOfKind, StoredSends, ToldInv, NEW q \in Requests,
         Receive(q) \/ Handle(q) \/ Fails(q)
  PROVE  ToldInv'
<1>1. /\ told \subseteq Requests \X Users /\ members \in [Chats -> SUBSET Users]
      /\ pc \in [Requests -> PcTypes] /\ list \in [Requests -> SUBSET Users]
      /\ earlier \in [Chats -> [Users -> SUBSET Requests]]
      /\ Body[q].by \in Users /\ Body[q].chat \in Chats
  BY BodyType DEF TypeOK, PcTypes
<1>2. stored \subseteq stored' /\ \A pair \in told : pair[1] \in stored
  BY StoredIds DEF ToldInv
<1>3. ASSUME NEW r \in Requests, r # q
      PROVE  pc'[r] = pc[r]
  BY <1>3, OthersRows
<1>4. ASSUME NEW r \in Requests
      PROVE  AllTold(r) /\ Body[r].chat \in Chats
  BY BodyType DEF ToldInv
<1>5. CASE Push(q)
  <2>1. UNCHANGED <<members, earlier>> /\ q \in stored /\ pc[q] = "push"
    BY <1>5 DEF Push, rows, history, StoredSends, StepsOfKind, AfterCommit
  <2>2. ASSUME NEW pair \in told' PROVE pair[1] \in stored'
    BY <1>2, <1>5, <2>1, <2>2 DEF Push, pushing
  <2>3. ASSUME NEW r \in Requests, r # q PROVE AllTold(r)'
    <3>1. told \subseteq told' /\ list'[r] = list[r] /\ pc'[r] = pc[r]
      BY <1>1, <1>3, <1>5, <2>3 DEF Push, pushing
    <3>. QED
      BY <1>4, <2>1, <3>1 DEF AllTold
  <2>4. AllTold(q)'
    <3>1. CASE list[q] = {}
      BY <1>4, <1>5, <2>1, <3>1 DEF Push, AllTold, pushing
    <3>2. CASE list[q] # {}
      <4>1. PICK u \in list[q] : /\ list' = [list EXCEPT ![q] = @ \ {u}]
                                 /\ told' = told \cup {<<q, u>>} /\ pc' = pc
        BY <1>5, <3>2 DEF Push
      <4>. QED
        BY <1>1, <1>4, <2>1, <4>1 DEF AllTold
    <3>. QED
      BY <3>1, <3>2
  <2>. QED
    BY <2>2, <2>3, <2>4 DEF ToldInv
<1>6. CASE GetMembers(q)
  <2>1. UNCHANGED <<members, earlier, told>>
    BY <1>6 DEF GetMembers, rows, history
  <2>2. ASSUME NEW r \in Requests PROVE AllTold(r)'
    <3>1. CASE r = q
      BY <1>1, <1>6, <2>1, <3>1 DEF GetMembers, Goto, AllTold
    <3>2. CASE r # q
      <4>1. list'[r] = list[r] /\ pc'[r] = pc[r]
        BY <1>1, <1>3, <1>6, <3>2 DEF GetMembers
      <4>. QED
        BY <1>4, <2>1, <4>1 DEF AllTold
    <3>. QED
      BY <3>1, <3>2
  <2>. QED
    BY <1>2, <2>1, <2>2 DEF ToldInv
<1>7. CASE AddMember(q)
  <2>1. UNCHANGED <<told, list, stored>> /\ pc'[q] \notin {"push", "201"}
    BY <1>1, <1>7 DEF AddMember, Goto, pushing
  <2>2. ASSUME NEW r \in Requests, Body[r].kind = "send", pc'[r] \in {"push", "201"},
               NEW u \in members'[Body[r].chat] \ {Body[r].by}
        PROVE  \/ pc'[r] = "push" /\ u \in list'[r]
               \/ <<r, u>> \in told'
               \/ r \in earlier'[Body[r].chat][u]
    <3>1. r # q /\ pc'[r] = pc[r]
      BY <1>3, <2>1, <2>2
    <3>2. r \in stored
      BY <2>2, <3>1 DEF StoredSends, AfterCommit
    <3>3. CASE u \in members[Body[r].chat]
      <4>1. earlier'[Body[r].chat][u] = earlier[Body[r].chat][u]
        <5>1. CASE Member(q)
          BY <1>7, <5>1, AddSteps
        <5>2. CASE ~Member(q)
          <6>1. Body[r].chat # Body[q].chat \/ u # Body[q].by
            BY <3>3, <5>2 DEF Member
          <6>2. earlier' = [earlier EXCEPT ![Body[q].chat][Body[q].by] = stored]
            BY <1>7, <5>2, AddSteps
          <6>. QED
            BY <1>1, <1>4, <6>1, <6>2
        <5>. QED
          BY <5>1, <5>2
      <4>. QED
        BY <1>4, <2>1, <2>2, <3>1, <3>3, <4>1 DEF AllTold
    <3>4. CASE u \notin members[Body[r].chat]
      <4>1. ~Member(q) /\ Body[r].chat = Body[q].chat /\ u = Body[q].by
        <5>1. ~Member(q)
          BY <1>7, <2>2, <3>4, AddSteps
        <5>2. members' = [members EXCEPT ![Body[q].chat] = @ \cup {Body[q].by}]
          BY <1>7, <5>1, AddSteps
        <5>. QED
          BY <1>1, <1>4, <2>2, <3>4, <5>1, <5>2
      <4>2. earlier'[Body[r].chat][u] = stored
        <5>1. earlier' = [earlier EXCEPT ![Body[q].chat][Body[q].by] = stored]
          BY <1>7, <4>1, AddSteps
        <5>. QED
          BY <1>1, <4>1, <5>1
      <4>. QED
        BY <3>2, <4>2
    <3>. QED
      BY <3>3, <3>4
  <2>. QED
    BY <1>2, <2>1, <2>2 DEF ToldInv, AllTold
<1>8. CASE ~AddMember(q) /\ ~GetMembers(q) /\ ~Push(q)
  <2>1. /\ \A c \in Chats : members'[c] \subseteq members[c]
        /\ UNCHANGED <<list, told, earlier>>
        /\ pc'[q] \notin {"push", "201"}
    BY <1>8, SilentSteps
  <2>2. ASSUME NEW r \in Requests, Body[r].kind = "send", pc'[r] \in {"push", "201"},
               NEW u \in members'[Body[r].chat] \ {Body[r].by}
        PROVE  \/ pc'[r] = "push" /\ u \in list'[r]
               \/ <<r, u>> \in told'
               \/ r \in earlier'[Body[r].chat][u]
    <3>1. pc'[r] = pc[r] /\ u \in members[Body[r].chat] \ {Body[r].by}
      BY <1>3, <1>4, <2>1, <2>2
    <3>. QED
      BY <1>4, <2>1, <2>2, <3>1 DEF AllTold
  <2>. QED
    BY <1>2, <2>1, <2>2 DEF ToldInv, AllTold
<1>. QED
  BY <1>5, <1>6, <1>7, <1>8

-----------------------------------------------------------------------------
(* Previews                                                                *)

(* A preview finds the last message after it has read the mark, and counts *)
(* after that: what it has found is among what it counts.                  *)
PreviewOf(q) ==
  Body[q].kind = "preview" =>
    /\ pc[q] \in {"new", "own_rows", "last"} => found[q] = {}
    /\ pc[q] \in {"count", "attachments", "200"} => found[q] \subseteq InChat(q)
    /\ pc[q] \in {"attachments", "200"} =>
         \A m \in found[q] : id[m] > base[q] => unread[q] > 0

Previews == \A q \in Requests : PreviewOf(q)

LEMMA OthersReads ==
  ASSUME TypeOK, NEW q \in Requests, Receive(q) \/ Handle(q) \/ Fails(q),
         NEW r \in Requests, r # q
  PROVE  found'[r] = found[r] /\ base'[r] = base[r] /\ unread'[r] = unread[r]
<1>1. /\ found \in [Requests -> SUBSET Requests]
      /\ base \in [Requests -> Nat] /\ unread \in [Requests -> Nat]
  BY DEF TypeOK
<1>2. CASE Select(q) \/ OwnRows(q) \/ LastMessage(q) \/ CountUnread(q)
  BY <1>1, <1>2 DEF Select, OwnRows, LastMessage, CountUnread
<1>3. CASE ~(Select(q) \/ OwnRows(q) \/ LastMessage(q) \/ CountUnread(q))
  <2>1. UNCHANGED <<found, base, unread>>
    BY <1>3, EitherSide DEF Outside, Inside, Receive, CheckChatAccess, FindMember,
      UpdateMark, SenderInfo, GetMembers, Push, Attachments, Leave, Begin, ForwardedUser,
      InsertMessage, CreateAttachment, Commit, Rollback, AddMember, Fails, reading
  <2>. QED
    BY <2>1
<1>. QED
  BY <1>2, <1>3

LEMMA PreviewsStep ==
  ASSUME TypeOK, StepsOfKind, StoredSends, Previews, NEW q \in Requests,
         Receive(q) \/ Handle(q) \/ Fails(q)
  PROVE  Previews'
<1>1. stored \subseteq stored' /\ \A m \in stored : id'[m] = id[m]
  BY StoredIds
<1>2. \A r \in Requests : InChat(r) \subseteq stored /\ InChat(r) \subseteq InChat(r)'
  BY <1>1 DEF InChat
<1>3. ASSUME NEW r \in Requests, r # q PROVE PreviewOf(r)'
  <2>1. pc'[r] = pc[r] /\ PreviewOf(r)
    BY <1>3, OthersRows DEF Previews
  <2>2. found'[r] = found[r] /\ base'[r] = base[r] /\ unread'[r] = unread[r]
    BY <1>3, OthersReads
  <2>3. found[r] \subseteq InChat(r) => \A m \in found[r] : id'[m] = id[m]
    BY <1>1, <1>2
  <2>. QED
    BY <1>2, <2>1, <2>2, <2>3 DEF PreviewOf
<1>4. PreviewOf(q)'
  <2>1. SUFFICES ASSUME Body[q].kind = "preview" PROVE PreviewOf(q)'
    BY DEF PreviewOf
  <2>2. /\ PreviewOf(q) /\ pc \in [Requests -> PcTypes]
        /\ found \in [Requests -> SUBSET Requests] /\ id \in [Requests -> Nat]
        /\ base \in [Requests -> Nat] /\ unread \in [Requests -> Nat]
    BY DEF Previews, TypeOK, PcTypes
  <2>3. CASE Receive(q)
    <3>1. pc[q] = "new" /\ UNCHANGED found
      BY <2>3 DEF Receive
    <3>2. FirstStep(q) = "own_rows"
      BY <2>1 DEF FirstStep
    <3>3. pc'[q] \in {"own_rows", "400"}
      BY <2>2, <2>3, <3>2 DEF Receive, Goto
    <3>. QED
      BY <2>1, <2>2, <3>1, <3>3 DEF PreviewOf
  <2>4. CASE OwnRows(q)
    <3>1. pc[q] = "own_rows" /\ UNCHANGED found /\ pc'[q] \in {"last", "200"}
      BY <2>2, <2>4 DEF OwnRows, Goto
    <3>. QED
      BY <2>1, <2>2, <3>1 DEF PreviewOf
  <2>5. CASE LastMessage(q)
    <3>1. found'[q] = Newest(InChat(q)) /\ pc'[q] = "count"
      BY <2>2, <2>5 DEF LastMessage, Goto
    <3>2. found'[q] \subseteq InChat(q)'
      BY <1>2, <3>1, NewestType
    <3>. QED
      BY <3>1, <3>2 DEF PreviewOf
  <2>6. CASE CountUnread(q)
    <3> DEFINE newer == {m \in InChat(q) : id[m] > base[q]}
    <3>1. /\ pc[q] = "count" /\ pc'[q] = "attachments"
          /\ unread'[q] = Cardinality(newer) /\ UNCHANGED <<found, base, id, stored>>
      BY <2>2, <2>6 DEF CountUnread, Goto, rows
    <3>2. found[q] \subseteq InChat(q)
      BY <2>1, <2>2, <3>1 DEF PreviewOf
    <3>3. ASSUME NEW m \in found[q], id[m] > base[q] PROVE Cardinality(newer) > 0
      <4>1. m \in newer /\ newer \subseteq Requests
        BY <3>2, <3>3 DEF InChat, TypeOK
      <4>2. IsFiniteSet(newer) /\ Cardinality(newer) \in Nat
        BY <4>1, RequestsFinite
      <4>3. Cardinality(newer) # 0
        BY <4>1, <4>2, FS_EmptySet
      <4>. QED
        BY <4>2, <4>3
    <3>4. InChat(q)' = InChat(q)
      BY <3>1 DEF InChat
    <3>. HIDE DEF newer
    <3>. QED
      BY <3>1, <3>2, <3>3, <3>4 DEF PreviewOf
  <2>7. CASE Attachments(q)
    <3>1. pc[q] = "attachments" /\ pc'[q] = "200" /\ UNCHANGED <<found, base, unread, id, stored>>
      BY <2>2, <2>7 DEF Attachments, Goto, rows, reading
    <3>2. InChat(q)' = InChat(q)
      BY <3>1 DEF InChat
    <3>. QED
      BY <2>1, <2>2, <3>1, <3>2 DEF PreviewOf
  <2>8. CASE Fails(q)
    <3>1. pc'[q] \in {"rollback", "500"}
      BY <2>2, <2>8 DEF Fails, Goto
    <3>. QED
      BY <3>1 DEF PreviewOf
  <2>9. ~(CheckChatAccess(q) \/ Begin(q) \/ ForwardedUser(q) \/ InsertMessage(q)
          \/ CreateAttachment(q) \/ Commit(q) \/ Rollback(q) \/ FindMember(q)
          \/ UpdateMark(q) \/ SenderInfo(q) \/ GetMembers(q) \/ Push(q) \/ Select(q)
          \/ AddMember(q) \/ Leave(q))
    BY <2>1 DEF StepsOfKind, CheckChatAccess, Begin, ForwardedUser, InsertMessage,
      CreateAttachment, Commit, Rollback, FindMember, UpdateMark, SenderInfo, GetMembers,
      Push, Select, AddMember, Leave
  <2>. QED
    BY <2>3, <2>4, <2>5, <2>6, <2>7, <2>8, <2>9 DEF Handle
<1>. QED
  BY <1>3, <1>4 DEF Previews

-----------------------------------------------------------------------------
(* Ids                                                                     *)

(* Only a message that was inserted, and not rolled back, has an id        *)
IdsTaken ==
  \A q \in Requests : id[q] > 0 =>
    Body[q].kind = "send" /\ pc[q] \in {"attach", "commit", "rollback"} \cup AfterCommit

LEMMA IdsTakenStep ==
  ASSUME TypeOK, StepsOfKind, StoredSends, IdsTaken, NEW q \in Requests,
         Receive(q) \/ Handle(q) \/ Fails(q)
  PROVE  IdsTaken'
<1>1. /\ pc \in [Requests -> PcTypes] /\ id \in [Requests -> Nat] /\ lastId \in Nat
      /\ id[q] > 0 => /\ Body[q].kind = "send"
                      /\ pc[q] \in {"attach", "commit", "rollback"} \cup AfterCommit
  BY DEF TypeOK, PcTypes, IdsTaken
<1>2. ASSUME id'[q] > 0
      PROVE  /\ Body[q].kind = "send"
             /\ pc'[q] \in {"attach", "commit", "rollback"} \cup AfterCommit
  <2>1. CASE InsertMessage(q)
    BY <1>1, <1>2, <2>1 DEF InsertMessage, AfterInsert, Goto, StepsOfKind, AfterCommit
  <2>2. CASE CreateAttachment(q) \/ Commit(q) \/ Rollback(q)
    BY <1>1, <1>2, <2>2 DEF CreateAttachment, AfterInsert, Commit, Rollback, Goto,
      AfterCommit, StepsOfKind
  <2>3. CASE FindMember(q) \/ UpdateMark(q) \/ SenderInfo(q) \/ GetMembers(q)
    BY <1>1, <1>2, <2>3 DEF FindMember, UpdateMark, SenderInfo, GetMembers, MarkDone, Goto,
      rows, AfterCommit
  <2>4. CASE Push(q)
    BY <1>1, <1>2, <2>4, PushSteps DEF Push, Goto, rows, AfterCommit
  <2>5. CASE Fails(q)
    BY <1>1, <1>2, <2>5 DEF Fails, Goto, rows, AfterCommit
  <2>6. CASE /\ ~(InsertMessage(q) \/ CreateAttachment(q) \/ Commit(q) \/ Rollback(q))
             /\ ~(FindMember(q) \/ UpdateMark(q) \/ SenderInfo(q) \/ GetMembers(q))
             /\ ~(Push(q) \/ Fails(q))
    <3>1. /\ UNCHANGED id
          /\ pc[q] \in {"new", "access", "begin", "name", "select", "attachments",
                        "own_rows", "last", "count", "delete", "add"}
      BY <2>6 DEF Handle, Receive, CheckChatAccess, Begin, ForwardedUser, Select,
        Attachments, OwnRows, LastMessage, CountUnread, Leave, AddMember, rows
    <3>. QED
      BY <1>1, <1>2, <3>1 DEF AfterCommit
  <2>. QED
    BY <2>1, <2>2, <2>3, <2>4, <2>5, <2>6
<1>3. ASSUME NEW r \in Requests, r # q
      PROVE  pc'[r] = pc[r] /\ id'[r] = id[r]
  BY <1>3, OthersRows
<1>4. ASSUME NEW r \in Requests, id'[r] > 0
      PROVE  /\ Body[r].kind = "send"
             /\ pc'[r] \in {"attach", "commit", "rollback"} \cup AfterCommit
  <2>1. CASE r = q
    BY <1>2, <1>4, <2>1
  <2>2. CASE r # q
    BY <1>3, <1>4, <2>2 DEF IdsTaken
  <2>. QED
    BY <2>1, <2>2
<1>. QED
  BY <1>4 DEF IdsTaken

-----------------------------------------------------------------------------
(* The inductive invariant                                                 *)

ChatInv ==
  /\ TypeOK
  /\ UpMeansBucket
  /\ StepsOfKind
  /\ HeldInTx
  /\ StoredSends
  /\ FilesCounted
  /\ LinksFit
  /\ ToldInv
  /\ Previews
  /\ IdsTaken

LEMMA InitChatInv == Init => ChatInv
<1>1. ASSUME Init PROVE ChatInv
  <2>1. /\ \A q \in Requests : pc[q] \in {"new", "never"} /\ files[q] = 0 /\ found[q] = {}
        /\ \A q \in Requests : id[q] = 0
        /\ stored = {} /\ held = {} /\ told = {} /\ server = "starting"
    BY <1>1 DEF Init, Zero, S3Init
  <2>2. TypeOK /\ StepsOfKind /\ HeldInTx /\ StoredSends
    BY <1>1, InitTypes, InitStands
  <2>3. UpMeansBucket
    BY <2>1 DEF UpMeansBucket
  <2>4. FilesCounted
    BY <2>1 DEF FilesCounted, FilesOf
  <2>5. LinksFit
    BY <2>1 DEF LinksFit, Checked, TxSteps
  <2>6. ToldInv
    BY <2>1 DEF ToldInv, AllTold
  <2>7. Previews /\ IdsTaken
    BY <2>1 DEF Previews, PreviewOf, IdsTaken
  <2>. QED
    BY <2>2, <2>3, <2>4, <2>5, <2>6, <2>7 DEF ChatInv
<1>. QED
  BY <1>1

LEMMA RequestChatInv ==
  ASSUME ChatInv, NEW q \in Requests, Receive(q) \/ Handle(q) \/ Fails(q)
  PROVE  ChatInv'
<1>. USE DEF ChatInv
<1>1. TypeOK'
  BY ReceiveTypes, MoveTypes, TransactionTypes, MemberTypes, PushTypes, ReadTypes,
    FailsTypes DEF Handle
<1>2. UpMeansBucket'
  <2>1. UNCHANGED s3
    BY EitherSide DEF Outside, Inside, Receive, CheckChatAccess, FindMember, UpdateMark,
      SenderInfo, GetMembers, Push, Select, Attachments, OwnRows, LastMessage, CountUnread,
      Leave, Begin, ForwardedUser, InsertMessage, CreateAttachment, Commit, Rollback,
      AddMember, Fails, Quiet
  <2>. QED
    BY <2>1, StorageUp
<1>3. StepsOfKind' /\ HeldInTx' /\ StoredSends'
  BY StepsOfKindStep, HeldInTxStep, StoredSendsStep
<1>4. FilesCounted' /\ LinksFit'
  BY FilesCountedStep, LinksFitStep
<1>5. ToldInv' /\ Previews' /\ IdsTaken'
  BY ToldStep, PreviewsStep, IdsTakenStep
<1>. QED
  BY <1>1, <1>2, <1>3, <1>4, <1>5

LEMMA CrashChatInv ==
  ASSUME ChatInv, Crash
  PROVE  ChatInv'
<1>. USE DEF ChatInv
<1>1. TypeOK' /\ StepsOfKind' /\ HeldInTx' /\ StoredSends'
  BY CrashTypes, CrashStands
<1>2. UpMeansBucket'
  BY StorageUp DEF Crash
<1>3. /\ \A q \in Requests : pc'[q] = IF pc[q] \in Steps THEN "lost" ELSE pc[q]
      /\ \A q \in Requests : files'[q] = IF q \in held THEN 0 ELSE files[q]
      /\ \A q \in Requests : id'[q] = IF q \in held THEN 0 ELSE id[q]
      /\ UNCHANGED <<members, stored, found, base, unread, list, told, earlier>>
      /\ held' = {}
  BY DEF Crash, reading, pushing, history
<1>4. /\ \A q \in Requests : q \in held => q \notin stored
      /\ stored \subseteq Requests
  BY DEF HeldInTx, StoredSends, TxSteps, AfterCommit, TypeOK
<1>5. FilesCounted'
  BY <1>3, <1>4 DEF FilesCounted, FilesOf, Steps, TxSteps
<1>6. LinksFit'
  <2>1. \A q \in Requests : (FilesFit(q)' <=> FilesFit(q)) /\ (Signed(q)' <=> Signed(q))
    BY DEF FilesFit, Signed
  <2>2. ASSUME NEW q \in Requests
        PROVE  /\ Body[q].kind = "links" /\ pc'[q] = "200" => FilesFit(q)
               /\ Checked(q)' \/ q \in stored' => Signed(q)
    BY <1>3 DEF LinksFit, Checked, Steps, TxSteps
  <2>. QED
    BY <2>1, <2>2 DEF LinksFit
<1>7. ToldInv'
  BY <1>3 DEF ToldInv, AllTold, Steps, TxSteps
<1>9. IdsTaken'
  <2>1. ASSUME NEW q \in Requests, id'[q] > 0
        PROVE  /\ Body[q].kind = "send"
               /\ pc'[q] \in {"attach", "commit", "rollback"} \cup AfterCommit
    <3>1. id[q] > 0 /\ q \notin held
      BY <1>3, <2>1
    <3>2. Body[q].kind = "send" /\ pc[q] \in AfterCommit
      BY <3>1 DEF IdsTaken, HeldInTx, TxSteps
    <3>. QED
      BY <1>3, <3>2 DEF AfterCommit
  <2>. QED
    BY <2>1 DEF IdsTaken
<1>8. Previews'
  <2>1. \A q \in Requests : InChat(q)' = InChat(q) /\ InChat(q) \subseteq stored
    BY <1>3 DEF InChat
  <2>2. \A m \in stored : id'[m] = id[m]
    BY <1>3, <1>4
  <2>3. ASSUME NEW q \in Requests PROVE PreviewOf(q)'
    <3>1. PreviewOf(q)
      BY DEF Previews
    <3>2. pc'[q] \in {"new", "own_rows", "last", "count", "attachments", "200"} =>
            pc'[q] = pc[q] /\ pc[q] \in {"new", "200"}
      BY <1>3 DEF Steps, TxSteps
    <3>. QED
      BY <1>3, <2>1, <2>2, <3>1, <3>2 DEF PreviewOf
  <2>. QED
    BY <2>3 DEF Previews
<1>. QED
  BY <1>1, <1>2, <1>5, <1>6, <1>7, <1>8, <1>9

LEMMA StartUpChatInv ==
  ASSUME ChatInv, Storage \/ UNCHANGED vars
  PROVE  ChatInv'
<1>. USE DEF ChatInv
<1>1. TypeOK' /\ StepsOfKind' /\ HeldInTx' /\ StoredSends'
  BY StartUpTypes, StutterTypes, PlainStands
<1>2. UpMeansBucket'
  BY StorageUp DEF Storage, vars
<1>3. UNCHANGED <<rows, reading, pushing, history, pc>>
  BY DEF Storage, Plain, vars
<1>4. FilesCounted' /\ LinksFit'
  BY <1>3 DEF FilesCounted, FilesOf, LinksFit, Checked, FilesFit, Signed, rows
<1>5. ToldInv' /\ IdsTaken'
  BY <1>3 DEF ToldInv, AllTold, IdsTaken, rows, pushing, history
<1>6. Previews'
  BY <1>3 DEF Previews, PreviewOf, InChat, rows, reading
<1>. QED
  BY <1>1, <1>2, <1>4, <1>5, <1>6

LEMMA NextChatInv == ChatInv /\ [Next]_vars => ChatInv'
BY RequestChatInv, CrashChatInv, StartUpChatInv DEF Next

LEMMA Invariance == Spec => []ChatInv
BY InitChatInv, NextChatInv, PTL DEF Spec

-----------------------------------------------------------------------------
(* Each variable keeps its type; in particular the transactions never hold *)
(* more connections than the pool has.                                     *)
THEOREM TypeCorrect == Spec => []TypeOK
<1>1. ChatInv => TypeOK
  BY DEF ChatInv
<1>. QED
  BY <1>1, Invariance, PTL

(* The server takes requests only once the bucket of the storage exists,   *)
(* whichever calls of the constructor of S3Service failed, whatever answer *)
(* was lost and whoever else made the bucket.                              *)
THEOREM RequestsNeedTheBucket == Spec => []UpMeansBucket
<1>1. ChatInv => UpMeansBucket
  BY DEF ChatInv
<1>. QED
  BY <1>1, Invariance, PTL

(* A refused message is not in the chat; one whose request ended in an     *)
(* error, or was lost, is there only after a fault or a stop.              *)
THEOREM RefusedMessagesAreNotStored == Spec => []RefusedIsNotStored
<1>1. ASSUME ChatInv PROVE RefusedIsNotStored
  <2>1. faults \in Nat /\ crashes \in Nat
    BY <1>1 DEF ChatInv, TypeOK
  <2>2. faults > 0 \/ crashes > 0 => faults + crashes > 0
    BY <2>1
  <2>. QED
    BY <1>1, <2>2 DEF ChatInv, StoredSends, AfterCommit, RefusedIsNotStored, Sent
<1>. QED
  BY <1>1, Invariance, PTL

(* A message and its attachments are stored together or not at all, and    *)
(* the attachments are of the kinds that its type may carry.               *)
THEOREM AttachmentsAreWhole == Spec => []AttachmentsWhole
<1>1. ASSUME ChatInv PROVE AttachmentsWhole
  <2>1. ASSUME NEW q \in Requests, q \notin held
        PROVE  files[q] = IF q \in stored THEN Len(Body[q].tokens) ELSE 0
    BY <1>1, <2>1 DEF ChatInv, FilesCounted, FilesOf
  <2>2. ASSUME NEW q \in Requests, q \in stored, NEW n \in DOMAIN Body[q].tokens,
               NEW f \in DOMAIN Body[Body[q].tokens[n]].files
        PROVE  ValidateFileType(Body[q].type, MimeOf(Body[Body[q].tokens[n]].files[f]))
    <3>1. Signed(q)
      BY <1>1, <2>2 DEF ChatInv, LinksFit
    <3>2. Body[Body[q].tokens[n]].type = Body[q].type /\ FilesFit(Body[q].tokens[n])
      BY <3>1 DEF Signed
    <3>. QED
      BY <3>2 DEF FilesFit
  <2>. QED
    BY <2>1, <2>2 DEF AttachmentsWhole
<1>. QED
  BY <1>1, Invariance, PTL

(* Every member of a chat is told of a message that is answered 201, or    *)
(* was added to the chat when the message was stored already.              *)
THEOREM NewcomersMissNothing == Spec => []ToldOrInHistory
<1>1. ChatInv => ToldOrInHistory
  BY DEF ChatInv, ToldInv, AllTold, ToldOrInHistory, Sent
<1>. QED
  BY <1>1, Invariance, PTL

(* A preview never shows a new last message with nothing unread.           *)
THEOREM PreviewsCountTheirLast == Spec => []PreviewNeverHidesUnread
<1>1. ChatInv => PreviewNeverHidesUnread
  BY DEF ChatInv, Previews, PreviewOf, PreviewNeverHidesUnread
<1>. QED
  BY <1>1, Invariance, PTL

(* Requests wait for a connection for ever only when the pool is full of   *)
(* forwards that wait for a second connection.                             *)
THEOREM PoolJamsByForwardsOnly == Spec => []NoJamBelowPoolSize
<1>1. ASSUME ChatInv PROVE NoJamBelowPoolSize
  <2>1. SUFFICES ASSUME ~ConnectionFree,
                        ~\E q \in held : pc[q] \in TxSteps \ {"name"} /\ ~LockedOut(q)
                 PROVE  Cardinality({q \in held : pc[q] = "name"}) = PoolSize
    BY DEF NoJamBelowPoolSize
  <2>4. \A q \in held : q \in Requests /\ pc[q] \in TxSteps
    BY <1>1 DEF ChatInv, HeldInTx
  <2>5. ASSUME NEW q \in held, LockedOut(q) PROVE FALSE
    <3>1. PICK m \in held : id[m] > 0
      BY <2>5 DEF LockedOut
    <3>2. m \in Requests /\ pc[m] \in {"attach", "commit", "rollback"}
      BY <1>1, <2>4, <3>1 DEF ChatInv, IdsTaken, AfterCommit, TxSteps
    <3>3. ~LockedOut(m)
      BY <3>2 DEF LockedOut
    <3>. QED
      BY <2>1, <3>2, <3>3 DEF TxSteps
  <2>2. {q \in held : pc[q] = "name"} = held
    BY <2>1, <2>4, <2>5
  <2>3. Cardinality(held) \in Nat /\ Cardinality(held) <= PoolSize
    BY <1>1, RequestsFinite DEF ChatInv, TypeOK
  <2>. QED
    BY <2>1, <2>2, <2>3, MessagesAssumption DEF ConnectionFree
<1>. QED
  BY <1>1, Invariance, PTL

-----------------------------------------------------------------------------
(* The order of ids, commits and marks                                     *)

LEMMA OrderTypes ==
  ASSUME TypeOK
  PROVE  /\ pc \in [Requests -> PcTypes] /\ id \in [Requests -> Nat] /\ lastId \in Nat
         /\ found \in [Requests -> SUBSET Requests] /\ target \in [Requests -> Nat]
         /\ stored \subseteq Requests /\ held \subseteq Requests
         /\ mark \in [Chats -> [Users -> Nat]]
         /\ \A c \in Chats, u \in Users : mark[c][u] \in Nat
BY DEF TypeOK, PcTypes

(* A request that takes a step has not ended                               *)
LEMMA OnlyUnderWay ==
  ASSUME NEW q, Receive(q) \/ Handle(q) \/ Fails(q)
  PROVE  pc[q] \in Steps \cup {"new"}
BY DEF Receive, Handle, Fails, CheckChatAccess, Begin, ForwardedUser, InsertMessage,
  CreateAttachment, Commit, Rollback, FindMember, UpdateMark, SenderInfo, GetMembers, Push,
  Select, Attachments, OwnRows, LastMessage, CountUnread, AddMember, Leave, Steps, TxSteps

(* What only grows                                                         *)
LEMMA HistoryGrows ==
  ASSUME NEW q \in Requests, Receive(q) \/ Handle(q) \/ Fails(q)
  PROVE  /\ overtaken \subseteq overtaken' /\ crossed \subseteq crossed'
         /\ told \subseteq told'
<1>1. CASE Receive(q) \/ Commit(q) \/ Push(q) \/ GetMembers(q) \/ AddMember(q) \/ Fails(q)
  BY <1>1 DEF Receive, Commit, Push, GetMembers, AddMember, Fails, history, pushing
<1>2. CASE ~(Receive(q) \/ Commit(q) \/ Push(q) \/ GetMembers(q) \/ AddMember(q) \/ Fails(q))
  <2>1. UNCHANGED <<history, pushing>>
    BY <1>2 DEF Handle, CheckChatAccess, Begin, ForwardedUser, InsertMessage,
      CreateAttachment, Rollback, FindMember, UpdateMark, SenderInfo, Select, Attachments,
      OwnRows, LastMessage, CountUnread, Leave, Quiet
  <2>. QED
    BY <2>1 DEF history, pushing
<1>. QED
  BY <1>1, <1>2

(* The ids that a step changes                                             *)
LEMMA IdSteps ==
  ASSUME TypeOK, NEW q \in Requests, Receive(q) \/ Handle(q) \/ Fails(q)
  PROVE  \/ id' = id /\ lastId' = lastId
         \/ /\ InsertMessage(q) /\ lastId' = lastId + 1
            /\ id' = id \/ id' = [id EXCEPT ![q] = lastId + 1]
         \/ Rollback(q) /\ lastId' = lastId /\ id' = [id EXCEPT ![q] = 0]
<1>1. CASE InsertMessage(q)
  BY <1>1 DEF InsertMessage
<1>2. CASE Rollback(q)
  BY <1>2 DEF Rollback
<1>3. CASE ~(InsertMessage(q) \/ Rollback(q))
  BY <1>3 DEF Handle, Receive, Fails, Commit, GetMembers, Push, CheckChatAccess, Begin,
    ForwardedUser, CreateAttachment, FindMember, UpdateMark, SenderInfo, Select,
    Attachments, OwnRows, LastMessage, CountUnread, AddMember, Leave, rows
<1>. QED
  BY <1>1, <1>2, <1>3

(* The marks that a step changes                                           *)
LEMMA MarkSteps ==
  ASSUME TypeOK, NEW q \in Requests, Receive(q) \/ Handle(q) \/ Fails(q),
         NEW c \in Chats, NEW u \in Users, mark'[c][u] # mark[c][u]
  PROVE  /\ c = Body[q].chat /\ u = Body[q].by /\ pc[q] \in {"update_mark", "delete"}
         /\ \/ UpdateMark(q) /\ mark'[c][u] = target[q]
            \/ Leave(q) /\ mark'[c][u] = 0
<1>1. Body[q].chat \in Chats /\ Body[q].by \in Users /\ mark \in [Chats -> [Users -> Nat]]
  BY BodyType DEF TypeOK
<1>2. CASE UpdateMark(q)
  BY <1>1, <1>2 DEF UpdateMark
<1>3. CASE Leave(q)
  BY <1>1, <1>3 DEF Leave
<1>4. CASE ~(UpdateMark(q) \/ Leave(q))
  <2>1. UNCHANGED mark
    BY <1>4 DEF Handle, Receive, Fails, Commit, GetMembers, Push, CheckChatAccess, Begin,
      ForwardedUser, InsertMessage, CreateAttachment, Rollback, FindMember, SenderInfo,
      Select, Attachments, OwnRows, LastMessage, CountUnread, AddMember, rows
  <2>. QED
    BY <2>1
<1>. QED
  BY <1>2, <1>3, <1>4

LEMMA OthersTargets ==
  ASSUME TypeOK, NEW q \in Requests, Receive(q) \/ Handle(q) \/ Fails(q),
         NEW r \in Requests, r # q
  PROVE  target'[r] = target[r]
<1>1. target \in [Requests -> Nat]
  BY DEF TypeOK
<1>2. CASE Receive(q) \/ Commit(q)
  BY <1>1, <1>2 DEF Receive, Commit
<1>3. CASE ~(Receive(q) \/ Commit(q))
  BY <1>3 DEF Handle, Fails, GetMembers, Push, CheckChatAccess, Begin, ForwardedUser,
    InsertMessage, CreateAttachment, Rollback, FindMember, UpdateMark, SenderInfo, Select,
    Attachments, OwnRows, LastMessage, CountUnread, AddMember, Leave, reading
<1>. QED
  BY <1>2, <1>3

(* What a user has got stays got                                           *)
LEMMA GotGrows ==
  ASSUME \A r \in Requests : pc[r] \in {"200", "201"} =>
           pc'[r] = pc[r] /\ found'[r] = found[r],
         told \subseteq told', NEW u
  PROVE  Got(u) \subseteq Got(u)'
BY DEF Got

LEMMA RequestGot ==
  ASSUME TypeOK, StepsOfKind, NEW q \in Requests, Receive(q) \/ Handle(q) \/ Fails(q), NEW u
  PROVE  Got(u) \subseteq Got(u)'
<1>1. ASSUME NEW r \in Requests, pc[r] \in {"200", "201"}
      PROVE  pc'[r] = pc[r] /\ found'[r] = found[r]
  <2>1. r # q
    BY <1>1, OnlyUnderWay DEF Steps, TxSteps
  <2>. QED
    BY <2>1, OthersRows, OthersReads
<1>. QED
  BY <1>1, HistoryGrows, GotGrows

LEMMA GotStored ==
  ASSUME OrderInv, ToldInv, NEW u
  PROVE  Got(u) \subseteq stored
<1>1. ASSUME NEW m \in Got(u) PROVE m \in stored
  <2>1. CASE \E r \in Requests : m \in found[r]
    BY <2>1 DEF OrderInv
  <2>2. CASE m \in Requests /\ pc[m] = "201"
    BY <2>2 DEF OrderInv
  <2>3. CASE <<m, u>> \in told
    BY <2>3 DEF ToldInv
  <2>. QED
    BY <2>1, <2>2, <2>3 DEF Got
<1>. QED
  BY <1>1

LEMMA IdsCountedStep ==
  ASSUME TypeOK, StepsOfKind, HeldInTx, IdsTaken, IdsCounted, NEW q \in Requests,
         Receive(q) \/ Handle(q) \/ Fails(q), HeldInTx'
  PROVE  IdsCounted'
<1>1. pc \in [Requests -> PcTypes] /\ id \in [Requests -> Nat] /\ lastId \in Nat
  BY OrderTypes
<1>2. ASSUME NEW r \in Requests, r # q
      PROVE  id'[r] <= lastId' /\ (id'[r] > 0 => r \in held' \cup stored')
  <2>1. id'[r] = id[r] /\ (r \in stored' <=> r \in stored) /\ (r \in held' <=> r \in held)
    BY <1>2, OthersRows
  <2>2. lastId <= lastId' /\ lastId' \in Nat
    BY <1>1, IdSteps
  <2>. QED
    BY <1>1, <2>1, <2>2 DEF IdsCounted
<1>3. id'[q] <= lastId' /\ (id'[q] > 0 => q \in held' \cup stored')
  <2>1. CASE InsertMessage(q)
    <3>1. q \in held /\ held' = held /\ lastId' = lastId + 1
      BY <2>1 DEF InsertMessage, HeldInTx, TxSteps
    <3>2. id'[q] \in {id[q], lastId + 1} /\ id[q] <= lastId
      BY <1>1, <2>1 DEF InsertMessage, IdsCounted
    <3>. QED
      BY <1>1, <3>1, <3>2
  <2>2. CASE Rollback(q)
    BY <1>1, <2>2 DEF Rollback
  <2>4. CASE AddMember(q)
    <3>1. Body[q].kind = "add" /\ id' = id /\ lastId' = lastId
      BY <2>4 DEF AddMember, StepsOfKind
    <3>. QED
      BY <1>1, <3>1 DEF IdsTaken, IdsCounted
  <2>3. CASE ~InsertMessage(q) /\ ~Rollback(q) /\ ~AddMember(q)
    <3>1. id' = id /\ lastId' = lastId
      BY <2>3, IdSteps
    <3>2. held \cup stored \subseteq held' \cup stored'
      <4>1. CASE Commit(q)
        BY <4>1 DEF Commit
      <4>2. CASE ~Commit(q)
        BY <2>3, <4>2 DEF Handle, Receive, Fails, GetMembers, Push, CheckChatAccess, Begin,
          ForwardedUser, CreateAttachment, FindMember, UpdateMark, SenderInfo, Select,
          Attachments, OwnRows, LastMessage, CountUnread, Leave, rows
      <4>. QED
        BY <4>1, <4>2
    <3>. QED
      BY <3>1, <3>2 DEF IdsCounted
  <2>. QED
    BY <2>1, <2>2, <2>3, <2>4
<1>. QED
  BY <1>2, <1>3 DEF IdsCounted

LEMMA CommitsInOrderStep ==
  ASSUME TypeOK, StepsOfKind, StoredSends, HeldInTx, IdsCounted, CommitsInOrder,
         NEW q \in Requests, Receive(q) \/ Handle(q) \/ Fails(q)
  PROVE  CommitsInOrder'
<1>1. /\ pc \in [Requests -> PcTypes] /\ id \in [Requests -> Nat] /\ lastId \in Nat
      /\ stored \subseteq Requests
  BY OrderTypes
<1>2. /\ stored \subseteq stored' /\ overtaken \subseteq overtaken'
      /\ \A m \in stored : id'[m] = id[m]
  BY StoredIds, HistoryGrows
<1>3. SUFFICES ASSUME NEW b \in stored', NEW m \in Requests, Body[m].chat = Body[b].chat,
                      0 < id'[m], id'[m] < id'[b]
               PROVE  m \in stored' \cup overtaken'
  BY DEF CommitsInOrder
<1>4. CASE b \in stored
  <2>1. id'[b] = id[b] /\ id[b] <= lastId /\ id[b] \in Nat
    BY <1>1, <1>2, <1>4 DEF IdsCounted
  <2>2. id'[m] \in {id[m], 0, lastId + 1}
    BY <1>1, IdSteps
  <2>3. id'[m] = id[m]
    BY <1>1, <1>3, <2>1, <2>2
  <2>. QED
    BY <1>2, <1>3, <1>4, <2>1, <2>3 DEF CommitsInOrder
<1>5. CASE b \notin stored
  <2>1. Commit(q)
    BY <1>3, <1>5 DEF Handle, Receive, Fails, GetMembers, Push, CheckChatAccess, Begin,
      ForwardedUser, InsertMessage, CreateAttachment, Rollback, FindMember, UpdateMark,
      SenderInfo, Select, Attachments, OwnRows, LastMessage, CountUnread, AddMember, Leave,
      rows
  <2>2. b = q
    BY <1>3, <1>5, <2>1 DEF Commit
  <2>3. id' = id /\ overtaken' = overtaken \cup Overtakes(q)
    BY <2>1 DEF Commit
  <2>4. CASE m \in stored
    BY <1>2, <2>4
  <2>5. CASE m \notin stored
    <3>1. m \in held
      BY <1>3, <2>3, <2>5 DEF IdsCounted
    <3>2. m # q /\ id[m] \in 1 .. id[q]
      BY <1>1, <1>3, <2>2, <2>3
    <3>. QED
      BY <1>3, <2>2, <2>3, <3>1, <3>2 DEF Overtakes
  <2>. QED
    BY <2>4, <2>5
<1>. QED
  BY <1>4, <1>5

LEMMA NextSteps ==
  ASSUME TypeOK, StepsOfKind, NEW q \in Requests, Receive(q) \/ Handle(q) \/ Fails(q)
  PROVE  /\ pc'[q] = "find_member" => Commit(q) \/ (Receive(q) /\ Body[q].kind = "read")
         /\ pc'[q] = "update_mark" => FindMember(q)
         /\ pc'[q] = "201" => Push(q)
         /\ pc'[q] = "attach" => InsertMessage(q) \/ CreateAttachment(q)
         /\ pc'[q] = "commit" => InsertMessage(q) \/ CreateAttachment(q)
         /\ pc'[q] = "attachments" =>
              Select(q) \/ (CheckChatAccess(q) /\ Body[q].kind # "page") \/ CountUnread(q)
         /\ pc'[q] = "200" /\ Body[q].kind = "page" => Attachments(q)
<1>1. pc \in [Requests -> PcTypes] /\ Body[q].kind \in
        {"send", "read", "page", "preview", "by_id", "links", "add", "leave"}
  BY BodyType DEF TypeOK, PcTypes, Request
<1>2. CASE Receive(q)
  <2>1. pc'[q] \in {FirstStep(q), "400"}
    BY <1>1, <1>2 DEF Receive, Goto
  <2>. QED
    BY <1>2, <2>1, FirstStepType
<1>3. CASE CheckChatAccess(q)
  <2>1. /\ Body[q].kind \in {"send", "page", "links", "by_id"}
        /\ Body[q].kind = "page" => pc'[q] \in {"403", "select"}
    BY <1>1, <1>3 DEF StepsOfKind, CheckChatAccess, Goto
  <2>2. pc'[q] \in {"403", "select", "attachments", "200", "400", "begin"}
    BY <1>1, <1>3, AccessSteps DEF Goto
  <2>. QED
    BY <1>3, <2>1, <2>2
<1>4. CASE ForwardedUser(q) \/ InsertMessage(q) \/ CreateAttachment(q)
  BY <1>1, <1>4 DEF ForwardedUser, InsertMessage, CreateAttachment, AfterInsert, Goto
<1>8. CASE Begin(q)
  BY <1>1, <1>8, BeginSteps DEF Goto
<1>9. CASE Push(q)
  BY <1>1, <1>9, PushSteps DEF Goto
<1>10. CASE GetMembers(q) \/ AddMember(q)
  BY <1>1, <1>10 DEF GetMembers, AddMember, Goto, StepsOfKind
<1>5. CASE Commit(q) \/ Rollback(q) \/ FindMember(q) \/ UpdateMark(q)
  BY <1>1, <1>5 DEF Commit, Rollback, FindMember, UpdateMark, MarkDone, Goto, StepsOfKind
<1>6. CASE SenderInfo(q) \/ Select(q) \/ Attachments(q)
  BY <1>1, <1>6 DEF SenderInfo, Select, Attachments, Goto
<1>7. CASE OwnRows(q) \/ LastMessage(q) \/ CountUnread(q) \/ Leave(q) \/ Fails(q)
  BY <1>1, <1>7 DEF OwnRows, LastMessage, CountUnread, Leave, Fails, Goto, StepsOfKind
<1>. QED
  BY <1>2, <1>3, <1>4, <1>5, <1>6, <1>7, <1>8, <1>9, <1>10 DEF Handle

LEMMA CrossedSeenStep ==
  ASSUME TypeOK, StepsOfKind, CrossedSeen, NEW q \in Requests,
         Receive(q) \/ Handle(q) \/ Fails(q)
  PROVE  CrossedSeen'
<1>1. SUFFICES ASSUME NEW a \in InFlight', NEW b \in InFlight', a # b, Body[a].by = Body[b].by
               PROVE  a \in crossed'
  BY DEF CrossedSeen
<1>2. a \in Requests /\ b \in Requests /\ crossed \subseteq crossed'
  BY HistoryGrows DEF InFlight
<1>3. \A r \in Requests \ {q} : r \in InFlight' => r \in InFlight
  BY OthersRows DEF InFlight
<1>4. CASE a \in InFlight /\ b \in InFlight
  BY <1>1, <1>2, <1>4 DEF CrossedSeen
<1>5. CASE a \notin InFlight \/ b \notin InFlight
  <2>1. q \notin InFlight /\ (a = q \/ b = q)
    BY <1>2, <1>3, <1>5
  <2>2. Receive(q)
    BY <2>1 DEF InFlight, Handle, Fails, CheckChatAccess, Begin, ForwardedUser,
      InsertMessage, CreateAttachment, Commit, Rollback, FindMember, UpdateMark,
      SenderInfo, GetMembers, Push, Select, Attachments, OwnRows, LastMessage, CountUnread,
      AddMember, Leave, Steps, TxSteps
  <2> DEFINE others == {r \in InFlight : Body[r].by = Body[q].by}
  <2>3. crossed' = crossed \cup others \cup (IF others = {} THEN {} ELSE {q})
    BY <2>2 DEF Receive
  <2>4. CASE a = q
    <3>1. b \in others
      BY <1>1, <1>2, <1>3, <2>4
    <3>. QED
      BY <2>3, <2>4, <3>1
  <2>5. CASE b = q
    <3>1. a \in others
      BY <1>1, <1>2, <1>3, <2>5
    <3>. QED
      BY <2>3, <3>1
  <2>. QED
    BY <2>1, <2>4, <2>5
<1>. QED
  BY <1>4, <1>5

(* What is found and answered is stored                                    *)
LEMMA FoundStep ==
  ASSUME TypeOK, StepsOfKind, StoredSends, OrderInv, NEW q \in Requests,
         Receive(q) \/ Handle(q) \/ Fails(q), NEW r \in Requests
  PROVE  found'[r] \subseteq stored' /\ (pc'[r] = "201" => r \in stored')
<1>1. stored \subseteq stored' /\ found \in [Requests -> SUBSET Requests]
  BY StoredIds, OrderTypes
<1>2. found[r] \subseteq stored /\ (pc[r] = "201" => r \in stored)
  BY DEF OrderInv
<1>3. CASE r # q
  BY <1>1, <1>2, <1>3, OthersRows, OthersReads
<1>4. CASE r = q
  <2>1. pc'[q] = "201" => q \in stored'
    <3>1. Push(q) => q \in stored
      BY DEF Push, StepsOfKind, StoredSends, AfterCommit
    <3>. QED
      BY <1>1, <3>1, NextSteps
  <2>2. CASE Select(q)
    <3>1. found'[q] \subseteq Before(q) \/ found'[q] \subseteq stored
      BY <1>1, <2>2 DEF Select, NewestPage
    <3>. QED
      BY <1>1, <1>4, <2>1, <3>1 DEF Before, InChat
  <2>3. CASE LastMessage(q)
    <3>1. found'[q] \subseteq InChat(q)
      BY <1>1, <2>3, NewestType DEF LastMessage
    <3>. QED
      BY <1>1, <1>4, <2>1, <3>1 DEF InChat
  <2>4. CASE ~Select(q) /\ ~LastMessage(q)
    <3>1. found' = found
      BY <2>4, EitherSide DEF Outside, Inside, Receive, CheckChatAccess, FindMember,
        UpdateMark, SenderInfo, GetMembers, Push, Attachments, Leave, OwnRows, CountUnread,
        Begin, ForwardedUser, InsertMessage, CreateAttachment, Commit, Rollback, AddMember,
        Fails, reading
    <3>. QED
      BY <1>1, <1>2, <1>4, <2>1, <3>1
  <2>. QED
    BY <2>2, <2>3, <2>4
<1>. QED
  BY <1>3, <1>4

(* A page, cut off at its limit, has no hole                               *)
LEMMA PageHasNoHole ==
  ASSUME TypeOK, NEW q \in Requests, NEW page \in NewestPage(Before(q)),
         NEW a \in page, NEW b \in page, NEW m \in InChat(q), Between(a, m, b)
  PROVE  m \in page
<1>1. /\ id \in [Requests -> Nat] /\ stored \subseteq Requests
      /\ Before(q) \subseteq InChat(q) /\ InChat(q) \subseteq Requests
      /\ \A n \in Requests : id[n] \in Nat
  BY OrderTypes DEF Before, InChat
<1>2. /\ page = {k \in Before(q) :
                   Cardinality({n \in Before(q) : id[n] > id[k]}) < Limit}
      /\ a \in Before(q) /\ b \in Before(q)
  BY DEF NewestPage
<1> DEFINE above(k) == {n \in Before(q) : id[n] > id[k]}
<1>3. m \in Before(q)
  <2>1. id[m] < id[b]
    BY DEF Between
  <2>2. CASE Body[q].about = NoRequest
    BY <2>2 DEF Before
  <2>3. CASE Body[q].about # NoRequest
    <3>1. Body[q].about \in Requests
      BY <2>3, BodyType
    <3>2. id[b] < id[Body[q].about]
      BY <1>2, <2>3 DEF Before
    <3>3. id[m] < id[Body[q].about]
      BY <1>1, <1>2, <2>1, <3>1, <3>2
    <3>. QED
      BY <2>3, <3>3 DEF Before
  <2>. QED
    BY <2>2, <2>3
<1>4. above(m) \subseteq above(a)
  BY <1>1, <1>2, <1>3 DEF Between
<1>5. /\ IsFiniteSet(above(a)) /\ Cardinality(above(a)) \in Nat
      /\ Cardinality(above(m)) \in Nat
  <2>1. above(a) \subseteq Requests /\ above(m) \subseteq Requests
    BY <1>1
  <2>. QED
    BY <2>1, RequestsFinite
<1>6. Cardinality(above(m)) <= Cardinality(above(a))
  BY <1>4, <1>5, FS_Subset
<1>7. Cardinality(above(a)) < Limit
  BY <1>2
<1>8. Cardinality(above(m)) < Limit
  BY <1>5, <1>6, <1>7, MessagesAssumption
<1>. QED
  BY <1>2, <1>3, <1>8

(* A page that has been read                                               *)
LEMMA PageKept ==
  ASSUME TypeOK, StepsOfKind, StoredSends, IdsCounted, NEW p \in Requests, PageWhole(p),
         found[p] \subseteq stored,
         NEW q \in Requests, Receive(q) \/ Handle(q) \/ Fails(q), found'[p] = found[p],
         pc'[p] \in {"attachments", "200"} => pc[p] \in {"attachments", "200"}
  PROVE  PageWhole(p)'
<1>1. /\ stored \subseteq stored' /\ overtaken \subseteq overtaken'
      /\ \A m \in stored : id'[m] = id[m]
  BY StoredIds, HistoryGrows
<1>2. /\ id \in [Requests -> Nat] /\ lastId \in Nat /\ stored \subseteq Requests
      /\ \A m \in Requests : id[m] \in Nat
  BY OrderTypes
<1>3. SUFFICES ASSUME Body[p].kind = "page", pc'[p] \in {"attachments", "200"}
               PROVE  /\ found[p] \subseteq InChat(p)'
                      /\ \A a, b \in found[p], m \in Requests :
                           Body[m].chat = Body[p].chat /\ Between(a, m, b)' =>
                             m \in found[p] \cup overtaken'
  BY DEF PageWhole
<1>4. found[p] \subseteq InChat(p)'
  BY <1>1, <1>3 DEF PageWhole, InChat
<1>5. ASSUME NEW a \in found[p], NEW b \in found[p], NEW m \in Requests,
             Body[m].chat = Body[p].chat, Between(a, m, b)'
      PROVE  m \in found[p] \cup overtaken'
  <2>1. /\ a \in stored /\ b \in stored /\ id'[a] = id[a] /\ id'[b] = id[b]
        /\ a \in Requests /\ b \in Requests
    BY <1>1, <1>2
  <2>2. id'[m] \in {id[m], 0, lastId + 1} /\ id[b] <= lastId
    BY <1>2, <2>1, IdSteps DEF IdsCounted
  <2>3. id[a] < id'[m] /\ id'[m] < id[b]
    BY <1>5, <2>1 DEF Between
  <2>4. id'[m] = id[m]
    BY <1>2, <2>1, <2>2, <2>3
  <2>5. Between(a, m, b)
    BY <2>3, <2>4 DEF Between
  <2>. QED
    BY <1>1, <1>3, <1>5, <2>5 DEF PageWhole
<1>. QED
  BY <1>4, <1>5

LEMMA PageWholeStep ==
  ASSUME TypeOK, StepsOfKind, StoredSends, OrderInv, NEW q \in Requests,
         Receive(q) \/ Handle(q) \/ Fails(q), NEW p \in Requests
  PROVE  PageWhole(p)'
<1>1. /\ PageWhole(p) /\ found[p] \subseteq stored /\ IdsCounted /\ CommitsInOrder
      /\ found \in [Requests -> SUBSET Requests] /\ pc \in [Requests -> PcTypes]
      /\ stored \subseteq Requests
  BY OrderTypes DEF OrderInv
<1>2. CASE p # q
  BY <1>1, <1>2, OthersRows, OthersReads, PageKept
<1>3. CASE p = q /\ Body[q].kind = "page"
  <2>1. CASE Select(q)
    <3>1. PICK page \in NewestPage(Before(q)) : found'[q] = page
      BY <1>1, <1>3, <2>1 DEF Select
    <3>2. UNCHANGED <<id, stored, overtaken>>
      BY <2>1 DEF Select, rows, Quiet, history
    <3>3. page \subseteq InChat(q)
      BY DEF NewestPage, Before
    <3>4. ASSUME NEW a \in page, NEW b \in page, NEW m \in Requests,
                 Body[m].chat = Body[q].chat, Between(a, m, b)
          PROVE  m \in page \cup overtaken
      <4>1. b \in stored /\ Body[b].chat = Body[m].chat /\ a \in Requests
        BY <1>1, <3>3, <3>4 DEF InChat
      <4>2. 0 < id[m] /\ id[m] < id[b]
        BY <3>4, <4>1, OrderTypes DEF Between
      <4>3. m \in stored \cup overtaken
        BY <1>1, <4>1, <4>2 DEF CommitsInOrder
      <4>4. CASE m \in stored
        <5>1. m \in InChat(q)
          BY <3>4, <4>4 DEF InChat
        <5>. QED
          BY <3>4, <5>1, PageHasNoHole
      <4>. QED
        BY <4>3, <4>4
    <3>5. \A a, b, m : Between(a, m, b)' <=> Between(a, m, b)
      BY <3>2 DEF Between
    <3>6. InChat(q)' = InChat(q)
      BY <3>2 DEF InChat
    <3>. QED
      BY <1>3, <3>1, <3>2, <3>3, <3>4, <3>5, <3>6 DEF PageWhole
  <2>2. CASE Attachments(q)
    <3>1. pc[q] = "attachments" /\ found' = found
      BY <2>2 DEF Attachments, reading
    <3>. QED
      BY <1>1, <1>3, <3>1, PageKept
  <2>3. CASE ~Select(q) /\ ~Attachments(q)
    <3>1. ~CountUnread(q)
      BY <1>3 DEF CountUnread, StepsOfKind
    <3>2. pc'[q] \notin {"attachments", "200"}
      BY <1>3, <2>3, <3>1, NextSteps
    <3>. QED
      BY <1>3, <3>2 DEF PageWhole
  <2>. QED
    BY <2>1, <2>2, <2>3
<1>4. CASE p = q /\ Body[q].kind # "page"
  BY <1>4 DEF PageWhole
<1>. QED
  BY <1>2, <1>3, <1>4

-----------------------------------------------------------------------------
(* Marks                                                                   *)

LEMMA TargetsStep ==
  ASSUME TypeOK, StepsOfKind, StoredSends, ToldInv, OrderInv, NEW q \in Requests,
         Receive(q) \/ Handle(q) \/ Fails(q), NEW r \in Requests
  PROVE  Targets(r)'
<1>1. /\ Targets(r) /\ target \in [Requests -> Nat] /\ pc \in [Requests -> PcTypes]
      /\ stored \subseteq Requests
  BY OrderTypes DEF OrderInv
<1>2. /\ stored \subseteq stored' /\ \A m \in stored : id'[m] = id[m]
      /\ InChat(r) \subseteq InChat(r)' /\ InChat(r) \subseteq stored
      /\ Got(Body[r].by) \subseteq Got(Body[r].by)'
  BY StoredIds, RequestGot DEF InChat
<1>3. SUFFICES ASSUME pc'[r] \in {"find_member", "update_mark"} PROVE Targets(r)'
  BY DEF Targets
<1>4. CASE pc[r] \in {"find_member", "update_mark"} /\ target'[r] = target[r]
  <2>1. CASE Body[r].kind = "send"
    <3>1. r \in stored
      BY <1>4, <2>1 DEF StoredSends, AfterCommit
    <3>. QED
      BY <1>1, <1>2, <1>4, <2>1, <3>1 DEF Targets
  <2>2. CASE Body[r].kind # "send"
    <3>1. PICK m \in Got(Body[r].by) \cap InChat(r) : id[m] = target[r]
      BY <1>1, <1>4, <2>2 DEF Targets
    <3>2. m \in Got(Body[r].by)' \cap InChat(r)' /\ id'[m] = target'[r]
      BY <1>2, <1>4, <3>1
    <3>. QED
      BY <2>2, <3>2 DEF Targets
  <2>. QED
    BY <2>1, <2>2
<1>5. CASE r # q
  BY <1>3, <1>4, <1>5, OthersRows, OthersTargets
<1>6. CASE r = q
  <2>1. FindMember(q) \/ Commit(q) \/ (Receive(q) /\ Body[q].kind = "read")
    BY <1>3, <1>6, NextSteps
  <2>2. CASE FindMember(q)
    <3>1. pc[q] = "find_member" /\ target' = target
      BY <2>2 DEF FindMember, reading
    <3>. QED
      BY <1>4, <1>6, <3>1
  <2>3. CASE Commit(q)
    <3>1. target'[q] = id[q] /\ id' = id
      BY <1>1, <2>3 DEF Commit
    <3>2. Body[q].kind = "send"
      BY <2>3 DEF Commit, StepsOfKind, TxSteps
    <3>. QED
      BY <1>6, <3>1, <3>2 DEF Targets
  <2>4. CASE Receive(q) /\ Body[q].kind = "read"
    <3>1. PICK m \in ReadMessages(q) : target'[q] = id[m]
      BY <1>1, <2>4 DEF Receive
    <3>2. m \in Got(Body[q].by) /\ Body[m].chat = Body[q].chat
      BY <3>1, NewestType DEF ReadMessages
    <3>3. m \in InChat(q) /\ id'[m] = id[m]
      BY <1>2, <3>2, GotStored DEF InChat
    <3>. QED
      BY <1>2, <1>6, <2>4, <3>1, <3>2, <3>3 DEF Targets
  <2>. QED
    BY <2>1, <2>2, <2>3, <2>4
<1>. QED
  BY <1>5, <1>6

LEMMA MarkedStep ==
  ASSUME TypeOK, StepsOfKind, StoredSends, OrderInv, NEW q \in Requests,
         Receive(q) \/ Handle(q) \/ Fails(q), NEW c \in Chats, NEW u \in Users
  PROVE  Marked(c, u)'
<1>1. /\ stored \subseteq stored' /\ \A m \in stored : id'[m] = id[m]
      /\ Got(u) \subseteq Got(u)'
  BY StoredIds, RequestGot
<1>2. CASE mark'[c][u] = mark[c][u]
  BY <1>1, <1>2 DEF OrderInv, Marked
<1>3. CASE mark'[c][u] # mark[c][u]
  <2>1. /\ c = Body[q].chat /\ u = Body[q].by
        /\ (UpdateMark(q) /\ mark'[c][u] = target[q]) \/ mark'[c][u] = 0
    BY <1>3, MarkSteps
  <2>2. CASE UpdateMark(q) /\ mark'[c][u] = target[q]
    <3>1. pc[q] = "update_mark" /\ Targets(q)
      BY <2>2 DEF UpdateMark, OrderInv
    <3>2. CASE Body[q].kind = "send"
      <4>1. q \in stored /\ target[q] = id[q]
        BY <3>1, <3>2 DEF StoredSends, AfterCommit, Targets
      <4>. QED
        BY <1>1, <2>1, <2>2, <4>1 DEF Marked
    <3>3. CASE Body[q].kind # "send"
      <4>1. PICK m \in Got(u) \cap InChat(q) : id[m] = target[q]
        BY <2>1, <3>1, <3>3 DEF Targets
      <4>2. m \in stored' /\ Body[m].chat = c /\ id'[m] = mark'[c][u] /\ m \in Got(u)'
        BY <1>1, <2>1, <2>2, <4>1 DEF InChat
      <4>. QED
        BY <4>2 DEF Marked
    <3>. QED
      BY <3>2, <3>3
  <2>3. CASE mark'[c][u] = 0
    BY <2>3 DEF Marked
  <2>. QED
    BY <2>1, <2>2, <2>3
<1>. QED
  BY <1>2, <1>3

(* Only a request that has crossed meets a change of its user's mark       *)
LEMMA MarkKept ==
  ASSUME TypeOK, CrossedSeen, NEW q \in Requests, Receive(q) \/ Handle(q) \/ Fails(q),
         NEW r \in InFlight, r # q, r \notin crossed
  PROVE  mark'[Body[r].chat][Body[r].by] = mark[Body[r].chat][Body[r].by]
<1>1. r \in Requests /\ Body[r].chat \in Chats /\ Body[r].by \in Users
  BY BodyType DEF InFlight
<1>2. SUFFICES ASSUME mark'[Body[r].chat][Body[r].by] # mark[Body[r].chat][Body[r].by]
               PROVE  FALSE
  OBVIOUS
<1>3. Body[r].by = Body[q].by /\ pc[q] \in {"update_mark", "delete"}
  BY <1>1, <1>2, MarkSteps
<1>4. q \in InFlight
  BY <1>3 DEF InFlight, Steps
<1>. QED
  BY <1>3, <1>4 DEF CrossedSeen

(* What a user has sent and not got is still under way, or ended in an     *)
(* error.                                                                  *)
LEMMA SentNotGot ==
  ASSUME StoredSends, TypeOK, NEW m \in stored, m \notin Got(Body[m].by)
  PROVE  m \in InFlight \/ pc[m] \in {"500", "lost"}
<1>1. m \in Requests /\ pc[m] \in AfterCommit
  BY DEF TypeOK, StoredSends
<1>2. pc[m] # "201"
  BY <1>1 DEF Got
<1>. QED
  BY <1>1, <1>2 DEF InFlight, Steps, AfterCommit

(* A read request that is alone names a message no older than the mark     *)
LEMMA ReceiveApart ==
  ASSUME TypeOK, StoredSends, ToldInv, OrderInv, NEW q \in Requests, Receive(q),
         Body[q].kind = "read", q \notin crossed'
  PROVE  mark[Body[q].chat][Body[q].by] <= target'[q] \/ MarkOfError(q)
<1> DEFINE u == Body[q].by
           c == Body[q].chat
           others == {r \in InFlight : Body[r].by = Body[q].by}
<1>1. /\ target \in [Requests -> Nat] /\ id \in [Requests -> Nat] /\ stored \subseteq Requests
      /\ u \in Users /\ c \in Chats /\ mark[c][u] \in Nat
  BY OrderTypes, BodyType
<1>2. others = {}
  BY DEF Receive
<1>3. PICK n \in ReadMessages(q) : target' = [target EXCEPT ![q] = id[n]]
  BY DEF Receive
<1>4. /\ n \in Got(u) /\ n \in stored
      /\ \A k \in Got(u) : Body[k].chat = c => id[k] <= id[n]
  BY <1>3, GotStored DEF ReadMessages, Newest
<1>5. target'[q] = id[n] /\ id[n] \in Nat
  BY <1>1, <1>3, <1>4
<1>6. CASE mark[c][u] = 0
  BY <1>5, <1>6
<1>7. CASE mark[c][u] # 0
  <2>1. Marked(c, u)
    BY <1>1 DEF OrderInv
  <2>2. PICK m \in stored : /\ Body[m].chat = c /\ id[m] = mark[c][u]
                            /\ m \in Got(u) \/ Body[m].by = u
    BY <1>7, <2>1 DEF Marked
  <2>3. CASE m \in Got(u)
    BY <1>4, <1>5, <2>2, <2>3
  <2>4. CASE m \notin Got(u)
    <3>1. m \in InFlight \/ pc[m] \in {"500", "lost"}
      BY <2>2, <2>4, SentNotGot
    <3>2. m \notin InFlight
      BY <1>2, <2>2, <2>4
    <3>. QED
      BY <2>2, <2>4, <3>1, <3>2 DEF MarkOfError
  <2>. QED
    BY <2>3, <2>4
<1>. QED
  BY <1>6, <1>7

LEMMA MarkCounted ==
  ASSUME TypeOK, OrderInv, NEW c \in Chats, NEW u \in Users
  PROVE  mark[c][u] <= lastId
<1>1. Marked(c, u) /\ \A m \in stored : id[m] <= lastId
  BY OrderTypes DEF OrderInv, IdsCounted
<1>. QED
  BY <1>1, OrderTypes DEF Marked

LEMMA ApartStep ==
  ASSUME TypeOK, StepsOfKind, StoredSends, ToldInv, OrderInv, NEW q \in Requests,
         Receive(q) \/ Handle(q) \/ Fails(q), NEW r \in Requests
  PROVE  Apart(r)'
<1> DEFINE now == mark[Body[r].chat][Body[r].by]
<1>1. /\ Apart(r) /\ CrossedSeen /\ target \in [Requests -> Nat] /\ pc \in [Requests -> PcTypes]
      /\ id \in [Requests -> Nat] /\ lastId \in Nat /\ stored \subseteq Requests
      /\ now \in Nat /\ now <= lastId
  BY OrderTypes, BodyType, MarkCounted DEF OrderInv
<1>2. /\ stored \subseteq stored' /\ \A m \in stored : id'[m] = id[m]
      /\ crossed \subseteq crossed'
  BY StoredIds, HistoryGrows
<1>3. SUFFICES ASSUME r \notin crossed'
               PROVE  /\ pc'[r] \in {"attach", "commit"} => now' < id'[r]
                      /\ pc'[r] \in {"find_member", "update_mark"} =>
                           now' <= target'[r] \/ MarkOfError(r)'
  BY DEF Apart
<1>4. r \notin crossed
  BY <1>2, <1>3
<1>5. now' = now /\ MarkOfError(r) => MarkOfError(r)'
  <2>1. \A m \in stored : pc[m] \in {"500", "lost"} => pc'[m] = pc[m]
    <3>1. ASSUME NEW m \in stored, pc[m] \in {"500", "lost"} PROVE m # q
      BY <3>1, OnlyUnderWay DEF Steps, TxSteps
    <3>. QED
      BY <1>1, <3>1, OthersRows
  <2>. QED
    BY <1>2, <2>1 DEF MarkOfError
<1>6. CASE r # q
  <2>1. pc'[r] = pc[r] /\ id'[r] = id[r] /\ target'[r] = target[r]
    BY <1>6, OthersRows, OthersTargets
  <2>2. CASE pc[r] \in {"attach", "commit", "find_member", "update_mark"}
    <3>1. r \in InFlight
      BY <2>2 DEF InFlight, Steps, TxSteps
    <3>2. now' = now
      BY <1>1, <1>4, <1>6, <3>1, MarkKept
    <3>. QED
      BY <1>1, <1>4, <1>5, <2>1, <3>2 DEF Apart
  <2>. QED
    BY <2>1, <2>2
<1>7. CASE r = q
  <2>1. \/ pc'[q] \notin {"attach", "commit", "find_member", "update_mark"}
        \/ InsertMessage(q) \/ CreateAttachment(q) \/ Commit(q) \/ FindMember(q)
        \/ Receive(q) /\ Body[q].kind = "read"
    BY NextSteps
  <2>2. CASE InsertMessage(q)
    <3>1. pc'[q] \in {"attach", "commit", "rollback"} /\ mark' = mark
      BY <1>1, <2>2 DEF InsertMessage, AfterInsert, Goto
    <3>2. pc'[q] # "rollback" => id'[q] = lastId + 1
      BY <1>1, <2>2 DEF InsertMessage, Goto
    <3>. QED
      BY <1>1, <1>7, <3>1, <3>2
  <2>3. CASE CreateAttachment(q)
    <3>1. /\ pc'[q] \in {"attach", "commit"} /\ pc[q] = "attach"
          /\ mark' = mark /\ id' = id
      BY <1>1, <2>3 DEF CreateAttachment, AfterInsert, Goto
    <3>. QED
      BY <1>1, <1>4, <1>7, <3>1 DEF Apart
  <2>4. CASE Commit(q)
    <3>1. pc'[q] = "find_member" /\ pc[q] = "commit" /\ mark' = mark /\ target'[q] = id[q]
      BY <1>1, <2>4 DEF Commit, Goto
    <3>. QED
      BY <1>1, <1>4, <1>7, <3>1 DEF Apart
  <2>5. CASE FindMember(q)
    <3>1. pc[q] = "find_member" /\ mark' = mark /\ target' = target
      BY <2>5 DEF FindMember, rows, reading
    <3>2. pc'[q] \notin {"attach", "commit"}
      BY <1>1, <2>5 DEF FindMember, MarkDone, Goto
    <3>. QED
      BY <1>1, <1>4, <1>5, <1>7, <3>1, <3>2 DEF Apart
  <2>6. CASE Receive(q) /\ Body[q].kind = "read"
    <3>1. mark' = mark /\ pc'[q] \notin {"attach", "commit"}
      BY <1>1, <2>6, FirstStepType DEF Receive, Goto, rows
    <3>2. now <= target'[q] \/ MarkOfError(q)
      BY <1>3, <1>7, <2>6, ReceiveApart
    <3>. QED
      BY <1>5, <1>7, <3>1, <3>2
  <2>. QED
    BY <1>7, <2>1, <2>2, <2>3, <2>4, <2>5, <2>6
<1>. QED
  BY <1>6, <1>7

LEMMA RequestOrder ==
  ASSUME ChatInv, OrderInv, NEW q \in Requests, Receive(q) \/ Handle(q) \/ Fails(q)
  PROVE  OrderInv'
<1>1. ChatInv' /\ TypeOK /\ StepsOfKind /\ HeldInTx /\ StoredSends /\ ToldInv
  BY RequestChatInv DEF ChatInv
<1>2. IdsCounted /\ CommitsInOrder /\ CrossedSeen
  BY DEF OrderInv
<1>3. IdsCounted' /\ CommitsInOrder' /\ CrossedSeen'
  BY <1>1, <1>2, IdsCountedStep, CommitsInOrderStep, CrossedSeenStep DEF ChatInv
<1>4. \A r \in Requests :
        /\ found'[r] \subseteq stored' /\ (pc'[r] = "201" => r \in stored')
        /\ PageWhole(r)' /\ Targets(r)' /\ Apart(r)'
  BY <1>1, FoundStep, PageWholeStep, TargetsStep, ApartStep
<1>5. \A c \in Chats, u \in Users : Marked(c, u)'
  BY <1>1, MarkedStep
<1>. QED
  BY <1>3, <1>4, <1>5 DEF OrderInv

LEMMA CrashOrder ==
  ASSUME ChatInv, OrderInv, Crash
  PROVE  OrderInv'
<1>1. /\ \A q \in Requests : pc'[q] = IF pc[q] \in Steps THEN "lost" ELSE pc[q]
      /\ \A q \in Requests : id'[q] = IF q \in held THEN 0 ELSE id[q]
      /\ UNCHANGED <<members, mark, lastId, stored, target, found, told, overtaken, crossed>>
      /\ held' = {}
  BY DEF Crash, reading, pushing, history
<1>2. /\ \A q \in Requests : q \in held => q \notin stored
      /\ stored \subseteq Requests
      /\ \A m \in stored : id'[m] = id[m]
  BY <1>1 DEF ChatInv, HeldInTx, StoredSends, TxSteps, AfterCommit, TypeOK
<1>3. /\ id \in [Requests -> Nat] /\ lastId \in Nat /\ \A m \in Requests : id[m] \in Nat
  BY OrderTypes DEF ChatInv
<1>4. IdsCounted'
  BY <1>1, <1>2, <1>3 DEF OrderInv, IdsCounted
<1>5. CommitsInOrder'
  BY <1>1, <1>2, <1>3 DEF OrderInv, CommitsInOrder
<1>6. InFlight' = {}
  BY <1>1 DEF InFlight, Steps, TxSteps
<1>7. CrossedSeen'
  BY <1>6 DEF CrossedSeen
<1>8. \A u : Got(u) \subseteq Got(u)'
  BY <1>1, GotGrows DEF Steps, TxSteps
<1>9. ASSUME NEW q \in Requests
      PROVE  /\ found'[q] \subseteq stored' /\ (pc'[q] = "201" => q \in stored')
             /\ PageWhole(q)' /\ Targets(q)' /\ Apart(q)'
  <2>1. found'[q] \subseteq stored' /\ (pc'[q] = "201" => q \in stored')
    BY <1>1 DEF OrderInv
  <2>2. pc'[q] \notin Steps /\ (pc'[q] = "200" => pc[q] = "200")
    BY <1>1 DEF Steps, TxSteps
  <2>3. Targets(q)' /\ Apart(q)'
    BY <2>2 DEF Targets, Apart, Steps, TxSteps
  <2>4. PageWhole(q)'
    <3>1. SUFFICES ASSUME Body[q].kind = "page", pc[q] = "200"
                   PROVE  /\ found[q] \subseteq InChat(q)'
                          /\ \A a, b \in found[q], m \in Requests :
                               Body[m].chat = Body[q].chat /\ Between(a, m, b)' =>
                                 m \in found[q] \cup overtaken
      BY <1>1, <2>2 DEF PageWhole, Steps
    <3>2. PageWhole(q) /\ found[q] \subseteq stored
      BY DEF OrderInv
    <3>3. \A a, b \in found[q], m \in Requests : Between(a, m, b)' => Between(a, m, b)
      BY <1>1, <1>2, <1>3, <3>2 DEF Between
    <3>4. InChat(q)' = InChat(q)
      BY <1>1 DEF InChat
    <3>. QED
      BY <3>1, <3>2, <3>3, <3>4 DEF PageWhole
  <2>. QED
    BY <2>1, <2>3, <2>4
<1>10. ASSUME NEW c \in Chats, NEW u \in Users PROVE Marked(c, u)'
  <2>1. Marked(c, u)
    BY DEF OrderInv
  <2>. QED
    BY <1>1, <1>2, <1>8, <2>1 DEF Marked
<1>. QED
  BY <1>4, <1>5, <1>7, <1>9, <1>10 DEF OrderInv

LEMMA StartUpOrder ==
  ASSUME OrderInv, Storage \/ UNCHANGED vars
  PROVE  OrderInv'
<1>1. UNCHANGED <<rows, reading, pushing, pc, history>>
  BY DEF Storage, Plain, vars
<1>2. UNCHANGED <<mark, lastId, id, stored, held, target, found, told, pc, overtaken, crossed>>
  BY <1>1 DEF rows, reading, pushing, history
<1>3. /\ InFlight' = InFlight /\ \A u : Got(u)' = Got(u)
      /\ \A q : InChat(q)' = InChat(q)
  BY <1>2 DEF InFlight, Got, InChat
<1>. QED
  BY <1>2, <1>3 DEF OrderInv, IdsCounted, CommitsInOrder, CrossedSeen, PageWhole, Between,
    Targets, Apart, MarkOfError, Marked

LEMMA InitOrder == Init => OrderInv
<1>1. ASSUME Init PROVE OrderInv
  <2>1. /\ \A q \in Requests : pc[q] \in {"new", "never"} /\ id[q] = 0 /\ found[q] = {}
        /\ stored = {} /\ lastId = 0
        /\ \A c \in Chats, u \in Users : mark[c][u] = 0
    BY <1>1 DEF Init, Zero
  <2>2. IdsCounted /\ CommitsInOrder
    BY <2>1 DEF IdsCounted, CommitsInOrder
  <2>3. InFlight = {}
    BY <2>1 DEF InFlight, Steps, TxSteps
  <2>4. CrossedSeen
    BY <2>3 DEF CrossedSeen
  <2>5. \A q \in Requests : PageWhole(q) /\ Targets(q) /\ Apart(q)
    BY <2>1 DEF PageWhole, Targets, Apart
  <2>. QED
    BY <2>1, <2>2, <2>4, <2>5 DEF OrderInv, Marked
<1>. QED
  BY <1>1

LEMMA NextOrder == ChatInv /\ OrderInv /\ [Next]_vars => OrderInv'
BY RequestOrder, CrashOrder, StartUpOrder DEF Next

LEMMA OrderInvariance == Spec => [](ChatInv /\ OrderInv)
BY InitChatInv, NextChatInv, InitOrder, NextOrder, PTL DEF Spec

-----------------------------------------------------------------------------
(* What a read request marks as read, its user has got, or its push is     *)
(* still to come or was lost, or it was stored when he was added; and no   *)
(* page he has got spans it, unless it was committed out of order.         *)
THEOREM ReadIsGot == Spec => []ReadMeansGot
<1>1. ASSUME ChatInv, OrderInv, NEW q \in Requests, NEW m \in InChat(q) \ Got(Body[q].by)
      PROVE  /\ Body[q].by \in Online \cap members[Body[q].chat] =>
                  \/ pc[m] \in Steps \cup {"500", "lost"}
                  \/ m \in earlier[Body[q].chat][Body[q].by]
             /\ \A p \in Pages(Body[q].by) : Body[p].chat = Body[q].chat =>
                  \A a, b \in found[p] : Between(a, m, b) => m \in overtaken
  <2> DEFINE u == Body[q].by
  <2>1. /\ m \in stored /\ Body[m].chat = Body[q].chat /\ m \in Requests
        /\ Body[m].kind = "send" /\ pc[m] \in AfterCommit
    BY <1>1 DEF ChatInv, TypeOK, InChat, StoredSends
  <2>2. ASSUME u \in Online \cap members[Body[q].chat], pc[m] = "201",
               m \notin earlier[Body[q].chat][u]
        PROVE  FALSE
    <3>1. CASE Body[m].by = u
      BY <1>1, <2>1, <2>2, <3>1 DEF Got
    <3>2. CASE Body[m].by # u
      <4>1. u \in members[Body[m].chat] \ {Body[m].by}
        BY <2>1, <2>2, <3>2
      <4>2. <<m, u>> \in told
        BY <1>1, <2>1, <2>2, <4>1 DEF ChatInv, ToldInv, AllTold
      <4>. QED
        BY <1>1, <2>1, <2>2, <4>2 DEF Got
    <3>. QED
      BY <3>1, <3>2
  <2>3. pc[m] # "201" => pc[m] \in Steps \cup {"500", "lost"}
    BY <2>1 DEF AfterCommit, Steps
  <2>4. ASSUME NEW p \in Pages(u), Body[p].chat = Body[q].chat, NEW a \in found[p],
               NEW b \in found[p], Between(a, m, b)
        PROVE  m \in overtaken
    <3>1. p \in Requests /\ Body[p].kind = "page" /\ Body[p].by = u /\ pc[p] = "200"
      BY <2>4 DEF Pages
    <3>2. m \in found[p] \cup overtaken
      BY <1>1, <2>1, <2>4, <3>1 DEF OrderInv, PageWhole
    <3>3. m \in found[p] => m \in Got(u)
      BY <3>1 DEF Got
    <3>. QED
      BY <1>1, <3>2, <3>3
  <2>. QED
    BY <2>2, <2>3, <2>4
<1>2. ChatInv /\ OrderInv => ReadMeansGot
  BY <1>1 DEF ReadMeansGot
<1>. QED
  BY <1>2, OrderInvariance, PTL

(* A user's mark moves back only by a request that overlapped another of   *)
(* his, or from a message that he was not answered.                        *)
THEOREM MarksMoveBackByOverlapOnly == Spec => MarkMovesBackOnlyByOverlap
<1> DEFINE Excused(c, u) ==
  \/ \E q \in crossed : Body[q].by = u /\ pc[q] = "update_mark" /\ pc'[q] # "update_mark"
  \/ \E q \in Sent : Body[q].by = u /\ id[q] = mark[c][u] /\ pc[q] \in {"500", "lost"}
<1>1. ASSUME ChatInv, OrderInv, [Next]_vars, NEW c \in Chats, NEW u \in Users,
             u \in members'[c], mark'[c][u] < mark[c][u]
      PROVE  Excused(c, u)
  <2>1. TypeOK /\ mark[c][u] \in Nat /\ pc \in [Requests -> PcTypes]
        /\ target \in [Requests -> Nat] /\ stored \subseteq Requests
    BY <1>1, OrderTypes DEF ChatInv
  <2>2. mark'[c][u] # mark[c][u]
    BY <1>1, <2>1
  <2>3. PICK q \in Requests : Receive(q) \/ Handle(q) \/ Fails(q)
    <3>1. ~Crash /\ ~Storage /\ ~UNCHANGED vars
      BY <2>2 DEF Crash, Storage, Plain, rows, vars
    <3>. QED
      BY <1>1, <3>1 DEF Next
  <2>4. /\ c = Body[q].chat /\ u = Body[q].by
        /\ \/ UpdateMark(q) /\ mark'[c][u] = target[q]
           \/ Leave(q) /\ mark'[c][u] = 0
    BY <2>1, <2>2, <2>3, MarkSteps
  <2>5. ~Leave(q)
    <3>1. ASSUME Leave(q) PROVE FALSE
      <4>1. members'[c] = members[c] \ {u}
        BY <2>1, <2>4, <3>1 DEF Leave, TypeOK
      <4>. QED
        BY <1>1, <4>1
    <3>. QED
      BY <3>1
  <2>6. UpdateMark(q) /\ mark'[c][u] = target[q] /\ pc[q] = "update_mark"
    BY <2>4, <2>5 DEF UpdateMark
  <2>7. pc'[q] # "update_mark"
    BY <2>1, <2>6 DEF UpdateMark, MarkDone, Goto
  <2>8. CASE q \in crossed
    BY <2>4, <2>6, <2>7, <2>8
  <2>9. CASE q \notin crossed
    <3>1. mark[c][u] <= target[q] \/ MarkOfError(q)
      BY <1>1, <2>4, <2>6, <2>9 DEF OrderInv, Apart
    <3>2. target[q] \in Nat /\ ~(mark[c][u] <= target[q])
      BY <1>1, <2>1, <2>6
    <3>3. PICK m \in stored : /\ Body[m].by = u /\ id[m] = mark[c][u]
                              /\ pc[m] \in {"500", "lost"}
      BY <2>4, <3>1, <3>2 DEF MarkOfError
    <3>4. m \in Sent
      BY <1>1, <2>1 DEF ChatInv, StoredSends, Sent
    <3>. QED
      BY <3>3, <3>4
  <2>. QED
    BY <2>8, <2>9
<1>2. ASSUME ChatInv, OrderInv, [Next]_vars
      PROVE  \A c \in Chats, u \in Users :
               u \in members'[c] /\ mark'[c][u] < mark[c][u] => Excused(c, u)
  BY <1>1, <1>2
<1>3. ChatInv /\ OrderInv /\ [Next]_vars =>
        [\A c \in Chats, u \in Users :
           u \in members'[c] /\ mark'[c][u] < mark[c][u] => Excused(c, u)]_vars
  BY <1>2
<1>. QED
  BY <1>3, OrderInvariance, PTL DEF Spec, MarkMovesBackOnlyByOverlap
=============================================================================
