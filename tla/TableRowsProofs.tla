-------------------------- MODULE TableRowsProofs ---------------------------
(***************************************************************************)
(* Proofs about TableRows, for any rows, requests, faults and stops.       *)
(***************************************************************************)
EXTENDS TableRows, TLAPS

(***************************************************************************)
(* The strengthening.  An object that a request will write carries the     *)
(* columns the request names, with its values; a lock is that of a         *)
(* transaction about to commit a change of a row that is there, or a new   *)
(* row.                                                                    *)
(***************************************************************************)
Objects ==
  \A q \in Requests :
    pc[q] # "new" => /\ object[q].dirty = q.sets
                     /\ \A c \in q.sets : object[q].values[c] = q

Locks ==
  \A r \in Rows :
    lock[r] \in Requests =>
      /\ pc[lock[r]] = "commit"
      /\ lock[r].row = r
      /\ lock[r].kind = "add_member" <=> r \notin exists

Inserts ==
  \A q \in Requests :
    q.kind = "add_member" /\ pc[q] = "commit" => lock[q.row] = q

TableInv == TypeOK /\ Objects /\ Locks /\ Inserts

-----------------------------------------------------------------------------
LEMMA SetType ==
  ASSUME NEW o \in Object, o.dirty = {}, NEW q \in Requests
  PROVE  /\ Set(o, q.sets, q) \in Object
         /\ Set(o, q.sets, q).dirty = q.sets
         /\ \A c \in q.sets : Set(o, q.sets, q).values[c] = q
<1>1. q.sets \in SUBSET Columns
  BY TableAssumption DEF Request
<1>2. [c \in Columns |-> IF c \in q.sets THEN q ELSE o.values[c]]
        \in RowContents
  BY DEF Object, RowContents, Values
<1>. QED
  BY <1>1, <1>2 DEF Set, Object

LEMMA RowType ==
  ASSUME NEW q \in Requests
  PROVE  q.row \in Rows
BY TableAssumption DEF Request

LEMMA FromRowType ==
  ASSUME NEW row \in RowContents
  PROVE  FromRow(row) \in Object /\ FromRow(row).dirty = {}
BY DEF FromRow, Object

LEMMA NewObjectType == NewObject \in Object /\ NewObject.dirty = {}
BY DEF NewObject, Object, RowContents, Values

(* What the UPDATE of a changed object writes is what the request asks for *)
LEMMA UpdatedIsFilled ==
  ASSUME NEW q \in Requests, NEW row, NEW o \in Object,
         o.dirty = q.sets, \A c \in q.sets : o.values[c] = q
  PROVE  UpdatedRow(row, o) = Store!Filled(q, row)
BY DEF UpdatedRow, UpdateColumns, UpdateArgs, Store!Filled

LEMMA InsertedIsFilled ==
  ASSUME NEW q \in Requests, NEW o \in Object,
         o.dirty = q.sets, \A c \in q.sets : o.values[c] = q
  PROVE  InsertedRow(o) = Store!Filled(q, [c \in Columns |-> Default])
<1>1. q.sets \subseteq Columns
  BY TableAssumption DEF Request
<1>. QED
  BY <1>1 DEF InsertedRow, OutputArgs, Store!Filled

LEMMA FilledType ==
  ASSUME NEW q \in Requests, NEW row \in RowContents
  PROVE  Store!Filled(q, row) \in RowContents
BY DEF Store!Filled, RowContents, Values

-----------------------------------------------------------------------------
LEMMA InitInv == Init => TableInv
<1>. SUFFICES ASSUME Init PROVE TableInv
  OBVIOUS
<1>1. TypeOK
  BY TableAssumption, NewObjectType DEF Init, TypeOK, Object
<1>2. Objects /\ Locks /\ Inserts
  BY TableAssumption DEF Init, Objects, Locks, Inserts
<1>. QED
  BY <1>1, <1>2 DEF TableInv

LEMMA ReceiveInv ==
  ASSUME TableInv, NEW q \in Requests, Receive(q)
  PROVE  TableInv'
<1>. DEFINE o == Set(NewObject, q.sets, q)
<1>1. /\ o \in Object /\ o.dirty = q.sets
      /\ \A c \in q.sets : o.values[c] = q
  BY NewObjectType, SetType
<1>2. /\ pc[q] = "new" /\ object' = [object EXCEPT ![q] = o]
      /\ \E n \in {"insert", "delete", "find", "refused"} : pc' = [pc EXCEPT ![q] = n]
      /\ UNCHANGED <<exists, table, lock, faults, crashes>>
  BY DEF Receive, Goto, FirstStep
<1>. HIDE DEF o
<1>3. TypeOK'
  BY <1>1, <1>2 DEF TableInv, TypeOK, Steps, Answers
<1>4. Objects'
  BY <1>1, <1>2 DEF TableInv, TypeOK, Objects
<1>5. Locks' /\ Inserts'
  BY <1>2 DEF TableInv, TypeOK, Locks, Inserts
<1>. QED
  BY <1>3, <1>4, <1>5 DEF TableInv

LEMMA FindInv ==
  ASSUME TableInv, NEW q \in Requests,
         NEW next \in {"update", "delete", "answer"}, Find(q, next)
  PROVE  TableInv'
<1>. DEFINE o == Set(FromRow(table[q.row]), q.sets, q)
<1>1. table[q.row] \in RowContents
  BY RowType DEF TableInv, TypeOK
<1>2. /\ o \in Object /\ o.dirty = q.sets
      /\ \A c \in q.sets : o.values[c] = q
  BY <1>1, FromRowType, SetType
<1>3. /\ pc[q] = "find"
      /\ \/ object' = [object EXCEPT ![q] = o] /\ pc' = [pc EXCEPT ![q] = next]
         \/ object' = object /\ pc' = [pc EXCEPT ![q] = "missing"]
      /\ UNCHANGED <<exists, table, lock, faults, crashes>>
  BY DEF Find, Goto
<1>. HIDE DEF o
<1>4. TypeOK'
  BY <1>2, <1>3 DEF TableInv, TypeOK, Steps, Answers
<1>5. Objects'
  BY <1>2, <1>3 DEF TableInv, TypeOK, Objects
<1>6. Locks' /\ Inserts'
  BY <1>3 DEF TableInv, TypeOK, Locks, Inserts
<1>. QED
  BY <1>4, <1>5, <1>6 DEF TableInv

(* What Write does to the table *)
LEMMA WriteFills ==
  ASSUME TableInv, NEW q \in Requests, pc[q] # "new", Write(q)
  PROVE  /\ table' = [table EXCEPT ![q.row] =
              Store!Filled(q, table[q.row])]
         /\ table' \in [Rows -> RowContents]
<1>1. table[q.row] \in RowContents
  BY RowType DEF TableInv, TypeOK
<1>2. UpdatedRow(table[q.row], object[q]) = Store!Filled(q, table[q.row])
  <2>1. object[q] \in Object
    BY DEF TableInv, TypeOK
  <2>2. /\ object[q].dirty = q.sets
        /\ \A c \in q.sets : object[q].values[c] = q
    BY DEF TableInv, Objects
  <2>. QED
    BY <2>1, <2>2, UpdatedIsFilled
<1>3. Store!Filled(q, table[q.row]) \in RowContents
  BY <1>1, FilledType
<1>. QED
  BY <1>2, <1>3 DEF Write, TableInv, TypeOK

LEMMA UpdateAtOnceInv ==
  ASSUME TableInv, NEW q \in Requests, UpdateAtOnce(q)
  PROVE  TableInv'
<1>1. table' \in [Rows -> RowContents]
  BY WriteFills DEF UpdateAtOnce, TableInv, TypeOK
<1>2. /\ pc[q] = "update" /\ pc' = [pc EXCEPT ![q] = "answer"]
      /\ UNCHANGED <<exists, object, lock, faults, crashes>>
  BY DEF UpdateAtOnce, Goto
<1>3. TypeOK'
  BY <1>1, <1>2 DEF TableInv, TypeOK, Steps, Answers
<1>4. Objects' /\ Locks' /\ Inserts'
  BY <1>2 DEF TableInv, TypeOK, Objects, Locks, Inserts
<1>. QED
  BY <1>3, <1>4 DEF TableInv

LEMMA UpdateInTxInv ==
  ASSUME TableInv, NEW q \in Requests, q.kind # "add_member", UpdateInTx(q)
  PROVE  TableInv'
<1>1. /\ pc[q] = "update" /\ pc' = [pc EXCEPT ![q] = "commit"]
      /\ \/ /\ q.row \in exists /\ lock[q.row] = NoTx
            /\ lock' = [lock EXCEPT ![q.row] = q]
         \/ lock' = lock
      /\ UNCHANGED <<exists, table, object, faults, crashes>>
  BY DEF UpdateInTx, Writable, Lock, Goto
<1>2. TypeOK'
  BY <1>1 DEF TableInv, TypeOK, Steps, Answers
<1>3. Objects'
  BY <1>1 DEF TableInv, TypeOK, Objects
<1>4. Locks'
  BY <1>1, RowType DEF TableInv, TypeOK, Locks
<1>5. Inserts'
  BY <1>1, RowType, TableAssumption DEF TableInv, TypeOK, Inserts
<1>. QED
  BY <1>2, <1>3, <1>4, <1>5 DEF TableInv

LEMMA DeleteInv ==
  ASSUME TableInv, NEW q \in Requests, Delete(q)
  PROVE  TableInv'
<1>1. /\ pc[q] = "delete" /\ pc' = [pc EXCEPT ![q] = "answer"]
      /\ q.row \in exists => lock[q.row] = NoTx
      /\ exists' = exists \ {q.row}
      /\ UNCHANGED <<table, object, lock, faults, crashes>>
  BY DEF Delete, Writable, Goto
<1>2. TypeOK'
  BY <1>1 DEF TableInv, TypeOK, Steps, Answers
<1>3. Objects' /\ Inserts'
  BY <1>1 DEF TableInv, TypeOK, Objects, Inserts
<1>4. Locks'
  BY <1>1, TableAssumption DEF TableInv, TypeOK, Locks
<1>. QED
  BY <1>2, <1>3, <1>4 DEF TableInv

LEMMA UnlockedType ==
  ASSUME TypeOK, NEW q \in Requests
  PROVE  /\ Unlocked(q) \in [Rows -> Requests \cup {NoTx}]
         /\ \A r \in Rows : Unlocked(q)[r] # q
         /\ \A r \in Rows : lock[r] # q => Unlocked(q)[r] = lock[r]
         /\ \A r \in Rows : Unlocked(q)[r] \in Requests
              => Unlocked(q)[r] = lock[r]
BY TableAssumption DEF TypeOK, Unlocked

LEMMA RollbackInv ==
  ASSUME TableInv, NEW q \in Requests, pc[q] \in Steps, Rollback(q),
         faults' \in Nat, UNCHANGED <<object, crashes>>
  PROVE  TableInv'
<1>1. /\ pc' = [pc EXCEPT ![q] = "failed"]
      /\ lock' = Unlocked(q)
      /\ UNCHANGED <<exists, table, object, crashes>>
  BY DEF Rollback, Goto
<1>2. TypeOK'
  BY <1>1, UnlockedType DEF TableInv, TypeOK, Steps, Answers
<1>3. Objects'
  BY <1>1 DEF TableInv, TypeOK, Objects, Steps
<1>4. Locks'
  BY <1>1, UnlockedType DEF TableInv, TypeOK, Locks
<1>5. Inserts'
  BY <1>1, UnlockedType, RowType DEF TableInv, TypeOK, Inserts
<1>. QED
  BY <1>2, <1>3, <1>4, <1>5 DEF TableInv

LEMMA InsertInv ==
  ASSUME TableInv, NEW q \in Requests, q.kind = "add_member", Insert(q)
  PROVE  TableInv'
<1>1. CASE q.row \in exists
  BY <1>1, RollbackInv DEF Insert, Steps, TableInv, TypeOK
<1>2. CASE q.row \notin exists
  <2>1. /\ pc[q] = "insert" /\ pc' = [pc EXCEPT ![q] = "commit"]
        /\ lock[q.row] = NoTx /\ lock' = [lock EXCEPT ![q.row] = q]
        /\ UNCHANGED <<exists, table, object, faults, crashes>>
    BY <1>2 DEF Insert, Lock, Goto
  <2>2. TypeOK'
    BY <2>1 DEF TableInv, TypeOK, Steps, Answers
  <2>3. Objects'
    BY <2>1 DEF TableInv, TypeOK, Objects
  <2>4. Locks'
    BY <1>2, <2>1 DEF TableInv, TypeOK, Locks
  <2>5. Inserts'
    BY <2>1, RowType, TableAssumption DEF TableInv, TypeOK, Inserts
  <2>. QED
    BY <2>2, <2>3, <2>4, <2>5 DEF TableInv
<1>. QED
  BY <1>1, <1>2

LEMMA CommitUpdateInv ==
  ASSUME TableInv, NEW q \in Requests, CommitUpdate(q)
  PROVE  TableInv'
<1>1. /\ pc[q] = "commit" /\ pc' = [pc EXCEPT ![q] = "answer"]
      /\ lock' = Unlocked(q)
      /\ UNCHANGED <<exists, object, faults, crashes>>
  BY DEF CommitUpdate, Goto
<1>2. table' \in [Rows -> RowContents]
  BY WriteFills DEF CommitUpdate, TableInv, TypeOK
<1>3. TypeOK'
  BY <1>1, <1>2, UnlockedType DEF TableInv, TypeOK, Steps, Answers
<1>4. Objects'
  BY <1>1 DEF TableInv, TypeOK, Objects
<1>5. Locks'
  BY <1>1, UnlockedType DEF TableInv, TypeOK, Locks
<1>6. Inserts'
  BY <1>1, UnlockedType, RowType DEF TableInv, TypeOK, Inserts
<1>. QED
  BY <1>3, <1>4, <1>5, <1>6 DEF TableInv

(* What the commit of an INSERT does *)
LEMMA CommitInsertFills ==
  ASSUME TableInv, NEW q \in Requests, q.kind = "add_member", CommitInsert(q)
  PROVE  /\ q.row \notin exists /\ lock[q.row] = q
         /\ table' = [table EXCEPT ![q.row] =
              Store!Filled(q, [c \in Columns |-> Default])]
         /\ table' \in [Rows -> RowContents]
<1>1. lock[q.row] = q /\ q.row \notin exists
  BY RowType DEF CommitInsert, TableInv, Inserts, Locks
<1>2. InsertedRow(object[q]) = Store!Filled(q, [c \in Columns |-> Default])
  <2>1. object[q] \in Object
    BY DEF TableInv, TypeOK
  <2>2. /\ object[q].dirty = q.sets
        /\ \A c \in q.sets : object[q].values[c] = q
    BY DEF CommitInsert, TableInv, Objects
  <2>. QED
    BY <2>1, <2>2, InsertedIsFilled
<1>3. [c \in Columns |-> Default] \in RowContents
  BY DEF RowContents, Values
<1>4. Store!Filled(q, [c \in Columns |-> Default]) \in RowContents
  BY <1>3, FilledType
<1>. QED
  BY <1>1, <1>2, <1>4 DEF CommitInsert, TableInv, TypeOK

LEMMA CommitInsertInv ==
  ASSUME TableInv, NEW q \in Requests, q.kind = "add_member", CommitInsert(q)
  PROVE  TableInv'
<1>1. /\ pc[q] = "commit" /\ pc' = [pc EXCEPT ![q] = "answer"]
      /\ lock' = Unlocked(q) /\ exists' = exists \cup {q.row}
      /\ UNCHANGED <<object, faults, crashes>>
  BY DEF CommitInsert, Goto
<1>2. lock[q.row] = q /\ table' \in [Rows -> RowContents]
  BY CommitInsertFills
<1>3. TypeOK'
  BY <1>1, <1>2, UnlockedType, RowType DEF TableInv, TypeOK, Steps, Answers
<1>4. Objects'
  BY <1>1 DEF TableInv, TypeOK, Objects
<1>5. Locks'
  BY <1>1, <1>2, UnlockedType DEF TableInv, TypeOK, Locks
<1>6. Inserts'
  BY <1>1, UnlockedType, RowType DEF TableInv, TypeOK, Inserts
<1>. QED
  BY <1>3, <1>4, <1>5, <1>6 DEF TableInv

LEMMA AnswerInv ==
  ASSUME TableInv, NEW q \in Requests, Answer(q)
  PROVE  TableInv'
BY DEF Answer, Goto, TableInv, TypeOK, Objects, Locks, Inserts, Steps, Answers

LEMMA CrashInv ==
  ASSUME TableInv, Crash
  PROVE  TableInv'
<1>1. TypeOK'
  BY DEF Crash, TableInv, TypeOK
<1>2. Objects'
  BY DEF Crash, TableInv, TypeOK, Objects, InFlight, Steps
<1>3. Locks' /\ Inserts'
  BY TableAssumption
  DEF Crash, TableInv, TypeOK, Locks, Inserts, InFlight, Steps
<1>. QED
  BY <1>1, <1>2, <1>3 DEF TableInv

(* The steps of a request, by statement *)
LEMMA HandleSteps ==
  ASSUME NEW q \in Requests, Handle(q)
  PROVE  \/ \E n \in {"update", "delete", "answer"} : Find(q, n)
         \/ /\ q.kind \notin {"get", "remove", "remove_unread", "add_member"}
            /\ UpdateAtOnce(q) \/ UpdateInTx(q) \/ CommitUpdate(q)
         \/ q.kind \in {"remove", "remove_unread"} /\ Delete(q)
         \/ q.kind = "add_member" /\ (Insert(q) \/ CommitInsert(q))
         \/ Answer(q)
BY DEF Handle, MarkAsRead, UpdateProfile, UpdateMemberRole, UpdateInfo, Edit,
       RemoveRow, RemoveUnread, AddMember, GetById

LEMMA NextInv == TableInv /\ [Next]_vars => TableInv'
<1>. SUFFICES ASSUME TableInv, [Next]_vars PROVE TableInv'
  OBVIOUS
<1>1. ASSUME NEW q \in Requests, Receive(q) PROVE TableInv'
  BY <1>1, ReceiveInv
<1>2. ASSUME NEW q \in Requests, Handle(q) PROVE TableInv'
  BY <1>2, HandleSteps, FindInv, UpdateAtOnceInv, UpdateInTxInv,
     CommitUpdateInv, DeleteInv, InsertInv, CommitInsertInv, AnswerInv
<1>3. ASSUME NEW q \in Requests, Fails(q) PROVE TableInv'
  <2>1. pc[q] \in Steps /\ faults' \in Nat
    BY <1>3 DEF Fails, TableInv, TypeOK
  <2>. QED
    BY <1>3, <2>1, RollbackInv DEF Fails
<1>4. CASE Crash
  BY <1>4, CrashInv
<1>5. CASE UNCHANGED vars
  BY <1>5 DEF vars, TableInv, TypeOK, Objects, Locks, Inserts
<1>. QED
  BY <1>1, <1>2, <1>3, <1>4, <1>5 DEF Next

LEMMA TableInvHolds == Spec => []TableInv
BY InitInv, NextInv, PTL DEF Spec

(* The tables, objects and locks keep their types. *)
THEOREM TypeCorrect == Spec => []TypeOK
<1>1. TableInv => TypeOK
  BY DEF TableInv
<1>. QED
  BY <1>1, TableInvHolds, PTL

-----------------------------------------------------------------------------
(* Every step is one atomic change of a row, or none that the tables show  *)
LEMMA StepImplementsStore ==
  ASSUME TableInv, [Next]_vars
  PROVE  [Store!Next]_(Store!vars)
<1>1. ASSUME NEW q \in Requests, Handle(q)
      PROVE  Store!Next \/ UNCHANGED Store!vars
  <2>1. CASE \E n \in {"update", "delete", "answer"} : Find(q, n)
    BY <2>1 DEF Find, Store!vars
  <2>2. CASE /\ q.kind \notin {"get", "remove", "remove_unread", "add_member"}
             /\ UpdateAtOnce(q)
    BY <2>2, WriteFills
    DEF UpdateAtOnce, Store!vars, Store!Next, Store!Change
  <2>3. CASE UpdateInTx(q)
    BY <2>3 DEF UpdateInTx, Store!vars
  <2>4. CASE /\ q.kind \notin {"get", "remove", "remove_unread", "add_member"}
             /\ CommitUpdate(q)
    <3>1. lock[q.row] = q => q.row \in exists
      BY <2>4, RowType DEF TableInv, Locks
    <3>. QED
      BY <2>4, <3>1, WriteFills
      DEF CommitUpdate, Store!vars, Store!Next, Store!Change
  <2>5. CASE q.kind \in {"remove", "remove_unread"} /\ Delete(q)
    BY <2>5 DEF Delete, Store!vars, Store!Next, Store!Remove
  <2>6. CASE Insert(q)
    BY <2>6 DEF Insert, Rollback, Store!vars
  <2>7. CASE q.kind = "add_member" /\ CommitInsert(q)
    BY <2>7, CommitInsertFills
    DEF CommitInsert, Store!vars, Store!Next, Store!Add
  <2>8. CASE Answer(q)
    BY <2>8 DEF Answer, Store!vars
  <2>. QED
    BY <1>1, HandleSteps, <2>1, <2>2, <2>3, <2>4, <2>5, <2>6, <2>7, <2>8
<1>2. CASE \E q \in Requests : Receive(q) \/ Fails(q)
  BY <1>2 DEF Receive, Fails, Rollback, Store!vars
<1>3. CASE Crash \/ UNCHANGED vars
  BY <1>3 DEF Crash, vars, Store!vars
<1>. QED
  BY <1>1, <1>2, <1>3 DEF Next

(* Reading, changing and writing back an object has the effect of one      *)
(* atomic change of the columns that the request names.                    *)
THEOREM StoreImplemented == Spec => ImplementsStore
<1>1. Init => Store!Init
  BY DEF Init, NewObject, Store!Init
<1>2. TableInv /\ [Next]_vars => [Store!Next]_(Store!vars)
  BY StepImplementsStore
<1>. QED
  BY <1>1, <1>2, TableInvHolds, PTL DEF Spec, ImplementsStore, Store!Spec

-----------------------------------------------------------------------------
(* A message's text and the time of its edit are set by the same requests *)
LEMMA SetsTogether ==
  ASSUME NEW q \in Requests
  PROVE  "text" \in q.sets <=> "edited_at" \in q.sets
<1>1. q.kind \in DOMAIN Settable /\ q.sets \in Settable[q.kind]
  BY TableAssumption DEF Request
<1>2. \A k \in DOMAIN Settable : \A s \in Settable[k] :
        "text" \in s <=> "edited_at" \in s
  BY DEF Settable
<1>. QED
  BY <1>1, <1>2

TogetherInv ==
  /\ \A r \in Rows : Together(table[r])
  /\ \A q \in Requests : Together(object[q].values)

LEMMA SetKeeps ==
  ASSUME NEW o \in Object, Together(o.values), NEW q \in Requests
  PROVE  Together(Set(o, q.sets, q).values)
BY SetsTogether, TableAssumption DEF Set, Together

LEMMA FilledKeeps ==
  ASSUME NEW q \in Requests, NEW row, Together(row)
  PROVE  Together(Store!Filled(q, row))
BY SetsTogether, TableAssumption DEF Store!Filled, Together

LEMMA NewTogether ==
  Together(NewObject.values) /\ Together([c \in Columns |-> Default])
BY TableAssumption DEF NewObject, Together

LEMMA TablesStayTogether ==
  ASSUME TableInv, TogetherInv, [Next]_vars
  PROVE  \A r \in Rows : Together(table'[r])
<1>1. CASE UNCHANGED table
  BY <1>1 DEF TogetherInv
<1>2. ASSUME NEW q \in Requests, NEW row, Together(row),
             table' = [table EXCEPT ![q.row] = Store!Filled(q, row)]
      PROVE  \A r \in Rows : Together(table'[r])
  BY <1>2, FilledKeeps, RowType DEF TogetherInv, TableInv, TypeOK
<1>3. \/ UNCHANGED table
      \/ \E q \in Requests :
           \/ table' = [table EXCEPT ![q.row] = Store!Filled(q, table[q.row])]
           \/ table' = [table EXCEPT ![q.row] =
                Store!Filled(q, [c \in Columns |-> Default])]
  BY StepImplementsStore
  DEF Store!Next, Store!vars, Store!Change, Store!Add, Store!Remove
<1>4. \A q \in Requests : Together(table[q.row])
  BY RowType DEF TogetherInv
<1>. QED
  BY <1>1, <1>2, <1>3, <1>4, NewTogether

LEMMA ObjectsStayTogether ==
  ASSUME TableInv, TogetherInv, [Next]_vars
  PROVE  \A q \in Requests : Together(object'[q].values)
<1>1. CASE UNCHANGED object
  BY <1>1 DEF TogetherInv
<1>2. ASSUME NEW q \in Requests, NEW o \in Object, Together(o.values),
             object' = [object EXCEPT ![q] = Set(o, q.sets, q)]
      PROVE  \A p \in Requests : Together(object'[p].values)
  <2>1. Together(Set(o, q.sets, q).values)
    BY <1>2, SetKeeps
  <2>. HIDE DEF Set
  <2>. QED
    BY <1>2, <2>1 DEF TogetherInv, TableInv, TypeOK
<1>3. ASSUME NEW q \in Requests, Receive(q)
      PROVE  object' = [object EXCEPT ![q] = Set(NewObject, q.sets, q)]
  BY <1>3 DEF Receive
<1>4. ASSUME NEW q \in Requests, Handle(q)
      PROVE  \/ UNCHANGED object
             \/ object' = [object EXCEPT ![q] =
                  Set(FromRow(table[q.row]), q.sets, q)]
  BY <1>4, HandleSteps
  DEF Find, UpdateAtOnce, UpdateInTx, CommitUpdate, Delete, Insert,
      CommitInsert, Answer
<1>5. ASSUME NEW q \in Requests
      PROVE  /\ FromRow(table[q.row]) \in Object
             /\ Together(FromRow(table[q.row]).values)
  <2>1. table[q.row] \in RowContents /\ Together(table[q.row])
    BY RowType DEF TableInv, TypeOK, TogetherInv
  <2>. QED
    BY <2>1, FromRowType DEF FromRow
<1>6. ASSUME NEW q \in Requests, Fails(q) PROVE UNCHANGED object
  BY <1>6 DEF Fails
<1>7. Crash \/ UNCHANGED vars => UNCHANGED object
  BY DEF Crash, vars
<1>. QED
  BY <1>1, <1>2, <1>3, <1>4, <1>5, <1>6, <1>7, NewObjectType, NewTogether
  DEF Next

(* The time of a message's last edit is that of the edit whose text it     *)
(* has, in the table and in every object read from it.                     *)
THEOREM EditsStayTogether == Spec => []EditedTogether
<1>1. Init => TogetherInv
  BY NewTogether DEF Init, TogetherInv, NewObject
<1>2. TableInv /\ TogetherInv /\ [Next]_vars => TogetherInv'
  BY TablesStayTogether, ObjectsStayTogether DEF TogetherInv
<1>3. TogetherInv => EditedTogether
  BY DEF TogetherInv, EditedTogether
<1>. QED
  BY <1>1, <1>2, <1>3, TableInvHolds, PTL DEF Spec

-----------------------------------------------------------------------------
Committed == {"answer", "done", "lost"}

(* Who has committed stays so *)
LEMMA CommittedStays ==
  ASSUME TableInv, [Next]_vars, NEW q \in Requests, pc[q] \in Committed
  PROVE  pc'[q] \in Committed
<1>1. ASSUME NEW p \in Requests, Receive(p)
      PROVE  pc[p] = "new" /\ \E n : pc' = [pc EXCEPT ![p] = n]
  BY <1>1 DEF Receive, Goto
<1>2. ASSUME NEW p \in Requests, Handle(p)
      PROVE  \/ /\ pc[p] \notin Committed
                /\ \E n : pc' = [pc EXCEPT ![p] = n]
             \/ pc' = [pc EXCEPT ![p] = "done"]
  BY <1>2, HandleSteps
  DEF Find, UpdateAtOnce, UpdateInTx, CommitUpdate, Delete, Insert, Rollback,
      CommitInsert, Answer, Goto, Committed
<1>3. ASSUME NEW p \in Requests, Fails(p)
      PROVE  /\ pc[p] \notin Committed
             /\ \E n : pc' = [pc EXCEPT ![p] = n]
  BY <1>3 DEF Fails, Rollback, Goto, Steps, Committed
<1>4. CASE Crash \/ UNCHANGED vars
  BY <1>4 DEF Crash, vars, Committed
<1>. QED
  BY <1>1, <1>2, <1>3, <1>4 DEF Next, TableInv, TypeOK, Committed

(* The table changes only by a request that then has committed *)
LEMMA WritersCommit ==
  ASSUME TableInv, [Next]_vars
  PROVE  \/ UNCHANGED table
         \/ \E q \in Requests :
              /\ pc'[q] \in Committed
              /\ \/ table' = [table EXCEPT ![q.row] =
                       Store!Filled(q, table[q.row])]
                 \/ table' = [table EXCEPT ![q.row] =
                       Store!Filled(q, [c \in Columns |-> Default])]
<1>1. ASSUME NEW q \in Requests, UpdateAtOnce(q) \/ CommitUpdate(q)
      PROVE  \/ UNCHANGED table
             \/ /\ pc'[q] \in Committed
                /\ table' = [table EXCEPT ![q.row] =
                     Store!Filled(q, table[q.row])]
  BY <1>1, WriteFills
  DEF UpdateAtOnce, CommitUpdate, Goto, Committed, TableInv, TypeOK
<1>2. ASSUME NEW q \in Requests, q.kind = "add_member", CommitInsert(q)
      PROVE  /\ pc'[q] \in Committed
             /\ table' = [table EXCEPT ![q.row] =
                  Store!Filled(q, [c \in Columns |-> Default])]
  BY <1>2, CommitInsertFills
  DEF CommitInsert, Goto, Committed, TableInv, TypeOK
<1>3. ASSUME NEW q \in Requests, Handle(q)
      PROVE  \/ UNCHANGED table
             \/ UpdateAtOnce(q) \/ CommitUpdate(q)
             \/ q.kind = "add_member" /\ CommitInsert(q)
  BY <1>3, HandleSteps DEF Find, UpdateInTx, Delete, Insert, Rollback, Answer
<1>4. (\E q \in Requests : Receive(q) \/ Fails(q)) \/ Crash \/ UNCHANGED vars
        => UNCHANGED table
  BY DEF Receive, Fails, Rollback, Crash, vars
<1>. QED
  BY <1>1, <1>2, <1>3, <1>4 DEF Next

(* The content of a column comes from a request that set it, of this row,  *)
(* and that has committed.                                                 *)
LEMMA SourcesStay ==
  ASSUME TableInv, FailedLeavesNothing, [Next]_vars
  PROVE  FailedLeavesNothing'
<1>. SUFFICES ASSUME NEW r \in Rows, NEW c \in Columns,
                     table'[r][c] # Default
              PROVE  /\ c \in table'[r][c].sets /\ table'[r][c].row = r
                     /\ pc'[table'[r][c]] \in Committed
  BY DEF FailedLeavesNothing, Committed
<1>1. CASE table'[r][c] = table[r][c]
  <2>1. table[r][c] \in Requests
    BY <1>1 DEF TableInv, TypeOK, RowContents, Values
  <2>2. /\ c \in table[r][c].sets /\ table[r][c].row = r
        /\ pc[table[r][c]] \in Committed
    BY <1>1 DEF FailedLeavesNothing, Committed
  <2>. QED
    BY <1>1, <2>1, <2>2, CommittedStays
<1>2. ASSUME NEW q \in Requests, NEW row, row[c] \in {table[r][c], Default},
             pc'[q] \in Committed, q.row = r,
             table' = [table EXCEPT ![q.row] = Store!Filled(q, row)]
      PROVE  \/ table'[r][c] = table[r][c]
             \/ /\ c \in table'[r][c].sets /\ table'[r][c].row = r
                /\ pc'[table'[r][c]] \in Committed
  <2>1. table'[r][c] = IF c \in q.sets THEN q ELSE row[c]
    BY <1>2 DEF Store!Filled, TableInv, TypeOK
  <2>. QED
    BY <1>2, <2>1
<1>3. ASSUME NEW q \in Requests, NEW x, q.row # r,
             table' = [table EXCEPT ![q.row] = x]
      PROVE  table'[r][c] = table[r][c]
  BY <1>3 DEF TableInv, TypeOK
<1>4. [d \in Columns |-> Default][c] = Default
  OBVIOUS
<1>. QED
  BY <1>1, <1>2, <1>3, <1>4, WritersCommit

(* What was refused, not found or failed has left nothing in any row. *)
THEOREM FailuresLeaveNothing == Spec => []FailedLeavesNothing
<1>1. Init => FailedLeavesNothing
  BY DEF Init, NewObject, FailedLeavesNothing
<1>2. TableInv /\ FailedLeavesNothing /\ [Next]_vars => FailedLeavesNothing'
  BY SourcesStay
<1>. QED
  BY <1>1, <1>2, TableInvHolds, PTL DEF Spec
=============================================================================
