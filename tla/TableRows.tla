----------------------------- MODULE TableRows ------------------------------
(***************************************************************************)
(* Rows of chats, chat_members, messages and users that requests read,     *)
(* change as objects of the generated classes, and write back.             *)
(*                                                                         *)
(* Between its SELECT and its UPDATE a request may be overtaken: its object *)
(* is then stale.  What keeps the others' changes is that an object marks  *)
(* the columns that were set and its UPDATE names those only.  A statement *)
(* outside a transaction commits at once; one inside locks its row until   *)
(* the transaction ends.                                                   *)
(*                                                                         *)
(* The classes of all tables are generated from one template: an operator  *)
(* below stands for its form in each of them.                              *)
(***************************************************************************)
EXTENDS Naturals

CONSTANTS
  Rows,         \* primary keys
  Columns,      \* columns that requests set
  Requests,     \* each made once
  Default,      \* content of a column that no request has set
  Stored,       \* rows that are there at first
  NoTx,         \* nobody has locked the row
  Scenarios,    \* bounds: the requests made together
  MaxFaults,    \* bound on failed statements
  MaxCrashes    \* bound on stops of the process

(* The columns that a request of each kind sets; for update_info and       *)
(* update_profile those whose field is present.                            *)
Settable ==
  [mark_as_read       |-> {{"last_read_message_id"}},
   update_member_role |-> {{"role"}},
   update_info        |-> SUBSET {"name", "avatar_path", "description"},
   update_profile     |-> SUBSET {"display_name", "avatar_path", "description"},
   edit               |-> {{"text", "edited_at"}},
   add_member         |-> {{"role", "chat_type"}},
   remove             |-> {{}},
   remove_unread      |-> {{}},
   get                |-> {{}}]

Request == [id : Nat, kind : DOMAIN Settable, row : Rows, sets : SUBSET Columns]

ASSUME TableAssumption ==
  /\ Requests \subseteq Request
  /\ \A q \in Requests : q.sets \in Settable[q.kind]
  /\ Scenarios \subseteq SUBSET Requests
  /\ Stored \subseteq Rows
  /\ Default \notin Requests /\ NoTx \notin Requests
  /\ {"text", "edited_at"} \subseteq Columns

VARIABLES
  exists,   \* rows that are there, as committed
  table,    \* the columns of each row, as committed
  object,   \* the object each request works on
  lock,     \* the transaction that has written each row
  pc,       \* where each request stands
  faults, crashes

vars == <<exists, table, object, lock, pc, faults, crashes>>

Values == Requests \cup {Default}

RowContents == [Columns -> Values]

Object == [values : RowContents, dirty : SUBSET Columns]

Steps == {"find", "update", "delete", "insert", "commit", "answer"}

Answers == {"done", "missing", "refused", "failed"}

(* Types of the tables, objects and locks. *)
TypeOK ==
  /\ exists \subseteq Rows
  /\ table \in [Rows -> RowContents]
  /\ object \in [Requests -> Object]
  /\ lock \in [Rows -> Requests \cup {NoTx}]
  /\ pc \in [Requests -> {"new", "lost"} \cup Steps \cup Answers]
  /\ faults \in Nat /\ crashes \in Nat

-----------------------------------------------------------------------------
(* Objects of the generated classes *)

NewObject == [values |-> [c \in Columns |-> Default], dirty |-> {}]

FromRow(row) == [values |-> row, dirty |-> {}]

(* Mutant: a setter does not mark its column *)
SetUnmarked(o, cs, v) ==
  [values |-> [c \in Columns |-> IF c \in cs THEN v ELSE o.values[c]],
   dirty  |-> o.dirty \cup (cs \ {"edited_at"})]

(* The setters of the columns in cs *)
Set(o, cs, v) ==
  [values |-> [c \in Columns |-> IF c \in cs THEN v ELSE o.values[c]],
   dirty  |-> o.dirty \cup cs]

(* Mutant: the update writes every column of the object *)
AllColumns(o) == Columns

UpdateColumns(o) == o.dirty

UpdateArgs(o) == [c \in UpdateColumns(o) |-> o.values[c]]

(* UPDATE ... SET the update columns to the arguments *)
UpdatedRow(row, o) ==
  [c \in Columns |->
     IF c \in UpdateColumns(o) THEN UpdateArgs(o)[c] ELSE row[c]]

OutputArgs(o) == [c \in o.dirty |-> o.values[c]]

(* INSERT of the arguments, DEFAULT for the other columns *)
InsertedRow(o) ==
  [c \in Columns |-> IF c \in o.dirty THEN OutputArgs(o)[c] ELSE Default]

Init ==
  /\ exists = Stored
  /\ table = [r \in Rows |-> NewObject.values]
  /\ object = [q \in Requests |-> NewObject]
  /\ lock = [r \in Rows |-> NoTx]
  /\ pc = [q \in Requests |-> "new"]
  /\ faults = 0 /\ crashes = 0

-----------------------------------------------------------------------------
Goto(q, next) == pc' = [pc EXCEPT ![q] = next]

InFlight == {q \in Requests : pc[q] \in Steps}

Made == {q \in Requests : pc[q] # "new"}

FirstStep(q) ==
  CASE q.kind = "add_member" -> "insert"
    [] q.kind = "remove_unread" -> "delete"
    [] OTHER -> "find"

(* The checks of the body and of the sender's role, before anything is     *)
(* changed; the sender's role itself is part of GroupMembers.              *)
Receive(q) ==
  /\ pc[q] = "new"
  /\ \E s \in Scenarios : Made \cup {q} \subseteq s
  /\ \/ Goto(q, FirstStep(q))
     \/ q.kind # "get" /\ Goto(q, "refused")
  /\ object' = [object EXCEPT ![q] = Set(NewObject, q.sets, q)]
  /\ UNCHANGED <<exists, table, lock, faults, crashes>>

(* SELECT by primary key, and the setters of what the request changes *)
Find(q, next) ==
  /\ pc[q] = "find"
  /\ IF q.row \in exists
     THEN /\ object' = [object EXCEPT ![q] =
               Set(FromRow(table[q.row]), q.sets, q)]
          /\ Goto(q, next)
     ELSE Goto(q, "missing") /\ UNCHANGED object
  /\ UNCHANGED <<exists, table, lock, faults, crashes>>

(* A row that a transaction has written makes other writers wait; one that *)
(* is not there, or not committed, is not waited for.                      *)
Writable(q) == q.row \in exists => lock[q.row] = NoTx

Write(q) ==
  table' = [table EXCEPT ![q.row] = UpdatedRow(table[q.row], object[q])]

(* UPDATE outside a transaction; a row deleted meanwhile is not missed *)
UpdateAtOnce(q) ==
  /\ pc[q] = "update"
  /\ Writable(q)
  /\ IF q.row \in exists THEN Write(q) ELSE UNCHANGED table
  /\ Goto(q, "answer")
  /\ UNCHANGED <<exists, object, lock, faults, crashes>>

Lock(q) == lock' = [lock EXCEPT ![q.row] = q]

UpdateInTx(q) ==
  /\ pc[q] = "update"
  /\ Writable(q)
  /\ IF q.row \in exists THEN Lock(q) ELSE UNCHANGED lock
  /\ Goto(q, "commit")
  /\ UNCHANGED <<exists, table, object, faults, crashes>>

Delete(q) ==
  /\ pc[q] = "delete"
  /\ Writable(q)
  /\ exists' = exists \ {q.row}
  /\ Goto(q, "answer")
  /\ UNCHANGED <<table, object, lock, faults, crashes>>

Unlocked(q) == [r \in Rows |-> IF lock[r] = q THEN NoTx ELSE lock[r]]

(* Mutant: the transaction is left open *)
RollbackKeepsLock(q) == Goto(q, "failed") /\ UNCHANGED <<lock, exists, table>>

(* Mutant: the transaction is destroyed, and drogon commits it *)
RollbackCommits(q) ==
  /\ IF lock[q.row] = q /\ q.row \in exists THEN Write(q) ELSE UNCHANGED table
  /\ lock' = Unlocked(q)
  /\ Goto(q, "failed")
  /\ UNCHANGED exists

Rollback(q) ==
  /\ lock' = Unlocked(q)
  /\ Goto(q, "failed")
  /\ UNCHANGED <<exists, table>>

(* INSERT; it waits for the end of a transaction that wrote the same key *)
Insert(q) ==
  /\ pc[q] = "insert"
  /\ lock[q.row] = NoTx
  /\ IF q.row \in exists
     THEN Rollback(q)
     ELSE Lock(q) /\ Goto(q, "commit") /\ UNCHANGED <<exists, table>>
  /\ UNCHANGED <<object, faults, crashes>>

CommitUpdate(q) ==
  /\ pc[q] = "commit"
  /\ IF lock[q.row] = q THEN Write(q) ELSE UNCHANGED table
  /\ lock' = Unlocked(q)
  /\ Goto(q, "answer")
  /\ UNCHANGED <<exists, object, faults, crashes>>

CommitInsert(q) ==
  /\ pc[q] = "commit"
  /\ exists' = exists \cup {q.row}
  /\ table' = [table EXCEPT ![q.row] = InsertedRow(object[q])]
  /\ lock' = Unlocked(q)
  /\ Goto(q, "answer")
  /\ UNCHANGED <<object, faults, crashes>>

-----------------------------------------------------------------------------
(* The operations of the repositories *)

MarkAsRead(q) ==
  q.kind = "mark_as_read" /\ (Find(q, "update") \/ UpdateAtOnce(q))

UpdateProfile(q) ==
  q.kind = "update_profile" /\ (Find(q, "update") \/ UpdateAtOnce(q))

UpdateMemberRole(q) ==
  /\ q.kind = "update_member_role"
  /\ Find(q, "update") \/ UpdateInTx(q) \/ CommitUpdate(q)

UpdateInfo(q) ==
  /\ q.kind = "update_info"
  /\ Find(q, "update") \/ UpdateInTx(q) \/ CommitUpdate(q)

Edit(q) ==
  q.kind = "edit" /\ (Find(q, "update") \/ UpdateInTx(q) \/ CommitUpdate(q))

RemoveRow(q) == q.kind = "remove" /\ (Find(q, "delete") \/ Delete(q))

(* A member or an attachment is deleted by its key without being read *)
RemoveUnread(q) == q.kind = "remove_unread" /\ Delete(q)

AddMember(q) == q.kind = "add_member" /\ (Insert(q) \/ CommitInsert(q))

GetById(q) == q.kind = "get" /\ Find(q, "answer")

Answer(q) ==
  /\ pc[q] = "answer"
  /\ Goto(q, "done")
  /\ UNCHANGED <<exists, table, object, lock, faults, crashes>>

(* A failed statement; if it is the COMMIT, nothing was committed *)
Fails(q) ==
  /\ pc[q] \in Steps \ {"answer"}
  /\ faults < MaxFaults
  /\ faults' = faults + 1
  /\ Rollback(q)
  /\ UNCHANGED <<object, crashes>>

(* The process stops: Postgres rolls back what was not committed, and      *)
(* whoever had not been answered does not know.                            *)
Crash ==
  /\ crashes < MaxCrashes
  /\ crashes' = crashes + 1
  /\ pc' = [q \in Requests |-> IF q \in InFlight THEN "lost" ELSE pc[q]]
  /\ lock' = [r \in Rows |-> NoTx]
  /\ UNCHANGED <<exists, table, object, faults>>

Handle(q) ==
  \/ MarkAsRead(q) \/ UpdateProfile(q) \/ UpdateMemberRole(q) \/ UpdateInfo(q)
  \/ Edit(q) \/ RemoveRow(q) \/ RemoveUnread(q) \/ AddMember(q)
  \/ GetById(q) \/ Answer(q)

Next ==
  \/ \E q \in Requests : Receive(q) \/ Handle(q) \/ Fails(q)
  \/ Crash

Spec == Init /\ [][Next]_vars

(* Coroutines go on, and Postgres grants the locks that are released *)
FairSpec == Spec /\ \A q \in Requests : WF_vars(Handle(q))

-----------------------------------------------------------------------------
(* Reading a row, changing the object and writing it back has the effect   *)
(* of one atomic change of the columns that the request names: two         *)
(* requests that overlap on a row (a read mark and a new role, a new name  *)
(* and a new description) never undo each other's columns.                 *)
Store == INSTANCE RowStore

ImplementsStore == Store!Spec

(* The time of a message's last edit is that of the edit whose text it     *)
(* has, in the table and in what a reader gets, however edits overlap,     *)
(* fail or are cut short.                                                  *)
Together(row) == row["edited_at"] = row["text"]

EditedTogether ==
  /\ \A r \in Rows : Together(table[r])
  /\ \A q \in Requests : q.kind = "get" => Together(object[q].values)

(* What was refused, not found or failed has left nothing in any row. *)
FailedLeavesNothing ==
  \A r \in Rows, c \in Columns :
    table[r][c] # Default =>
      /\ c \in table[r][c].sets /\ table[r][c].row = r
      /\ pc[table[r][c]] \in {"answer", "done", "lost"}

(* Every request is answered or lost: no row stays locked. *)
NoRowStaysLocked == <>[](InFlight = {})
=============================================================================
