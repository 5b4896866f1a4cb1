------------------------------ MODULE RowStore ------------------------------
(***************************************************************************)
(* What the repositories promise of the rows of the tables: a request that *)
(* changes a row changes, in one step, the columns it names, and no other. *)
(* The content of a column is the request that set it, or its default.     *)
(***************************************************************************)
CONSTANTS Rows, Columns, Requests, Default, Stored

VARIABLES
  exists,  \* rows that are there
  table    \* their columns

vars == <<exists, table>>

Init ==
  /\ exists = Stored
  /\ table = [r \in Rows |-> [c \in Columns |-> Default]]

Filled(q, row) == [c \in Columns |-> IF c \in q.sets THEN q ELSE row[c]]

Change(q) ==
  /\ q.kind \notin {"get", "remove", "remove_unread", "add_member"}
  /\ q.row \in exists
  /\ table' = [table EXCEPT ![q.row] = Filled(q, table[q.row])]
  /\ UNCHANGED exists

Add(q) ==
  /\ q.kind = "add_member"
  /\ q.row \notin exists
  /\ exists' = exists \cup {q.row}
  /\ table' = [table EXCEPT ![q.row] =
       Filled(q, [c \in Columns |-> Default])]

Remove(q) ==
  /\ q.kind \in {"remove", "remove_unread"}
  /\ q.row \in exists
  /\ exists' = exists \ {q.row}
  /\ UNCHANGED table

Next == \E q \in Requests : Change(q) \/ Add(q) \/ Remove(q)

Spec == Init /\ [][Next]_vars
=============================================================================
