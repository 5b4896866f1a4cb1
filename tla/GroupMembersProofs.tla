------------------------- MODULE GroupMembersProofs -------------------------
(***************************************************************************)
(* Proofs about the members of a group, for every set of users and of      *)
(* requests and every limit.                                               *)
(***************************************************************************)
EXTENDS GroupMembers, FiniteSetTheorems, TLAPS

USE GroupAssumption

(* There are finitely many members. *)
LEMMA MembersFinite ==
  /\ IsFiniteSet(Members) /\ Cardinality(Members) \in Nat
  /\ IsFiniteSet(Members') /\ Cardinality(Members)' \in Nat
<1>1. Members \subseteq People /\ Members' \subseteq People
  BY DEF Members
<1>2. IsFiniteSet(Members) /\ IsFiniteSet(Members')
  BY <1>1, FS_Subset
<1>3. Cardinality(Members) \in Nat /\ Cardinality(Members') \in Nat
  BY <1>2, FS_CardinalityType
<1>4. QED
  BY <1>2, <1>3

(* Steps that give nobody a row leave at most as many members. *)
LEMMA NoJoin ==
  ASSUME Members' \subseteq Members
  PROVE  Cardinality(Members)' <= Cardinality(Members)
<1>1. Cardinality(Members') <= Cardinality(Members)
  BY MembersFinite, FS_Subset
<1>2. QED
  BY <1>1

(* Steps that give one user a row add at most one member. *)
LEMMA OneJoins ==
  ASSUME NEW t, Members' \subseteq Members \cup {t}
  PROVE  Cardinality(Members)' <= Cardinality(Members) + 1
<1>1. /\ IsFiniteSet(Members \cup {t})
      /\ \/ Cardinality(Members \cup {t}) = Cardinality(Members) + 1
         \/ Cardinality(Members \cup {t}) = Cardinality(Members)
  BY MembersFinite, FS_AddElement, Zenon
<1>2. Cardinality(Members') <= Cardinality(Members \cup {t})
  BY <1>1, FS_Subset
<1>3. Cardinality(Members \cup {t}) \in Nat
  BY <1>1, FS_CardinalityType
<1>4. QED
  BY <1>1, <1>2, <1>3, MembersFinite

(* A list of n names names at most n users. *)
LEMMA ListedAtMost ==
  ASSUME NEW list \in Seq(People)
  PROVE  IsFiniteSet(Range(list)) /\ Cardinality(Range(list)) <= Len(list)
<1>1. list \in Surjection(1 .. Len(list), Range(list))
  BY DEF Range, Surjection
<1>2. IsFiniteSet(1 .. Len(list)) /\ Cardinality(1 .. Len(list)) = Len(list)
  <2>1. Len(list) \in Nat /\ 0 \in Int /\ 1 \in Int /\ Len(list) \in Int
    OBVIOUS
  <2>2. /\ IsFiniteSet(1 .. Len(list))
        /\ Cardinality(1 .. Len(list)) =
             IF 1 > Len(list) THEN 0 ELSE Len(list) - 1 + 1
    BY <2>1, FS_Interval, Zenon
  <2>3. QED
    BY <2>1, <2>2
<1>3. QED
  BY <1>1, <1>2, FS_Surjection

(* The end of a transaction: a role change gives nobody a row, an add one. *)
LEMMA EndTxMembers ==
  ASSUME TypeOK, DraftsOfKind, NEW q \in Requests, NEW result, EndTx(q, result)
  PROVE  /\ q.kind = "add" /\ pc[q] = "commit"
              => Members' \subseteq Members \cup {q.target}
         /\ ~(q.kind = "add" /\ pc[q] = "commit") => Members' \subseteq Members
<1>1. \A p \in People : role'[p] = "none" \/ role[p] # "none" \/ draft[q][p] # "none"
  BY DEF EndTx
<1>2. \A p \in People : draft[q][p] # "none" =>
        \/ q.kind = "add" /\ pc[q] = "commit" /\ p = q.target
        \/ role[p] # "none"
  BY DEF DraftsOfKind
<1>3. QED
  BY <1>1, <1>2 DEF Members

-----------------------------------------------------------------------------
(* Type correctness *)

(* What every transaction leaves behind has the types of the tables. *)
LEMMA EndTxType ==
  ASSUME TypeOK, NEW q \in Requests, NEW result \in Pcs,
         EndTx(q, result) \/ AbortTx(q), UNCHANGED asked, faults' \in 0 .. MaxFaults
  PROVE  TypeOK'
<1>1. NoRows \in [People -> Row]
  BY DEF NoRows, Row
<1>2. /\ role' \in [People -> Row]
      /\ draft' \in [Requests -> [People -> Row]]
      /\ chat_lock' \in Requests \cup {NoTx}
  <2>1. role' \in [People -> Row]
    <3>1. CASE EndTx(q, result)
      <4>1. \A p \in People : draft[q][p] \in Row /\ role[p] \in Row
        BY DEF TypeOK
      <4>2. QED
        BY <3>1, <4>1 DEF EndTx
    <3>2. CASE AbortTx(q)
      BY <3>2 DEF AbortTx, TypeOK
    <3>3. QED
      BY <3>1, <3>2
  <2>2. draft' \in [Requests -> [People -> Row]]
    BY <1>1 DEF EndTx, AbortTx, TypeOK
  <2>3. chat_lock' \in Requests \cup {NoTx}
    BY DEF EndTx, AbortTx, Unlocked, TypeOK
  <2>4. QED
    BY <2>1, <2>2, <2>3
<1>3. pc' \in [Requests -> Pcs]
  BY DEF EndTx, AbortTx, Goto, TypeOK, Pcs
<1>4. QED
  BY <1>2, <1>3 DEF TypeOK

(* What an UPDATE writes. *)
LEMMA UpdateRowType ==
  ASSUME TypeOK, NEW q \in Requests, NEW p \in People, NEW new_role \in Row,
         UpdateRow(q, p, new_role)
  PROVE  draft' \in [Requests -> [People -> Row]]
<1>1. CASE UNCHANGED draft
  BY <1>1 DEF TypeOK
<1>2. CASE Write(q, p, new_role)
  BY <1>2 DEF Write, TypeOK
<1>3. QED
  BY <1>1, <1>2 DEF UpdateRow

(* The types survive every step; one case per action. *)
LEMMA TypeStep == TypeOK /\ [Next]_vars => TypeOK'
<1> SUFFICES ASSUME TypeOK, [Next]_vars
             PROVE  TypeOK'
  OBVIOUS
<1>1. ASSUME NEW list \in Lists, CreateGroup(list)
      PROVE  TypeOK'
  BY <1>1 DEF CreateGroup, TypeOK, Row, Roles
<1>2. ASSUME NEW q \in Requests, Ask(q)
      PROVE  TypeOK'
  <2>1. q.by \in People /\ q.kind \in {"add", "remove", "role"}
    BY DEF Request
  <2>2. FirstStep[q.kind] \in Pcs
    BY <2>1 DEF FirstStep, Pcs
  <2>3. QED
    BY <1>2, <2>1, <2>2 DEF Ask, Goto, TypeOK, Pcs
<1>3. ASSUME NEW q \in Requests, Commit(q)
      PROVE  TypeOK'
  BY <1>3, EndTxType DEF Commit, Pcs, TypeOK
<1>4. ASSUME NEW q \in Requests, LockChat(q)
      PROVE  TypeOK'
  BY <1>4 DEF LockChat, Goto, TypeOK, Pcs
<1>5. ASSUME NEW q \in Requests, Count(q)
      PROVE  TypeOK'
  <2>1. CASE EndTx(q, "refused")
    BY <1>5, <2>1, EndTxType DEF Count, Pcs, TypeOK
  <2>2. CASE Goto(q, "insert") /\ UNCHANGED <<role, draft, chat_lock>>
    BY <1>5, <2>2 DEF Count, Goto, TypeOK, Pcs
  <2>3. QED
    BY <1>5, <2>1, <2>2 DEF Count
<1>6. ASSUME NEW q \in Requests, Insert(q)
      PROVE  TypeOK'
  <2>1. CASE AbortTx(q)
    BY <1>6, <2>1, EndTxType DEF Insert, Pcs, TypeOK
  <2>2. CASE Write(q, q.target, q.role) /\ Goto(q, "commit")
               /\ UNCHANGED <<role, chat_lock>>
    BY <1>6, <2>2 DEF Insert, Write, Goto, TypeOK, Pcs, Request, Row
  <2>3. QED
    BY <1>6, <2>1, <2>2 DEF Insert
<1>7. ASSUME NEW q \in Requests, List(q)
      PROVE  TypeOK'
  BY <1>7 DEF List, Goto, TypeOK, Pcs
<1>8. ASSUME NEW q \in Requests, Delete(q)
      PROVE  TypeOK'
  BY <1>8 DEF Delete, Goto, TypeOK, Pcs, Row
<1>9. ASSUME NEW q \in Requests, Find(q)
      PROVE  TypeOK'
  <2>1. CASE EndTx(q, "refused")
    BY <1>9, <2>1, EndTxType DEF Find, Pcs, TypeOK
  <2>2. CASE Goto(q, "update") /\ UNCHANGED <<role, draft, chat_lock>>
    BY <1>9, <2>2 DEF Find, Goto, TypeOK, Pcs
  <2>3. QED
    BY <1>9, <2>1, <2>2 DEF Find
<1>10. ASSUME NEW q \in Requests, Update(q)
       PROVE  TypeOK'
  <2>1. draft' \in [Requests -> [People -> Row]]
    BY <1>10, UpdateRowType DEF Update, Request, Row
  <2>2. QED
    BY <1>10, <2>1 DEF Update, Goto, TypeOK, Pcs
<1>11. ASSUME NEW q \in Requests, FindSelf(q)
       PROVE  TypeOK'
  <2>1. CASE EndTx(q, "refused")
    BY <1>11, <2>1, EndTxType DEF FindSelf, Pcs, TypeOK
  <2>2. CASE Goto(q, "update_self") /\ UNCHANGED <<role, draft, chat_lock>>
    BY <1>11, <2>2 DEF FindSelf, Goto, TypeOK, Pcs
  <2>3. QED
    BY <1>11, <2>1, <2>2 DEF FindSelf
<1>12. ASSUME NEW q \in Requests, UpdateSelf(q)
       PROVE  TypeOK'
  <2>1. draft' \in [Requests -> [People -> Row]]
    BY <1>12, UpdateRowType DEF UpdateSelf, Request, Row, Roles
  <2>2. QED
    BY <1>12, <2>1 DEF UpdateSelf, Goto, TypeOK, Pcs
<1>13. ASSUME NEW q \in Requests, DeadlockVictim(q)
       PROVE  TypeOK'
  BY <1>13, EndTxType DEF DeadlockVictim, Pcs, TypeOK
<1>14. ASSUME NEW q \in Requests, Fails(q)
       PROVE  TypeOK'
  <2>1. faults' \in 0 .. MaxFaults
    BY <1>14 DEF Fails, TypeOK
  <2>2. QED
    BY <1>14, <2>1, EndTxType DEF Fails, Pcs
<1>15. CASE UNCHANGED vars
  BY <1>15 DEF vars, TypeOK
<1>16. QED
  BY <1>1, <1>2, <1>3, <1>4, <1>5, <1>6, <1>7, <1>8, <1>9, <1>10, <1>11,
     <1>12, <1>13, <1>14, <1>15 DEF Next, Handle

(* The tables, transactions and requests keep their types.                 *)
THEOREM TypeCorrect == Spec => []TypeOK
<1>1. Init => TypeOK
  BY DEF Init, TypeOK, NoRows, Row, Pcs
<1>2. QED
  BY <1>1, TypeStep, PTL DEF Spec

-----------------------------------------------------------------------------
(* The limit of members *)

(* A step of one request that gives nobody a row, keeps the rows others    *)
(* wrote to, and takes the chat row from nobody.                           *)
LEMMA Quiet ==
  ASSUME GroupInv, TypeOK', NEW q \in Requests, Members' \subseteq Members,
         \A r \in Requests \ {q} : pc'[r] = pc[r] /\ draft'[r] = draft[r],
         \A r \in Requests \ {q} : chat_lock = r => chat_lock' = r,
         \A p \in People : role'[p] = "none" /\ role[p] # "none"
                             => \A r \in Requests \ {q} : draft[r][p] = "none",
         q.kind = "add" /\ pc'[q] \in {"count", "insert", "commit"}
           => chat_lock' = q,
         q.kind = "add" /\ pc'[q] \in {"insert", "commit"}
           => Cardinality(Members) < Limit,
         pc'[q] \in {"lock", "count", "insert"} => q.kind = "add",
         pc'[q] \in {"list", "delete"} => q.kind = "remove",
         pc'[q] \in {"find", "update", "find_self", "update_self"}
           => q.kind = "role",
         pc'[q] = "commit" => q.kind \in {"add", "role"},
         \A p \in People : draft'[q][p] # "none" =>
           \/ q.kind = "add" /\ pc'[q] = "commit" /\ p = q.target
           \/ q.kind = "role" /\ role'[p] # "none"
  PROVE  GroupInv'
<1>1. Cardinality(Members)' <= Cardinality(Members)
  BY NoJoin
<1>2. Cardinality(Members) \in Nat /\ Cardinality(Members)' \in Nat
  BY MembersFinite
<1>3. WithinLimit'
  BY <1>1, <1>2 DEF GroupInv, WithinLimit
<1>4. RoomForAdded'
  <2> SUFFICES ASSUME NEW r \in Requests, r.kind = "add"
               PROVE  /\ pc'[r] \in {"count", "insert", "commit"}
                           => chat_lock' = r
                      /\ pc'[r] \in {"insert", "commit"}
                           => Cardinality(Members)' < Limit
    BY DEF RoomForAdded
  <2>1. CASE r = q
    BY <1>1, <1>2, <2>1
  <2>2. CASE r # q
    BY <1>1, <1>2, <2>2 DEF GroupInv, RoomForAdded
  <2>3. QED
    BY <2>1, <2>2
<1>5. StepsOfKind'
  BY DEF GroupInv, StepsOfKind
<1>6. DraftsOfKind'
  BY DEF GroupInv, DraftsOfKind
<1>7. QED
  BY <1>3, <1>4, <1>5, <1>6 DEF GroupInv

(* The end of a transaction that adds nobody. *)
LEMMA EndTxInv ==
  ASSUME GroupInv, TypeOK', NEW q \in Requests,
         NEW result \in {"done", "refused"}, EndTx(q, result) \/ AbortTx(q),
         q.kind = "add" /\ pc[q] = "commit" => AbortTx(q)
  PROVE  GroupInv'
<1>1. TypeOK /\ DraftsOfKind
  BY DEF GroupInv
<1>2. Members' \subseteq Members
  <2>1. CASE EndTx(q, result) /\ ~(q.kind = "add" /\ pc[q] = "commit")
    BY <1>1, <2>1, EndTxMembers
  <2>2. CASE AbortTx(q)
    BY <2>2 DEF AbortTx, Members
  <2>3. QED
    BY <2>1, <2>2
<1>3. /\ pc'[q] \in {"done", "refused"}
      /\ draft'[q] = NoRows
      /\ \A r \in Requests \ {q} : pc'[r] = pc[r] /\ draft'[r] = draft[r]
  BY <1>1 DEF EndTx, AbortTx, Goto, TypeOK
<1>4. \A r \in Requests \ {q} : chat_lock = r => chat_lock' = r
  BY DEF EndTx, AbortTx, Unlocked
<1>5. \A p \in People : role'[p] = "none" => role[p] = "none"
  BY <1>1 DEF EndTx, AbortTx, TypeOK
<1>6. \A p \in People : draft'[q][p] = "none"
  BY <1>3 DEF NoRows
<1>7. QED
  BY <1>2, <1>3, <1>4, <1>5, <1>6, Quiet

(* The COMMIT of an add: nobody else has counted, and there was room. *)
LEMMA AddCommits ==
  ASSUME GroupInv, TypeOK', NEW q \in Requests, q.kind = "add",
         pc[q] = "commit", EndTx(q, "done")
  PROVE  GroupInv'
<1>1. TypeOK /\ DraftsOfKind
  BY DEF GroupInv
<1>2. Cardinality(Members)' <= Cardinality(Members) + 1
  BY <1>1, EndTxMembers, OneJoins
<1>3. Cardinality(Members) < Limit /\ chat_lock = q
  BY DEF GroupInv, RoomForAdded
<1>4. WithinLimit'
  BY <1>2, <1>3, MembersFinite DEF WithinLimit
<1>5. /\ pc'[q] = "done"
      /\ draft'[q] = NoRows
      /\ \A r \in Requests \ {q} : pc'[r] = pc[r] /\ draft'[r] = draft[r]
  BY <1>1 DEF EndTx, Goto, TypeOK
<1>6. RoomForAdded'
  BY <1>3, <1>5 DEF GroupInv, RoomForAdded
<1>7. StepsOfKind'
  BY <1>5 DEF GroupInv, StepsOfKind
<1>8. \A p \in People : role'[p] = "none" => role[p] = "none"
  BY <1>1 DEF EndTx, TypeOK
<1>9. DraftsOfKind'
  BY <1>1, <1>5, <1>8 DEF DraftsOfKind, NoRows
<1>10. QED
  BY <1>4, <1>6, <1>7, <1>9 DEF GroupInv

(* The creation: at most Limit names, and no request is under way. *)
LEMMA Creation ==
  ASSUME GroupInv, TypeOK', NEW list \in Lists, CreateGroup(list)
  PROVE  GroupInv'
<1>1. list \in Seq(People) /\ Len(list) \in Nat
  OBVIOUS
<1>2. IsFiniteSet(Range(list)) /\ Cardinality(Range(list)) <= Limit
  <2>1. IsFiniteSet(Range(list)) /\ Cardinality(Range(list)) <= Len(list)
    BY <1>1, ListedAtMost
  <2>2. Cardinality(Range(list)) \in Nat /\ Len(list) <= Limit
    BY <2>1, FS_CardinalityType DEF CreateGroup
  <2>3. QED
    BY <1>1, <2>1, <2>2
<1>3. Members' \subseteq Range(list)
  BY DEF CreateGroup, Members
<1>4. Cardinality(Members') <= Cardinality(Range(list))
  BY <1>2, <1>3, FS_Subset
<1>5. WithinLimit'
  <2>1. Cardinality(Members') \in Nat /\ Cardinality(Range(list)) \in Nat
    BY <1>2, MembersFinite, FS_CardinalityType
  <2>2. Cardinality(Members') <= Limit
    BY <1>2, <1>4, <2>1
  <2>3. QED
    BY <2>2 DEF WithinLimit
<1>6. \A q \in Requests : pc[q] = "new" /\ pc'[q] = "new"
  BY DEF CreateGroup, Created
<1>7. RoomForAdded' /\ StepsOfKind'
  BY <1>6 DEF RoomForAdded, StepsOfKind
<1>8. Members = {} /\ UNCHANGED draft
  BY DEF CreateGroup, Created
<1>9. DraftsOfKind'
  BY <1>6, <1>8 DEF GroupInv, DraftsOfKind, Members
<1>10. QED
  BY <1>5, <1>7, <1>9 DEF GroupInv

(* The inductive invariant survives every step; one case per action. *)
LEMMA InvStep == GroupInv /\ [Next]_vars => GroupInv'
<1> SUFFICES ASSUME GroupInv, [Next]_vars
             PROVE  GroupInv'
  OBVIOUS
<1>0. /\ TypeOK /\ TypeOK'
      /\ \A q \in Requests : q.kind \in {"add", "remove", "role"}
  BY TypeStep DEF GroupInv, Request
<1>1. ASSUME NEW list \in Lists, CreateGroup(list)
      PROVE  GroupInv'
  BY <1>0, <1>1, Creation
<1>2. ASSUME NEW q \in Requests, Ask(q)
      PROVE  GroupInv'
  <2>1. /\ pc'[q] \in {"refused", FirstStep[q.kind]}
        /\ \A r \in Requests \ {q} : pc'[r] = pc[r]
        /\ pc[q] = "new"
        /\ UNCHANGED <<role, draft, chat_lock>>
    BY <1>0, <1>2 DEF Ask, Goto, TypeOK
  <2>2. \A p \in People : draft[q][p] # "none" => q.kind = "role" /\ role[p] # "none"
    BY <2>1 DEF GroupInv, DraftsOfKind
  <2>3. /\ q.kind = "add" => FirstStep[q.kind] = "lock"
        /\ q.kind = "remove" => FirstStep[q.kind] = "list"
        /\ q.kind = "role" => FirstStep[q.kind] = "find"
    BY DEF FirstStep
  <2>4. QED
    BY <1>0, <2>1, <2>2, <2>3, Quiet DEF Members
<1>3. ASSUME NEW q \in Requests, Commit(q)
      PROVE  GroupInv'
  <2>1. EndTx(q, "done") /\ pc[q] = "commit"
    BY <1>3 DEF Commit
  <2>2. CASE q.kind = "add"
    BY <1>0, <2>1, <2>2, AddCommits
  <2>3. CASE q.kind # "add"
    BY <1>0, <2>1, <2>3, EndTxInv
  <2>4. QED
    BY <2>2, <2>3
<1>4. ASSUME NEW q \in Requests, LockChat(q)
      PROVE  GroupInv'
  <2>1. /\ pc[q] = "lock" /\ pc'[q] = "count"
        /\ chat_lock = NoTx /\ chat_lock' = q
        /\ \A r \in Requests \ {q} : pc'[r] = pc[r]
        /\ UNCHANGED <<role, draft>>
    BY <1>0, <1>4 DEF LockChat, Goto, TypeOK
  <2>2. q.kind = "add" /\ \A p \in People : draft[q][p] = "none"
    BY <1>0, <2>1 DEF GroupInv, StepsOfKind, DraftsOfKind
  <2>3. QED
    BY <1>0, <2>1, <2>2, Quiet DEF Members
<1>5. ASSUME NEW q \in Requests, Count(q)
      PROVE  GroupInv'
  <2>1. CASE EndTx(q, "refused")
    BY <1>0, <1>5, <2>1, EndTxInv DEF Count
  <2>2. CASE Goto(q, "insert") /\ UNCHANGED <<role, draft, chat_lock>>
             /\ ~(Cardinality(Members) >= Limit)
    <3>1. /\ pc[q] = "count" /\ pc'[q] = "insert"
          /\ \A r \in Requests \ {q} : pc'[r] = pc[r]
      BY <1>0, <1>5, <2>2 DEF Count, Goto, TypeOK
    <3>2. /\ q.kind = "add" /\ chat_lock = q
          /\ \A p \in People : draft[q][p] = "none"
      BY <3>1 DEF GroupInv, StepsOfKind, DraftsOfKind, RoomForAdded
    <3>3. Cardinality(Members) < Limit
      BY <2>2, MembersFinite
    <3>4. QED
      BY <1>0, <2>2, <3>1, <3>2, <3>3, Quiet DEF Members
  <2>3. QED
    BY <1>5, <2>1, <2>2 DEF Count
<1>6. ASSUME NEW q \in Requests, Insert(q)
      PROVE  GroupInv'
  <2>1. CASE AbortTx(q)
    BY <1>0, <1>6, <2>1, EndTxInv DEF Insert
  <2>2. CASE Write(q, q.target, q.role) /\ Goto(q, "commit")
               /\ UNCHANGED <<role, chat_lock>>
    <3>1. /\ pc[q] = "insert" /\ pc'[q] = "commit"
          /\ \A r \in Requests \ {q} : pc'[r] = pc[r] /\ draft'[r] = draft[r]
      BY <1>0, <1>6, <2>2 DEF Insert, Goto, Write, TypeOK
    <3>2. /\ q.kind = "add" /\ chat_lock = q /\ Cardinality(Members) < Limit
          /\ \A p \in People : draft[q][p] = "none"
      BY <3>1 DEF GroupInv, StepsOfKind, DraftsOfKind, RoomForAdded
    <3>3. \A p \in People : draft'[q][p] # "none" => p = q.target
      BY <1>0, <2>2, <3>2 DEF Write, TypeOK
    <3>4. QED
      BY <1>0, <2>2, <3>1, <3>2, <3>3, Quiet DEF Members
  <2>3. QED
    BY <1>6, <2>1, <2>2 DEF Insert
<1>7. ASSUME NEW q \in Requests, List(q)
      PROVE  GroupInv'
  <2>1. /\ pc[q] = "list" /\ pc'[q] \in {"delete", "refused"}
        /\ \A r \in Requests \ {q} : pc'[r] = pc[r]
        /\ UNCHANGED <<role, draft, chat_lock>>
    BY <1>0, <1>7 DEF List, Goto, TypeOK
  <2>2. q.kind = "remove" /\ \A p \in People : draft[q][p] = "none"
    BY <1>0, <2>1 DEF GroupInv, StepsOfKind, DraftsOfKind
  <2>3. QED
    BY <1>0, <2>1, <2>2, Quiet DEF Members
<1>8. ASSUME NEW q \in Requests, Delete(q)
      PROVE  GroupInv'
  <2>1. /\ pc[q] = "delete" /\ pc'[q] = "done"
        /\ \A r \in Requests \ {q} : pc'[r] = pc[r]
        /\ role' = [role EXCEPT ![q.target] = "none"]
        /\ role[q.target] = "none" \/ Writable(q, q.target)
        /\ UNCHANGED <<draft, chat_lock>>
    BY <1>0, <1>8 DEF Delete, Goto, TypeOK
  <2>2. q.kind = "remove" /\ \A p \in People : draft[q][p] = "none"
    BY <1>0, <2>1 DEF GroupInv, StepsOfKind, DraftsOfKind
  <2>3. Members' \subseteq Members
    BY <1>0, <2>1 DEF Members, TypeOK
  <2>4. \A p \in People : role'[p] = "none" /\ role[p] # "none"
          => \A r \in Requests \ {q} : draft[r][p] = "none"
    BY <1>0, <2>1 DEF Writable, TypeOK
  <2>5. QED
    BY <1>0, <2>1, <2>2, <2>3, <2>4, Quiet
<1>9. ASSUME NEW q \in Requests, Find(q) \/ FindSelf(q)
      PROVE  GroupInv'
  <2>0. pc[q] \in {"find", "find_self"}
    BY <1>9 DEF Find, FindSelf
  <2>1. CASE EndTx(q, "refused")
    BY <1>0, <2>0, <2>1, EndTxInv
  <2>2. CASE /\ Goto(q, "update") \/ Goto(q, "update_self")
             /\ UNCHANGED <<role, draft, chat_lock>>
    <3>1. /\ pc'[q] \in {"update", "update_self"}
          /\ \A r \in Requests \ {q} : pc'[r] = pc[r]
      BY <1>0, <2>2 DEF Goto, TypeOK
    <3>2. q.kind = "role" /\ \A p \in People : draft[q][p] # "none" => role[p] # "none"
      BY <2>0 DEF GroupInv, StepsOfKind, DraftsOfKind
    <3>3. QED
      BY <1>0, <2>2, <3>1, <3>2, Quiet DEF Members
  <2>3. QED
    BY <1>9, <2>1, <2>2 DEF Find, FindSelf
<1>10. ASSUME NEW q \in Requests, Update(q) \/ UpdateSelf(q)
       PROVE  GroupInv'
  <2>1. PICK p \in People, new_role \in Row : UpdateRow(q, p, new_role)
    BY <1>10 DEF Update, UpdateSelf, Request, Row, Roles
  <2>2. /\ pc[q] \in {"update", "update_self"}
        /\ pc'[q] \in {"find_self", "commit"}
        /\ \A r \in Requests \ {q} : pc'[r] = pc[r]
        /\ UNCHANGED <<role, chat_lock>>
    BY <1>0, <1>10 DEF Update, UpdateSelf, Goto, TypeOK
  <2>3. q.kind = "role"
    BY <2>2 DEF GroupInv, StepsOfKind
  <2>4. /\ \A r \in Requests \ {q} : draft'[r] = draft[r]
        /\ \A o \in People : draft'[q][o] # "none"
             => draft[q][o] # "none" \/ role[o] # "none"
    BY <1>0, <2>1 DEF UpdateRow, Write, TypeOK
  <2>5. \A o \in People : draft'[q][o] # "none" => role[o] # "none"
    BY <2>3, <2>4 DEF GroupInv, DraftsOfKind
  <2>6. QED
    BY <1>0, <2>2, <2>3, <2>4, <2>5, Quiet DEF Members
<1>11. ASSUME NEW q \in Requests, DeadlockVictim(q) \/ Fails(q)
       PROVE  GroupInv'
  BY <1>0, <1>11, EndTxInv DEF DeadlockVictim, Fails
<1>12. CASE UNCHANGED vars
  BY <1>12 DEF vars, GroupInv, TypeOK, WithinLimit, RoomForAdded, StepsOfKind,
               DraftsOfKind, Members
<1>13. QED
  BY <1>1, <1>2, <1>3, <1>4, <1>5, <1>6, <1>7, <1>8, <1>9, <1>10, <1>11, <1>12
     DEF Next, Handle

(* The inductive invariant holds throughout. *)
LEMMA Invariance == Spec => []GroupInv
<1>1. Init => GroupInv
  <2> SUFFICES ASSUME Init
               PROVE  GroupInv
    OBVIOUS
  <2>1. TypeOK
    BY DEF Init, TypeOK, NoRows, Row, Pcs
  <2>2. Cardinality(Members) = 0
    BY FS_EmptySet DEF Init, Members, NoRows
  <2>3. WithinLimit
    BY <2>2 DEF WithinLimit
  <2>4. RoomForAdded /\ StepsOfKind /\ DraftsOfKind
    BY DEF Init, RoomForAdded, StepsOfKind, DraftsOfKind, NoRows
  <2>5. QED
    BY <2>1, <2>3, <2>4 DEF GroupInv
<1>2. QED
  BY <1>1, InvStep, PTL DEF Spec

(* No interleaving of requests takes a group over its limit, whatever the  *)
(* limit, the number of requests and the failures of statements.           *)
THEOREM LimitHolds == Spec => []WithinLimit
<1>1. GroupInv => WithinLimit
  BY DEF GroupInv
<1>2. QED
  BY <1>1, Invariance, PTL

(* A removed member does not come back through a role change: only the     *)
(* COMMIT of an add gives a row to a user of an existing group.            *)
THEOREM RowsComeFromAdds == Spec => OnlyAddsJoin
<1> DEFINE Joins(p) == Created /\ role[p] = "none" /\ role'[p] # "none"
<1> DEFINE Adds(p) == \E q \in Requests : q.kind = "add" /\ q.target = p
                        /\ pc[q] = "commit" /\ pc'[q] = "done"
<1>1. GroupInv /\ [Next]_vars => [\A p \in People : Joins(p) => Adds(p)]_vars
  <2> SUFFICES ASSUME GroupInv, Next, NEW p \in People, Joins(p)
               PROVE  Adds(p)
    OBVIOUS
  <2>0. TypeOK
    BY DEF GroupInv
  <2>1. ASSUME NEW q \in Requests, NEW result, EndTx(q, result)
        PROVE  q.kind = "add" /\ q.target = p /\ pc[q] = "commit"
    <3>1. draft[q][p] # "none"
      BY <2>1 DEF EndTx
    <3>2. QED
      BY <3>1 DEF GroupInv, DraftsOfKind
  <2>2. ASSUME NEW q \in Requests, Commit(q)
        PROVE  Adds(p)
    <3>1. EndTx(q, "done") /\ pc'[q] = "done"
      BY <2>0, <2>2 DEF Commit, EndTx, Goto, TypeOK
    <3>2. QED
      BY <2>1, <3>1
  <2>3. ASSUME NEW q \in Requests, Delete(q)
        PROVE  FALSE
    BY <2>0, <2>3 DEF Delete, TypeOK
  <2>4. ASSUME NEW q \in Requests, Count(q) \/ Find(q) \/ FindSelf(q)
        PROVE  FALSE
    <3>1. EndTx(q, "refused") /\ pc[q] # "commit"
      BY <2>4 DEF Count, Find, FindSelf
    <3>2. QED
      BY <2>1, <3>1
  <2>5. ASSUME UNCHANGED role
        PROVE  FALSE
    BY <2>5
  <2>6. ~(\E list \in Lists : CreateGroup(list))
    BY DEF CreateGroup
  <2>7. ASSUME NEW q \in Requests,
               \/ Ask(q) \/ Fails(q) \/ LockChat(q) \/ Insert(q) \/ List(q)
               \/ Update(q) \/ UpdateSelf(q) \/ DeadlockVictim(q)
        PROVE  UNCHANGED role
    BY <2>7 DEF Ask, Fails, LockChat, Insert, List, Update, UpdateSelf,
                DeadlockVictim, AbortTx
  <2>8. QED
    BY <2>2, <2>3, <2>4, <2>5, <2>6, <2>7 DEF Next, Handle
<1>2. QED
  BY <1>1, Invariance, PTL DEF Spec, OnlyAddsJoin

-----------------------------------------------------------------------------
(* One owner *)

(* A step of one request leaves the others as they are. *)
LEMMA OneMoves ==
  ASSUME TypeOK, NEW q \in Requests, NEW next \in Pcs,
         Goto(q, next)
  PROVE  pc'[q] = next /\ \A r \in Requests \ {q} : pc'[r] = pc[r]
BY DEF Goto, TypeOK

(* Every step of a request is one that starts or one that goes on. *)
LEMMA StepMoves ==
  ASSUME TypeOK, NEW q \in Requests, Ask(q) \/ Handle(q) \/ Fails(q)
  PROVE  \E next \in Pcs \ {"new"} : Goto(q, next)
<1>1. ASSUME Ask(q)
      PROVE  \E next \in Pcs \ {"new"} : Goto(q, next)
  <2>1. q.kind \in {"add", "remove", "role"}
    BY DEF Request
  <2>2. FirstStep[q.kind] \in Pcs \ {"new"}
    BY <2>1 DEF FirstStep, Pcs
  <2>3. QED
    BY <1>1, <2>2 DEF Ask, Pcs
<1>2. ASSUME Count(q) \/ Insert(q) \/ Find(q) \/ FindSelf(q) \/ Commit(q)
      PROVE  \E next \in Pcs \ {"new"} : Goto(q, next)
  BY <1>2 DEF Count, Insert, Find, FindSelf, Commit, EndTx, AbortTx, Pcs
<1>3. ASSUME LockChat(q) \/ List(q) \/ Delete(q) \/ Update(q) \/ UpdateSelf(q)
      PROVE  \E next \in Pcs \ {"new"} : Goto(q, next)
  BY <1>3 DEF LockChat, List, Delete, Update, UpdateSelf, Pcs
<1>4. ASSUME DeadlockVictim(q) \/ Fails(q)
      PROVE  \E next \in Pcs \ {"new"} : Goto(q, next)
  BY <1>4 DEF DeadlockVictim, Fails, AbortTx, Pcs
<1>5. QED
  BY <1>1, <1>2, <1>3, <1>4 DEF Handle

(* A request once made stays made. *)
LEMMA MadeGrows ==
  ASSUME TypeOK, [Next]_vars
  PROVE  Made \subseteq Made'
<1>1. ASSUME NEW list \in Lists, CreateGroup(list)
      PROVE  Made \subseteq Made'
  BY <1>1 DEF CreateGroup, Made
<1>2. ASSUME NEW q \in Requests, Ask(q) \/ Handle(q) \/ Fails(q)
      PROVE  Made \subseteq Made'
  <2>1. PICK next \in Pcs \ {"new"} : Goto(q, next)
    BY <1>2, StepMoves
  <2>2. QED
    BY <2>1, OneMoves DEF Made
<1>3. CASE UNCHANGED vars
  BY <1>3 DEF vars, Made
<1>4. QED
  BY <1>1, <1>2, <1>3 DEF Next

(* So requests that have not overlapped yet did not before. *)
LEMMA QuietBefore ==
  ASSUME TypeOK, [Next]_vars, OneAtATime', ToOthers'
  PROVE  OneAtATime /\ ToOthers
BY MadeGrows DEF OneAtATime, ToOthers

(* What is left to show of a step of the one request under way. *)
LEMMA SoleStep ==
  ASSUME TypeOK, Undisturbed, NEW q \in Requests, InFlight \subseteq {q},
         \A r \in Requests \ {q} : pc'[r] = pc[r] /\ draft'[r] = draft[r],
         OnlyOwner',
         q \in InFlight' => StillAllowed(q)',
         draft'[q] = [p \in People |-> Written(q, p)']
  PROVE  Undisturbed'
<1>1. InFlight' \subseteq {q}
  BY DEF InFlight
<1>2. AtMostOneUnderWay' /\ \A r \in InFlight' : StillAllowed(r)'
  BY <1>1 DEF AtMostOneUnderWay
<1>3. ASSUME NEW r \in Requests
      PROVE  draft'[r] = [p \in People |-> Written(r, p)']
  <2>1. CASE r = q
    BY <2>1
  <2>2. CASE r # q
    <3>1. \A p \in People : Written(r, p)' = Written(r, p)
      BY <2>2 DEF Written
    <3>2. draft'[r] = [p \in People |-> Written(r, p)]
      BY <2>2 DEF Undisturbed, DraftsAsWritten
    <3>3. QED
      BY <3>1, <3>2, Zenon
  <2>3. QED
    BY <2>1, <2>2
<1>4. DraftsAsWritten'
  BY <1>3 DEF DraftsAsWritten
<1>5. QED
  BY <1>2, <1>4 DEF Undisturbed

(* A transaction that wrote nothing leaves the rows as they are. *)
LEMMA EmptyTx ==
  ASSUME TypeOK, DraftsAsWritten, NEW q \in Requests, NEW result,
         EndTx(q, result) \/ AbortTx(q),
         EndTx(q, result) => pc[q] \in {"count", "find"}
  PROVE  role' = role
<1>1. CASE AbortTx(q)
  BY <1>1 DEF AbortTx
<1>2. CASE EndTx(q, result)
  <2>1. \A p \in People : draft[q][p] = "none"
    BY <1>2 DEF DraftsAsWritten, Written
  <2>2. role' = [p \in People |-> role[p]]
    BY <1>2, <2>1 DEF EndTx
  <2>3. QED
    BY <2>2 DEF TypeOK
<1>3. QED
  BY <1>1, <1>2

(* A request that ends without a change of rows leaves the group in order. *)
LEMMA EndsQuietly ==
  ASSUME TypeOK, Undisturbed, NEW q \in Requests, InFlight \subseteq {q},
         NEW result \in {"done", "refused"}, EndTx(q, result) \/ AbortTx(q),
         OnlyOwner'
  PROVE  Undisturbed'
<1>1. /\ pc'[q] \in {"done", "refused"} /\ draft'[q] = NoRows
      /\ \A r \in Requests \ {q} : pc'[r] = pc[r] /\ draft'[r] = draft[r]
  BY DEF EndTx, AbortTx, Goto, TypeOK
<1>2. q \notin InFlight'
  BY <1>1 DEF InFlight
<1>3. draft'[q] = [p \in People |-> Written(q, p)']
  BY <1>1 DEF NoRows, Written
<1>4. QED
  BY <1>1, <1>2, <1>3, SoleStep

(* A step that changes neither rows nor drafts, of a request that was      *)
(* allowed what it asks for.                                               *)
LEMMA ReadsOnly ==
  ASSUME TypeOK, Undisturbed, NEW q \in InFlight, NEW next \in Pcs,
         Goto(q, next), UNCHANGED <<role, draft, asked>>,
         \A p \in People : Written(q, p)' = Written(q, p),
         next = "delete" => Removable(q),
         next = "insert" => q.role # "owner",
         next # "commit",
         next \in {"update", "find_self", "update_self"}
           => role[q.target] # "none",
         next \in {"find_self", "update_self"} => q.role = "owner"
  PROVE  Undisturbed'
<1>1. q \in Requests /\ InFlight \subseteq {q} /\ StillAllowed(q)
  BY DEF Undisturbed, AtMostOneUnderWay, InFlight
<1>2. pc'[q] = next /\ \A r \in Requests \ {q} : pc'[r] = pc[r] /\ draft'[r] = draft[r]
  BY <1>1, OneMoves
<1>3. OnlyOwner' /\ Members' = Members
  BY DEF Undisturbed, OnlyOwner, Members
<1>4. StillAllowed(q)'
  BY <1>1, <1>2, <1>3 DEF StillAllowed, Allowed, Removable
<1>5. draft'[q] = [p \in People |-> Written(q, p)']
  <2>1. draft[q] = [p \in People |-> Written(q, p)]
    BY <1>1 DEF Undisturbed, DraftsAsWritten
  <2>2. QED
    BY <2>1
<1>6. QED
  BY <1>1, <1>2, <1>3, <1>4, <1>5, SoleStep

(* The COMMIT of an add, of a change of role and of a transfer *)
LEMMA CommitStep ==
  ASSUME GroupInv, Undisturbed, NEW q \in Requests, Commit(q), ToOthers
  PROVE  Undisturbed'
<1>0. TypeOK /\ StepsOfKind /\ q.target \in People /\ q.by \in People
  BY DEF GroupInv, Request
<1>1. EndTx(q, "done") /\ pc[q] = "commit" /\ q.kind \in {"add", "role"}
  BY <1>0 DEF Commit, StepsOfKind
<1>2. /\ q \in InFlight /\ InFlight \subseteq {q} /\ StillAllowed(q)
      /\ q \in Made
  BY <1>1 DEF Undisturbed, AtMostOneUnderWay, InFlight, Made
<1>3. \A p \in People : draft[q][p] = Written(q, p)
  BY DEF Undisturbed, DraftsAsWritten
<1>4. \A p \in People : role'[p] =
        IF Written(q, p) # "none" THEN Written(q, p) ELSE role[p]
  BY <1>1, <1>3 DEF EndTx
<1>5. q.role # "none" /\ role[q.by] # "none"
  BY <1>2 DEF StillAllowed, Allowed, Request, Roles
<1>6. PICK o \in People : \A p \in People : role[p] = "owner" <=> p = o
  BY <1>0, <1>5 DEF Undisturbed, OnlyOwner, Members
<1>7. CASE q.kind = "add"
  <2>1. \A p \in People : role'[p] = IF p = q.target THEN q.role ELSE role[p]
    BY <1>1, <1>4, <1>5, <1>7 DEF Written
  <2>2. q.role # "owner" /\ role[q.target] = "none"
    BY <1>1, <1>2, <1>7 DEF StillAllowed
  <2>3. \A p \in People : role'[p] = "owner" <=> p = o
    BY <1>6, <2>1, <2>2
  <2>4. OnlyOwner'
    BY <2>3 DEF OnlyOwner
  <2>5. QED
    BY <1>0, <1>1, <1>2, <2>4, EndsQuietly
<1>8. CASE q.kind = "role" /\ q.role # "owner"
  <2>1. \A p \in People : role'[p] = IF p = q.target THEN q.role ELSE role[p]
    BY <1>1, <1>4, <1>5, <1>8 DEF Written
  <2>2. role[q.by] = "owner" /\ q.by # q.target
    BY <1>2, <1>8 DEF StillAllowed, Allowed
  <2>3. \A p \in People : role'[p] = "owner" <=> p = o
    BY <1>0, <1>6, <1>8, <2>1, <2>2
  <2>4. OnlyOwner'
    BY <2>3 DEF OnlyOwner
  <2>5. QED
    BY <1>0, <1>1, <1>2, <2>4, EndsQuietly
<1>9. CASE q.kind = "role" /\ q.role = "owner"
  <2>1. role[q.by] = "owner" /\ q.by # q.target
    BY <1>2, <1>9 DEF StillAllowed, Allowed, ToOthers
  <2>2. \A p \in People : role'[p] =
          IF p = q.target THEN "owner" ELSE IF p = q.by THEN "admin" ELSE role[p]
    BY <1>1, <1>4, <1>5, <1>9 DEF Written
  <2>3. \A p \in People : role'[p] = "owner" <=> p = q.target
    BY <1>0, <1>6, <2>1, <2>2
  <2>4. OnlyOwner'
    BY <1>0, <2>3 DEF OnlyOwner
  <2>5. QED
    BY <1>0, <1>1, <1>2, <2>4, EndsQuietly
<1>10. QED
  BY <1>1, <1>7, <1>8, <1>9

(* A removal takes the owner only when nobody else is left. *)
LEMMA DeleteStep ==
  ASSUME TypeOK, Undisturbed, NEW q \in Requests, StepsOfKind, Delete(q)
  PROVE  Undisturbed'
<1>0. q.target \in People /\ q.by \in People
  BY DEF Request
<1>1. /\ pc[q] = "delete" /\ q.kind = "remove" /\ pc'[q] = "done"
      /\ \A r \in Requests \ {q} : pc'[r] = pc[r] /\ draft'[r] = draft[r]
      /\ role' = [role EXCEPT ![q.target] = "none"]
      /\ UNCHANGED <<draft, asked>>
  BY DEF Delete, StepsOfKind, Goto, TypeOK
<1>2. q \in InFlight /\ InFlight \subseteq {q} /\ StillAllowed(q)
  BY <1>1 DEF Undisturbed, AtMostOneUnderWay, InFlight
<1>3. Removable(q) /\ Allowed(q) /\ asked[q] = role[q.by]
  BY <1>1, <1>2 DEF StillAllowed
<1>4. PICK o \in People : \A p \in People : role[p] = "owner" <=> p = o
  BY <1>0, <1>3 DEF Undisturbed, OnlyOwner, Members, Allowed
<1>5. \A p \in People : role'[p] = IF p = q.target THEN "none" ELSE role[p]
  BY <1>1 DEF TypeOK
<1>6. OnlyOwner'
  <2>1. CASE q.target # o
    <3>1. \A p \in People : role'[p] = "owner" <=> p = o
      BY <1>4, <1>5, <2>1
    <3>2. QED
      BY <3>1 DEF OnlyOwner
  <2>2. CASE q.target = o
    <3>1. role[q.target] = "owner"
      BY <1>0, <1>4, <2>2
    <3>2. q.by = q.target
      <4>1. SUFFICES ASSUME q.by # q.target
                     PROVE  FALSE
        OBVIOUS
      <4>2. role[q.by] # "owner" /\ role[q.by] # "admin"
        BY <1>0, <1>3, <1>4, <2>2, <3>1, <4>1 DEF Removable
      <4>3. role[q.by] = "member"
        BY <1>0, <1>3, <4>2 DEF TypeOK, Row, Roles, Allowed
      <4>4. QED
        BY <1>1, <1>3, <4>1, <4>3 DEF Allowed
    <3>3. Cardinality(Members) <= 1
      BY <1>3, <3>1, <3>2 DEF Removable
    <3>4. q.target \in Members
      BY <1>0, <3>1 DEF Members
    <3>5. Members = {q.target}
      <4>1. Cardinality({q.target}) = 1 /\ {q.target} \subseteq Members
        BY <3>4, FS_Singleton
      <4>2. Cardinality(Members) <= Cardinality({q.target})
        BY <3>3, <4>1
      <4>3. QED
        BY <4>1, <4>2, MembersFinite, FS_Subset
    <3>6. Members' = {}
      BY <1>5, <3>5 DEF Members
    <3>7. QED
      BY <3>6 DEF OnlyOwner
  <2>3. QED
    BY <2>1, <2>2
<1>7. draft'[q] = [p \in People |-> Written(q, p)']
  BY <1>1 DEF Undisturbed, DraftsAsWritten, Written
<1>8. q \notin InFlight'
  BY <1>1 DEF InFlight
<1>9. QED
  BY <1>1, <1>2, <1>6, <1>7, <1>8, SoleStep

(* An UPDATE of a row that is there, by the one request under way *)
LEMMA UpdateStep ==
  ASSUME TypeOK, TypeOK', Undisturbed, NEW q \in Requests, StepsOfKind,
         ToOthers, Update(q) \/ UpdateSelf(q)
  PROVE  Undisturbed'
<1>0. q.target \in People /\ q.by \in People
  BY DEF Request
<1>1. /\ pc[q] \in {"update", "update_self"} /\ q.kind = "role"
      /\ UNCHANGED <<role, asked>>
  BY DEF Update, UpdateSelf, StepsOfKind
<1>2. q \in InFlight /\ InFlight \subseteq {q} /\ StillAllowed(q) /\ q \in Made
  BY <1>1 DEF Undisturbed, AtMostOneUnderWay, InFlight, Made
<1>3. /\ role[q.target] # "none" /\ role[q.by] # "none"
      /\ pc[q] = "update_self" => q.role = "owner"
      /\ q.role = "owner" => q.by # q.target
  BY <1>1, <1>2 DEF StillAllowed, Allowed, ToOthers
<1>4. draft[q] = [p \in People |-> Written(q, p)]
  BY DEF Undisturbed, DraftsAsWritten
<1>5. OnlyOwner'
  BY <1>1 DEF Undisturbed, OnlyOwner, Members
<1>6. CASE Update(q)
  <2>1. /\ pc[q] = "update"
        /\ pc'[q] = (IF q.role = "owner" THEN "find_self" ELSE "commit")
        /\ \A r \in Requests \ {q} : pc'[r] = pc[r] /\ draft'[r] = draft[r]
        /\ draft'[q] = [draft[q] EXCEPT ![q.target] = q.role]
    BY <1>0, <1>3, <1>6 DEF Update, UpdateRow, Write, Goto, TypeOK
  <2>2. \A p \in People : Written(q, p)' = IF p = q.target THEN q.role ELSE "none"
    BY <1>1, <2>1 DEF Written
  <2>3. \A p \in People : Written(q, p) = "none"
    BY <2>1 DEF Written
  <2>4. draft'[q] = [p \in People |-> Written(q, p)']
    BY <1>0, <1>4, <2>1, <2>2, <2>3
  <2>5. StillAllowed(q)'
    BY <1>1, <1>2, <1>3, <2>1 DEF StillAllowed, Allowed
  <2>6. QED
    BY <1>2, <1>5, <2>1, <2>4, <2>5, SoleStep
<1>7. CASE UpdateSelf(q)
  <2>1. /\ pc[q] = "update_self" /\ pc'[q] = "commit"
        /\ \A r \in Requests \ {q} : pc'[r] = pc[r] /\ draft'[r] = draft[r]
        /\ draft'[q] = [draft[q] EXCEPT ![q.by] = "admin"]
    BY <1>0, <1>3, <1>7 DEF UpdateSelf, UpdateRow, Write, Goto, TypeOK
  <2>2. \A p \in People : Written(q, p)' =
          IF p = q.target THEN q.role ELSE IF p = q.by THEN "admin" ELSE "none"
    BY <1>1, <1>3, <2>1 DEF Written
  <2>3. \A p \in People : Written(q, p) = IF p = q.target THEN q.role ELSE "none"
    BY <2>1 DEF Written
  <2>4. draft'[q] = [p \in People |-> Written(q, p)']
    BY <1>0, <1>3, <1>4, <2>1, <2>2, <2>3
  <2>5. StillAllowed(q)'
    BY <1>1, <1>2, <1>3, <2>1 DEF StillAllowed, Allowed
  <2>6. QED
    BY <1>2, <1>5, <2>1, <2>4, <2>5, SoleStep
<1>8. QED
  BY <1>6, <1>7

(* The invariant survives every step; one case per action. *)
LEMMA OwnerStep == GroupInv /\ OwnerInv /\ [Next]_vars => OwnerInv'
<1> SUFFICES ASSUME GroupInv, OwnerInv, [Next]_vars, OneAtATime', ToOthers'
             PROVE  Undisturbed'
  BY DEF OwnerInv
<1>0. /\ TypeOK /\ TypeOK' /\ StepsOfKind
      /\ OneAtATime /\ ToOthers /\ Undisturbed
      /\ \A q \in Requests : /\ q.kind \in {"add", "remove", "role"}
                             /\ q.target \in People /\ q.by \in People
  BY TypeStep, QuietBefore DEF GroupInv, OwnerInv, Request
<1>a. ASSUME NEW q \in Requests, pc[q] \notin {"new", "done", "refused"}
      PROVE  q \in InFlight /\ InFlight \subseteq {q} /\ StillAllowed(q)
  BY <1>0, <1>a DEF Undisturbed, AtMostOneUnderWay, InFlight
<1>1. ASSUME NEW list \in Lists, CreateGroup(list)
      PROVE  Undisturbed'
  <2>1. /\ list \in Seq(People) /\ Len(list) >= 1
        /\ pc = [q \in Requests |-> "new"] /\ UNCHANGED <<draft, pc>>
    BY <1>1 DEF CreateGroup, Created
  <2>2. list[1] \in People /\ list[1] \in Range(list)
    BY <2>1 DEF Range
  <2>3. \A p \in People : role'[p] = "owner" <=> p = list[1]
    BY <1>1, <2>2 DEF CreateGroup
  <2>4. OnlyOwner'
    BY <2>2, <2>3 DEF OnlyOwner
  <2>5. InFlight' = {} /\ DraftsAsWritten'
    BY <1>0, <2>1 DEF InFlight, Undisturbed, DraftsAsWritten, Written
  <2>6. QED
    BY <2>4, <2>5 DEF Undisturbed, AtMostOneUnderWay
<1>2. ASSUME NEW q \in Requests, Ask(q)
      PROVE  Undisturbed'
  <2>1. /\ pc[q] = "new" /\ UNCHANGED <<role, draft>>
        /\ asked' = [asked EXCEPT ![q] = role[q.by]]
        /\ pc'[q] = (IF Allowed(q) THEN FirstStep[q.kind] ELSE "refused")
        /\ \A r \in Requests \ {q} : pc'[r] = pc[r] /\ draft'[r] = draft[r]
    BY <1>0, <1>2 DEF Ask, Goto, TypeOK
  <2>2. pc'[q] \in {"lock", "list", "find", "refused"}
    BY <1>0, <2>1 DEF FirstStep
  <2>3. InFlight = {}
    <3>1. PICK s \in Scenarios : /\ Made \cup {q} \subseteq s.asked
                                 /\ Cardinality(InFlight) < s.overlap
      BY <1>2 DEF Ask
    <3>2. q \in Made'
      BY <2>2 DEF Made
    <3>3. s.overlap <= 1 /\ s.overlap \in Nat
      BY <3>1, <3>2 DEF OneAtATime
    <3>4. SUFFICES ASSUME NEW r \in InFlight
                   PROVE  FALSE
      OBVIOUS
    <3>5. InFlight = {r}
      BY <1>0 DEF Undisturbed, AtMostOneUnderWay
    <3>6. Cardinality(InFlight) = 1
      BY <3>5, FS_Singleton
    <3>7. QED
      BY <3>1, <3>3, <3>6
  <2>4. OnlyOwner'
    BY <1>0, <2>1 DEF Undisturbed, OnlyOwner, Members
  <2>5. q \in InFlight' => StillAllowed(q)'
    <3>1. SUFFICES ASSUME q \in InFlight'
                   PROVE  StillAllowed(q)'
      OBVIOUS
    <3>2. pc'[q] \in {"lock", "list", "find"} /\ Allowed(q)
      BY <2>1, <2>2, <3>1 DEF InFlight
    <3>3. asked'[q] = role'[q.by]
      BY <1>0, <2>1 DEF TypeOK
    <3>4. QED
      BY <2>1, <3>2, <3>3 DEF StillAllowed, Allowed
  <2>6. draft'[q] = [p \in People |-> Written(q, p)']
    BY <1>0, <2>1, <2>2 DEF Undisturbed, DraftsAsWritten, Written
  <2>7. QED
    BY <1>0, <2>1, <2>3, <2>4, <2>5, <2>6, SoleStep
<1>3. ASSUME NEW q \in Requests, LockChat(q)
      PROVE  Undisturbed'
  <2>1. /\ q \in InFlight /\ pc[q] = "lock" /\ Goto(q, "count")
        /\ UNCHANGED <<role, draft, asked>>
    BY <1>3, <1>a DEF LockChat
  <2>2. pc'[q] = "count"
    BY <1>0, <1>3, <2>1 DEF Goto, TypeOK
  <2>3. \A p \in People : Written(q, p)' = Written(q, p)
    BY <2>1, <2>2 DEF Written
  <2>4. QED
    BY <1>0, <2>1, <2>3, ReadsOnly DEF Pcs
<1>4. ASSUME NEW q \in Requests, Count(q) \/ Find(q) \/ FindSelf(q)
      PROVE  Undisturbed'
  <2>1. /\ pc[q] \in {"count", "find", "find_self"} /\ UNCHANGED asked
        /\ q \in InFlight /\ InFlight \subseteq {q} /\ StillAllowed(q)
    BY <1>4, <1>a DEF Count, Find, FindSelf
  <2>2. CASE EndTx(q, "refused")
    <3>1. pc[q] # "find_self"
      <4>1. SUFFICES ASSUME pc[q] = "find_self"
                     PROVE  FALSE
        OBVIOUS
      <4>2. FindSelf(q) /\ role[q.by] # "none"
        BY <1>4, <2>1, <4>1 DEF Count, Find, StillAllowed, Allowed
      <4>3. pc'[q] = "update_self" /\ pc'[q] = "refused"
        BY <1>0, <2>2, <4>2 DEF FindSelf, EndTx, Goto, TypeOK
      <4>4. QED
        BY <4>3
    <3>2. role' = role
      BY <1>0, <2>1, <2>2, <3>1, EmptyTx DEF Undisturbed
    <3>3. OnlyOwner'
      BY <1>0, <3>2 DEF Undisturbed, OnlyOwner, Members
    <3>4. QED
      BY <1>0, <2>1, <2>2, <3>3, EndsQuietly
  <2>3. ASSUME ~EndTx(q, "refused")
        PROVE  Undisturbed'
    <3>1. PICK next \in {"insert", "update", "update_self"} :
            /\ Goto(q, next) /\ UNCHANGED <<role, draft>>
            /\ next = "insert" => q.role # "owner"
            /\ next = "update" => pc[q] = "find" /\ role[q.target] # "none"
            /\ next = "update_self" => pc[q] = "find_self"
            /\ pc[q] = "find_self" => next = "update_self"
      BY <1>4, <2>3 DEF Count, Find, FindSelf
    <3>2. pc'[q] = next
      BY <1>0, <3>1 DEF Goto, TypeOK
    <3>3. \A p \in People : Written(q, p)' = Written(q, p)
      BY <2>1, <3>1, <3>2 DEF Written
    <3>4. next = "update_self" => role[q.target] # "none" /\ q.role = "owner"
      BY <2>1, <3>1 DEF StillAllowed
    <3>5. QED
      BY <1>0, <2>1, <3>1, <3>3, <3>4, ReadsOnly DEF Pcs
  <2>4. QED
    BY <2>2, <2>3
<1>5. ASSUME NEW q \in Requests, Insert(q)
      PROVE  Undisturbed'
  <2>1. /\ pc[q] = "insert" /\ q.kind = "add" /\ UNCHANGED <<role, asked>>
        /\ q \in InFlight /\ InFlight \subseteq {q} /\ StillAllowed(q)
    BY <1>0, <1>5, <1>a DEF Insert, StepsOfKind, AbortTx
  <2>2. OnlyOwner'
    BY <1>0, <2>1 DEF Undisturbed, OnlyOwner, Members
  <2>3. CASE AbortTx(q)
    BY <1>0, <2>1, <2>2, <2>3, EndsQuietly
  <2>4. CASE ~(role[q.target] # "none" \/ q.target \notin Users)
    <3>1. /\ pc'[q] = "commit" /\ role[q.target] = "none"
          /\ \A r \in Requests \ {q} : pc'[r] = pc[r] /\ draft'[r] = draft[r]
          /\ draft'[q] = [draft[q] EXCEPT ![q.target] = q.role]
      BY <1>0, <1>5, <2>4 DEF Insert, Write, Goto, TypeOK
    <3>2. StillAllowed(q)'
      BY <2>1, <3>1 DEF StillAllowed, Allowed
    <3>3. /\ \A p \in People : Written(q, p)' = IF p = q.target THEN q.role ELSE "none"
          /\ \A p \in People : Written(q, p) = "none"
      BY <2>1, <3>1 DEF Written
    <3>4. draft[q] = [p \in People |-> Written(q, p)]
      BY <1>0 DEF Undisturbed, DraftsAsWritten
    <3>5. draft'[q] = [p \in People |-> Written(q, p)']
      BY <1>0, <3>1, <3>3, <3>4
    <3>6. QED
      BY <1>0, <2>1, <2>2, <3>1, <3>2, <3>5, SoleStep
  <2>5. QED
    BY <1>5, <2>3, <2>4 DEF Insert
<1>6. ASSUME NEW q \in Requests, List(q)
      PROVE  Undisturbed'
  <2>1. /\ q \in InFlight /\ pc[q] = "list"
        /\ UNCHANGED <<role, draft, asked>>
    BY <1>6, <1>a DEF List
  <2>2. PICK next \in {"delete", "refused"} :
          Goto(q, next) /\ (next = "delete" => Removable(q))
    BY <1>6 DEF List
  <2>3. pc'[q] = next
    BY <1>0, <2>2 DEF Goto, TypeOK
  <2>4. \A p \in People : Written(q, p)' = Written(q, p)
    BY <2>1, <2>3 DEF Written
  <2>5. QED
    BY <1>0, <2>1, <2>2, <2>4, ReadsOnly DEF Pcs
<1>7. ASSUME NEW q \in Requests, DeadlockVictim(q) \/ Fails(q)
      PROVE  Undisturbed'
  <2>1. q \in InFlight /\ AbortTx(q)
    BY <1>7 DEF DeadlockVictim, Fails
  <2>2. InFlight \subseteq {q} /\ UNCHANGED role
    BY <1>0, <2>1 DEF Undisturbed, AtMostOneUnderWay, AbortTx
  <2>3. OnlyOwner'
    BY <1>0, <2>2 DEF Undisturbed, OnlyOwner, Members
  <2>4. QED
    BY <1>0, <2>1, <2>2, <2>3, EndsQuietly
<1>8. CASE UNCHANGED vars
  BY <1>0, <1>8 DEF vars, Undisturbed, AtMostOneUnderWay, OnlyOwner,
     StillAllowed, Allowed, Removable, DraftsAsWritten, Written, InFlight, Members
<1>9. QED
  BY <1>0, <1>1, <1>2, <1>3, <1>4, <1>5, <1>6, <1>7, <1>8, CommitStep,
     DeleteStep, UpdateStep DEF Next, Handle

(* Requests made one after the other, whatever statements of theirs fail,  *)
(* leave a group that has members with exactly one owner, as long as none  *)
(* is a transfer to its own sender.                                        *)
THEOREM OneOwnerAtATime == Spec => []OneOwner
<1>1. Init => OwnerInv
  <2> SUFFICES ASSUME Init
               PROVE  Undisturbed
    BY DEF OwnerInv
  <2>1. InFlight = {} /\ Members = {}
    BY DEF Init, InFlight, Members, NoRows
  <2>2. DraftsAsWritten
    BY DEF Init, DraftsAsWritten, Written, NoRows
  <2>3. QED
    BY <2>1, <2>2 DEF Undisturbed, AtMostOneUnderWay, OnlyOwner
<1>2. OwnerInv => OneOwner
  <2> SUFFICES ASSUME OwnerInv, OneAtATime, ToOthers, Members # {}
               PROVE  Cardinality({p \in People : role[p] = "owner"}) = 1
    BY DEF OneOwner
  <2>1. PICK o \in People : \A p \in People : role[p] = "owner" <=> p = o
    BY DEF OwnerInv, Undisturbed, OnlyOwner
  <2>2. {p \in People : role[p] = "owner"} = {o}
    BY <2>1
  <2>3. QED
    BY <2>2, FS_Singleton
<1>3. QED
  BY <1>1, <1>2, OwnerStep, Invariance, PTL DEF Spec
=============================================================================
