---------------------------- MODULE GroupMembers ----------------------------
(***************************************************************************)
(* The members of one group chat: createGroup, addGroupChatMember,         *)
(* removeMember and updateMemberRole of ChatService over ChatRepository.   *)
(*                                                                         *)
(* Each request is a coroutine; it can be overtaken at every co_await,     *)
(* that is, before every SQL statement.  Statements outside a transaction  *)
(* commit at once.  Inside one, they read what is committed plus their own *)
(* writes (READ COMMITTED), and a row one transaction wrote blocks every   *)
(* other writer of that row until the transaction ends.                    *)
(***************************************************************************)
EXTENDS Naturals, Sequences, FiniteSets, Functions

CONSTANTS
  People,       \* user ids that requests name
  Users,        \* those that have a row in users
  Lists,        \* the members of createGroup, its sender first if well formed
  Requests,     \* requests to a group, each made once
  Limit,        \* members a group may have: 50
  NoTx,         \* nobody holds the chat row
  Scenarios,    \* bounds: requests made together, how many at a time
  MaxFaults     \* bound on failed statements

(* ChatRole; no request can name the fourth one, moderator *)
Roles == {"member", "admin", "owner"}

(***************************************************************************)
(* A request of a user about a target.  role is the new role for an add or *)
(* a role change, and of no meaning for a remove.                          *)
(***************************************************************************)
Request == [id : Nat, kind : {"add", "remove", "role"}, by : People,
            target : People, role : Roles]

ASSUME GroupAssumption ==
  /\ Users \subseteq People
  /\ Lists \subseteq Seq(People) \ {<<>>}
  /\ Requests \subseteq Request
  /\ NoTx \notin Requests
  /\ Scenarios \subseteq [asked : SUBSET Requests, overlap : Nat]
  /\ Limit \in Nat \ {0}
  /\ MaxFaults \in Nat
  /\ IsFiniteSet(People)

VARIABLES
  role,       \* chat_members of the group as committed; "none" is no row
  draft,      \* what each open transaction wrote; "none" is nothing
  chat_lock,  \* the transaction that locked the row of the chat
  asked,      \* the role of its sender each request read first
  pc,         \* where each request stands
  faults      \* failed statements so far

vars == <<role, draft, chat_lock, asked, pc, faults>>

Row == Roles \cup {"none"}

NoRows == [p \in People |-> "none"]

(* add: lock, count, insert, commit.  remove: list, delete.  role: find,   *)
(* update, for a transfer also find_self, update_self; commit.             *)
Pcs == {"new", "lock", "count", "insert", "list", "delete", "find", "update",
        "find_self", "update_self", "commit", "done", "refused"}

TypeOK ==
  /\ role \in [People -> Row]
  /\ draft \in [Requests -> [People -> Row]]
  /\ chat_lock \in Requests \cup {NoTx}
  /\ asked \in [Requests -> Row]
  /\ pc \in [Requests -> Pcs]
  /\ faults \in 0 .. MaxFaults

Init ==
  /\ role = NoRows
  /\ draft = [q \in Requests |-> NoRows]
  /\ chat_lock = NoTx
  /\ asked = [q \in Requests |-> "none"]
  /\ pc = [q \in Requests |-> "new"]
  /\ faults = 0

Members == {p \in People : role[p] # "none"}

(* Nobody knows the id of a group before createGroup returns it *)
Created == pc # [q \in Requests |-> "new"] \/ Members # {}

-----------------------------------------------------------------------------
(* One transaction: the sender, first in the list, is the owner.  A user   *)
(* twice in the list or unknown violates a key, and nothing is created.    *)
CreateGroup(list) ==
  /\ ~Created
  /\ Len(list) <= Limit
  /\ IsInjective(list)
  /\ Range(list) \subseteq Users
  /\ role' = [p \in People |-> IF p \notin Range(list) THEN "none"
                               ELSE IF p = list[1] THEN "owner" ELSE "member"]
  /\ UNCHANGED <<draft, chat_lock, asked, pc, faults>>

-----------------------------------------------------------------------------
Goto(q, next) == pc' = [pc EXCEPT ![q] = next]

InFlight == {q \in Requests : pc[q] \notin {"new", "done", "refused"}}

Made == {q \in Requests : pc[q] # "new"}

(* What the role of the sender, read outside any transaction, allows *)
Allowed(q) ==
  /\ role[q.by] # "none"
  /\ q.kind = "add" => role[q.by] # "member"
  /\ q.kind = "remove" /\ role[q.by] = "member" => q.by = q.target
  /\ q.kind = "role" => /\ role[q.by] = "owner"
                        /\ q.by = q.target => q.role = "owner"

FirstStep == [add |-> "lock", remove |-> "list", role |-> "find"]

Ask(q) ==
  /\ Created
  /\ pc[q] = "new"
  /\ \E s \in Scenarios : /\ Made \cup {q} \subseteq s.asked
                          /\ Cardinality(InFlight) < s.overlap
  /\ asked' = [asked EXCEPT ![q] = role[q.by]]
  /\ Goto(q, IF Allowed(q) THEN FirstStep[q.kind] ELSE "refused")
  /\ UNCHANGED <<role, draft, chat_lock, faults>>

(* No other transaction has written the row of p *)
Writable(q, p) == \A r \in Requests \ {q} : draft[r][p] = "none"

Write(q, p, new_role) == draft' = [draft EXCEPT ![q][p] = new_role]

Unlocked(q) == IF chat_lock = q THEN NoTx ELSE chat_lock

(* Drogon commits a transaction that is destroyed, COMMIT or not *)
EndTx(q, result) ==
  /\ role' = [p \in People |->
       IF draft[q][p] # "none" THEN draft[q][p] ELSE role[p]]
  /\ draft' = [draft EXCEPT ![q] = NoRows]
  /\ chat_lock' = Unlocked(q)
  /\ Goto(q, result)

(* It rolls back one in which a statement fails *)
AbortTx(q) ==
  /\ draft' = [draft EXCEPT ![q] = NoRows]
  /\ chat_lock' = Unlocked(q)
  /\ Goto(q, "refused")
  /\ UNCHANGED role

Commit(q) ==
  /\ pc[q] = "commit"
  /\ EndTx(q, "done")
  /\ UNCHANGED <<asked, faults>>

-----------------------------------------------------------------------------
(* addGroupChatMember *)

(* Mutant: SELECT without FOR UPDATE *)
LockChatNot(q) ==
  /\ pc[q] = "lock"
  /\ Goto(q, "count")
  /\ UNCHANGED <<role, draft, chat_lock, asked, faults>>

(* SELECT * FROM chats ... FOR UPDATE *)
LockChat(q) ==
  /\ pc[q] = "lock"
  /\ chat_lock = NoTx
  /\ chat_lock' = q
  /\ Goto(q, "count")
  /\ UNCHANGED <<role, draft, asked, faults>>

(* Mutant: the refused request keeps its transaction *)
CountKeepsLock(q) ==
  /\ pc[q] = "count"
  /\ Goto(q, IF Cardinality(Members) >= Limit \/ q.role = "owner"
               THEN "refused" ELSE "insert")
  /\ UNCHANGED <<role, draft, chat_lock, asked, faults>>

Count(q) ==
  /\ pc[q] = "count"
  /\ IF Cardinality(Members) >= Limit \/ q.role = "owner"
       THEN EndTx(q, "refused")
       ELSE Goto(q, "insert") /\ UNCHANGED <<role, draft, chat_lock>>
  /\ UNCHANGED <<asked, faults>>

(* A member already, or no user at all, violates a key *)
Insert(q) ==
  /\ pc[q] = "insert"
  /\ Writable(q, q.target)
  /\ IF role[q.target] # "none" \/ q.target \notin Users
       THEN AbortTx(q)
       ELSE /\ Write(q, q.target, q.role)
            /\ Goto(q, "commit")
            /\ UNCHANGED <<role, chat_lock>>
  /\ UNCHANGED <<asked, faults>>

-----------------------------------------------------------------------------
(* removeMember *)

(* The checks on the list of members that has just been read *)
Removable(q) ==
  /\ role[q.target] # "none"
  /\ q.by = q.target /\ asked[q] = "owner" => Cardinality(Members) <= 1
  /\ q.by # q.target /\ asked[q] = "admin" => role[q.target] = "member"

(* Mutant: an owner may leave as anybody else *)
ListOwnerLeaves(q) ==
  /\ pc[q] = "list"
  /\ Goto(q, IF role[q.target] # "none" THEN "delete" ELSE "refused")
  /\ UNCHANGED <<role, draft, chat_lock, asked, faults>>

List(q) ==
  /\ pc[q] = "list"
  /\ Goto(q, IF Removable(q) THEN "delete" ELSE "refused")
  /\ UNCHANGED <<role, draft, chat_lock, asked, faults>>

(* Outside a transaction; deleting no row is no error *)
Delete(q) ==
  /\ pc[q] = "delete"
  /\ role[q.target] = "none" \/ Writable(q, q.target)
  /\ role' = [role EXCEPT ![q.target] = "none"]
  /\ Goto(q, "done")
  /\ UNCHANGED <<draft, chat_lock, asked, faults>>

-----------------------------------------------------------------------------
(* updateMemberRole *)

Find(q) ==
  /\ pc[q] = "find"
  /\ IF role[q.target] = "none"
       THEN EndTx(q, "refused")
       ELSE Goto(q, "update") /\ UNCHANGED <<role, draft, chat_lock>>
  /\ UNCHANGED <<asked, faults>>

(* Mutant: the row is written whether it is still there or not *)
UpsertRow(q, p, new_role) == Writable(q, p) /\ Write(q, p, new_role)

(* UPDATE of a row that may have been deleted since it was found *)
UpdateRow(q, p, new_role) ==
  IF role[p] = "none"
    THEN UNCHANGED draft
    ELSE Writable(q, p) /\ Write(q, p, new_role)

Update(q) ==
  /\ pc[q] = "update"
  /\ UpdateRow(q, q.target, q.role)
  /\ Goto(q, IF q.role = "owner" THEN "find_self" ELSE "commit")
  /\ UNCHANGED <<role, chat_lock, asked, faults>>

FindSelf(q) ==
  /\ pc[q] = "find_self"
  /\ IF role[q.by] = "none"
       THEN EndTx(q, "refused")
       ELSE Goto(q, "update_self") /\ UNCHANGED <<role, draft, chat_lock>>
  /\ UNCHANGED <<asked, faults>>

UpdateSelf(q) ==
  /\ pc[q] = "update_self"
  /\ UpdateRow(q, q.by, "admin")
  /\ Goto(q, "commit")
  /\ UNCHANGED <<role, chat_lock, asked, faults>>

-----------------------------------------------------------------------------
(* A waiting transaction, and those whose write it waits for *)

Wants(q) ==
  IF pc[q] \in {"update", "insert"} THEN {q.target}
  ELSE IF pc[q] = "update_self" THEN {q.by} ELSE {}

WaitsFor(q, r) ==
  r # q /\ \E p \in Wants(q) : role[p] # "none" /\ draft[r][p] # "none"

(* Postgres breaks a circle of waiting transactions by failing one of them *)
DeadlockVictim(q) ==
  /\ \E circle \in SUBSET InFlight :
       /\ q \in circle
       /\ \A r \in circle : \E s \in circle : WaitsFor(r, s)
  /\ AbortTx(q)
  /\ UNCHANGED <<asked, faults>>

(* Any statement may fail; its request is answered with an error *)
Fails(q) ==
  /\ faults < MaxFaults
  /\ faults' = faults + 1
  /\ q \in InFlight
  /\ AbortTx(q)
  /\ UNCHANGED asked

-----------------------------------------------------------------------------
Handle(q) ==
  \/ LockChat(q) \/ Count(q) \/ Insert(q)
  \/ List(q) \/ Delete(q)
  \/ Find(q) \/ Update(q) \/ FindSelf(q) \/ UpdateSelf(q)
  \/ Commit(q) \/ DeadlockVictim(q)

Next ==
  \/ \E list \in Lists : CreateGroup(list)
  \/ \E q \in Requests : Ask(q) \/ Handle(q) \/ Fails(q)

Spec == Init /\ [][Next]_vars

(* Coroutines go on, and Postgres grants locks and looks for deadlocks *)
FairSpec == Spec /\ \A q \in Requests : WF_vars(Handle(q))

-----------------------------------------------------------------------------
(* The limit holds although members are counted in one statement and       *)
(* inserted in a later one, whatever other requests do in between.         *)
WithinLimit == Cardinality(Members) <= Limit

(* Why it holds: whoever has counted holds the chat row, alone, and there  *)
(* is room for the member it adds; nobody else's writes add a row.         *)
RoomForAdded ==
  \A q \in Requests : q.kind = "add" =>
    /\ pc[q] \in {"count", "insert", "commit"} => chat_lock = q
    /\ pc[q] \in {"insert", "commit"} => Cardinality(Members) < Limit

StepsOfKind ==
  \A q \in Requests :
    /\ pc[q] \in {"lock", "count", "insert"} => q.kind = "add"
    /\ pc[q] \in {"list", "delete"} => q.kind = "remove"
    /\ pc[q] \in {"find", "update", "find_self", "update_self"}
         => q.kind = "role"
    /\ pc[q] = "commit" => q.kind \in {"add", "role"}

DraftsOfKind ==
  \A q \in Requests, p \in People : draft[q][p] # "none" =>
    \/ q.kind = "add" /\ pc[q] = "commit" /\ p = q.target
    \/ q.kind = "role" /\ role[p] # "none"

GroupInv ==
  /\ TypeOK
  /\ WithinLimit
  /\ RoomForAdded
  /\ StepsOfKind
  /\ DraftsOfKind

(* Only an add, or the creation, gives a user a row: a role change whose   *)
(* target is removed meanwhile does not bring the target back.             *)
OnlyAddsJoin ==
  [][\A p \in People :
       Created /\ role[p] = "none" /\ role'[p] # "none" =>
         \E q \in Requests : q.kind = "add" /\ q.target = p
                               /\ pc[q] = "commit" /\ pc'[q] = "done"]_vars

(* Every request is answered, so that at last none is under way: no lock   *)
(* outlives its transaction, and no circle of waiting transactions stays.  *)
EveryRequestAnswered == <>[](InFlight = {})

(* No request made so far belongs to a scenario in which requests overlap  *)
OneAtATime ==
  \A s \in Scenarios : Made \cap s.asked # {} => s.overlap <= 1

(* Nor does one transfer the group to its own sender *)
ToOthers ==
  \A q \in Made : q.kind = "role" /\ q.role = "owner" => q.by # q.target

(* Requests that do not overlap, with failed statements and no transfer to *)
(* oneself, leave a group that has members with one owner.                 *)
OneOwner ==
  OneAtATime /\ ToOthers /\ Members # {} =>
    Cardinality({p \in People : role[p] = "owner"}) = 1

(* Why it holds: the one request under way finds the group as it left it   *)
(* when it read the role of its sender; what an add has written is no      *)
(* owner, and what a transfer has written makes one of its target before   *)
(* it makes an admin of its sender.                                        *)
AtMostOneUnderWay == \A q, r \in InFlight : q = r

OnlyOwner ==
  Members # {} =>
    \E o \in People : \A p \in People : role[p] = "owner" <=> p = o

StillAllowed(q) ==
  /\ asked[q] = role[q.by]
  /\ Allowed(q)
  /\ pc[q] = "delete" => Removable(q)
  /\ pc[q] \in {"insert", "commit"} /\ q.kind = "add" => q.role # "owner"
  /\ pc[q] = "commit" /\ q.kind = "add" => role[q.target] = "none"
  /\ pc[q] \in {"update", "find_self", "update_self"} => role[q.target] # "none"
  /\ pc[q] \in {"find_self", "update_self"} => q.role = "owner"

Written(q, p) ==
  IF p = q.target /\ pc[q] \in {"find_self", "update_self", "commit"}
    THEN q.role
  ELSE IF p = q.by /\ pc[q] = "commit" /\ q.kind = "role" /\ q.role = "owner"
    THEN "admin"
  ELSE "none"

DraftsAsWritten ==
  \A q \in Requests : draft[q] = [p \in People |-> Written(q, p)]

Undisturbed ==
  /\ AtMostOneUnderWay
  /\ OnlyOwner
  /\ \A q \in InFlight : StillAllowed(q)
  /\ DraftsAsWritten

OwnerInv == OneAtATime /\ ToOthers => Undisturbed

=============================================================================
