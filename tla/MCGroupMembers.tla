--------------------------- MODULE MCGroupMembers ---------------------------
(***************************************************************************)
(* A group that ann founds with bob, and requests of the two and of those  *)
(* who join.                                                               *)
(***************************************************************************)
EXTENDS GroupMembers

CONSTANTS ann, bob, cat, dan, nobody, noTx

MCPeople == {ann, bob, cat, dan, nobody}
MCUsers == {ann, bob, cat, dan}

Pair == <<ann, bob>>
MCLists == {Pair, <<ann, nobody>>, <<ann, ann>>, <<ann, bob, cat>>,
            <<ann, bob, cat, dan>>}

Do(id, kind, by, target, role_) ==
  [id |-> id, kind |-> kind, by |-> by, target |-> target, role |-> role_]

Add(id, by, target) == Do(id, "add", by, target, "member")
Remove(id, by, target) == Do(id, "remove", by, target, "member")
Role(id, by, target, new) == Do(id, "role", by, target, new)

(* Two adds for the last seat; a transfer made twice, the new owner's      *)
(* transfer back, and a removal by the new owner                           *)
Overlapping ==
  {Add(1, ann, cat), Add(2, ann, dan), Role(3, ann, bob, "owner"),
   Role(4, ann, bob, "owner"), Role(5, bob, ann, "owner"), Remove(6, bob, ann)}

(* Everything that one user after the other may ask for *)
OneByOne ==
  {Do(11, "add", ann, cat, "owner"), Add(12, bob, cat), Add(13, ann, nobody),
   Remove(14, ann, ann), Remove(15, bob, ann), Role(16, ann, bob, "owner")}

MCRequests == Overlapping \cup OneByOne

MCScenarios == {[asked |-> Overlapping, overlap |-> 3],
                [asked |-> OneByOne, overlap |-> 1]}
=============================================================================
