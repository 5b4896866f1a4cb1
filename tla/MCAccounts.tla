----------------------------- MODULE MCAccounts -----------------------------
(***************************************************************************)
(* ann, who registers twice at once, bob, and a handle nobody registers.   *)
(***************************************************************************)
EXTENDS Accounts, TLC

CONSTANTS ann, bob, nobody, p1, p2, noUser,
  t1, t2, t3, t4, t5, t6

Ask(kind, by, target, password, shape) ==
  [kind |-> kind, by |-> by, target |-> target,
   password |-> password, shape |-> shape]

Register(h, p) == Ask("register", h, h, p, "ok")
Login(h, p) == Ask("login", h, h, p, "ok")
Direct(u, v) == Ask("direct", u, v, p1, "ok")

Named == <<
  (* Two registrations of one handle, and the direct chat of two users     *)
  (* asked for by both, at once                                            *)
  Register(ann, p1), Register(ann, p2), Register(bob, p1), Login(ann, p1),
  Login(bob, p1), Direct(ann, bob), Direct(bob, ann),
  (* What one user may ask, some of it malformed *)
  Login(ann, p2), Ask("find", bob, bob, p1, "ok"), Direct(ann, ann),
  Direct(ann, nobody), Ask("register", ann, ann, p1, "invalid_field"),
  Ask("login", ann, ann, p1, "no_json"),
  Ask("direct", ann, bob, p1, "missing_field")>>

(* Tries of a handle, all alike *)
Tries6 == {t1, t2, t3, t4, t5, t6}

MCRequests == DOMAIN Named \cup Tries6

MCBody ==
  [q \in MCRequests |-> IF q \in Tries6 THEN Login(nobody, p1) ELSE Named[q]]

Pairing == 1 .. 7
Single == {1, 4} \cup 8 .. 14

Bounds(asked, overlap, until, cooldown, faults_, crashes_) ==
  [asked |-> asked, overlap |-> overlap, until |-> until,
   cooldown |-> cooldown, faults |-> faults_, crashes |-> crashes_]

MCScenarios ==
  {Bounds(Pairing, 3, 0, 1, 0, 0), Bounds(Pairing, 2, 0, 1, 1, 0),
   Bounds(Pairing, 2, 0, 1, 0, 1), Bounds(Single, 1, 0, 1, 1, 1),
   Bounds(Tries6 \ {t6}, 2, 2, 1, 0, 0), Bounds(Tries6, 2, 4, 5, 0, 0)}

MCSymmetry == Permutations({t1, t2, t3, t4})
=============================================================================
