---------------------------- MODULE MCClientChats ----------------------------
(***************************************************************************)
(* ann and bob use one device; each has a chat of his own.                 *)
(***************************************************************************)
EXTENDS ClientChats, TLC

CONSTANTS ann, bob, noUser, chatA, chatB

MCMembersOf == (chatA :> {ann}) @@ (chatB :> {bob})

Bounds(kinds, logins, calls_, logouts, restarts, faults, themes, posts) ==
  [kinds |-> kinds, logins |-> logins, limits |->
     [calls |-> calls_, logouts |-> logouts, restarts |-> restarts,
      faults |-> faults, themes |-> themes, posts |-> posts]]

MCScenarios ==
  {Bounds({"login", "previews", "history", "send"}, {ann}, 5, 0, 0, 0, 0, 2),
   Bounds({"login", "previews", "history"}, {ann}, 4, 0, 0, 0, 0, 3),
   Bounds({"login", "history", "send"}, {ann}, 4, 0, 0, 1, 0, 2),
   Bounds({"login", "history", "previews"}, {ann}, 3, 0, 1, 0, 0, 2),
   Bounds({"login", "change", "direct"}, {ann}, 3, 0, 0, 1, 0, 1),
   Bounds({"login", "history", "send"}, {ann, bob}, 3, 1, 0, 0, 0, 1),
   Bounds({"login", "previews"}, {ann, bob}, 3, 1, 0, 0, 0, 1),
   Bounds({"login"}, {ann, bob}, 3, 2, 1, 1, 1, 0)}
=============================================================================
