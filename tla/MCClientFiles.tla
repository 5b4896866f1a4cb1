---------------------------- MODULE MCClientFiles ----------------------------
(***************************************************************************)
(* Three files, one of them a voice, and two messages.                      *)
(***************************************************************************)
EXTENDS ClientFiles

CONSTANTS photo, paper, voice

Bounds(kinds, files, faults, full, stops) ==
  [kinds |-> kinds, files |-> files,
   limits |-> [faults |-> faults, full |-> full, stops |-> stops]]

MCScenarios ==
  {Bounds({"ordinary", "secret"}, {photo, voice}, 2, 1, 1),
   Bounds({"secret"}, {photo, paper}, 2, 0, 0),
   Bounds({"ordinary", "secret"}, {photo}, 2, 1, 2)}
=============================================================================
