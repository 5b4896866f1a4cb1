------------------------- MODULE SecretRelayMailbox -------------------------
(***************************************************************************)
(* The relay implements a Mailbox: the refinement mapping reads the fate   *)
(* of a message off the place where the relay keeps it.                    *)
(***************************************************************************)
EXTENDS SecretRelay

Fate(m) ==
  CASE Delivered(m) -> "delivered"
    [] ~Delivered(m) /\ Held(m) -> "held"
    [] ~Delivered(m) /\ ~Held(m) ->
         CASE req[m] = "ok" -> "dropped"
           [] req[m] = "error" -> "refused"
           [] OTHER -> "new"

Box == INSTANCE Mailbox WITH
  fate <- [m \in Msgs |-> Fate(m)],
  calm <- {u \in UserIds : ~Disturbed(u)},
  expired <- aged

(* Every step of the relay is a step of the mailbox, or invisible to it:   *)
(* whatever the threads do, no message is refused after it was kept, lost  *)
(* while its acceptor stays connected, or back after it was delivered.     *)
ImplementsMailbox == Box!Spec
=============================================================================
