------------------------------ MODULE Mailbox -------------------------------
(***************************************************************************)
(* What a relay of secret messages promises its senders, with no sessions, *)
(* pools or coroutines in sight: each message has one fate; once delivered *)
(* or refused it stays so; and an accepted message for a user who was left *)
(* undisturbed is only dropped when a newer handshake replaced it or when  *)
(* it had been waiting for too long.                                       *)
(***************************************************************************)
EXTENDS SecretMessages

VARIABLES
  fate,      \* of each message
  calm,      \* users whose connection nothing has happened to
  expired    \* messages that have been waiting for too long

Fates == {"new", "held", "delivered", "refused", "dropped"}

Init ==
  /\ fate = [m \in Msgs |-> "new"]
  /\ calm = UserIds
  /\ expired = {}

(* A newer handshake between the same two users has been accepted *)
Replaced(m) ==
  \E n \in Msgs \ {m} :
    /\ IsHandshake(m) /\ IsHandshake(n)
    /\ m.from = n.from /\ m.to = n.to
    /\ fate'[n] \notin {"new", "refused"}

MayDrop(m) == m.to \notin calm' \/ m \in expired \/ Replaced(m)

Move(m) ==
  \/ fate[m] = "new" /\ fate'[m] \in {"held", "delivered", "refused"}
  \/ fate[m] = "held" /\ fate'[m] = "delivered"
  \/ fate[m] \in {"new", "held"} /\ fate'[m] = "dropped" /\ MayDrop(m)

Next ==
  /\ fate' \in [Msgs -> Fates]
  /\ \A m \in Msgs : fate'[m] = fate[m] \/ Move(m)
  /\ calm' \subseteq calm
  /\ expired \subseteq expired'

Spec == Init /\ [][Next]_<<fate, calm, expired>>
=============================================================================
