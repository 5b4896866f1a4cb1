--------------------------- MODULE MCSecretRelay ----------------------------
(***************************************************************************)
(* Instances of the relay: alice and bob, bob's connections, and the       *)
(* messages of small scenarios.                                            *)
(***************************************************************************)
EXTENDS SecretRelayMailbox, TLC

CONSTANTS alice, bob, carol, ghost, chatA, chatB, noConn, c1, c2

Post4(id, type, from, to, chat) ==
  [id |-> id, type |-> type, from |-> from, to |-> to, chat |-> chat]

MCUserIds == {alice, bob, carol, ghost}
MCUsers == {alice, bob, carol}
MCChats == {chatA, chatB}

Accept == Post4(1, "ACCEPT", alice, bob, chatA)
NewMessage == Post4(2, "NEW_MESSAGE", alice, bob, chatA)
Request2 == Post4(3, "REQUEST", alice, bob, chatB)
Read == Post4(4, "READ", alice, bob, chatA)
ToNobody == Post4(6, "NEW_MESSAGE", alice, ghost, chatA)

FromCarol == Post4(7, "REQUEST", carol, bob, chatB)

ToSelf == Post4(5, "REQUEST", alice, alice, chatA)

ReadToAlice == Post4(8, "READ", bob, alice, chatA)

TwoConns == [c \in {c1, c2} |-> bob]

(* A second handshake of the pair, for another chat *)
TwoHandshakes == {Accept, Request2, NewMessage}

(* A message that can be taken in, and one that cannot *)
Refused == {NewMessage, ToNobody}

TwoMessages == {NewMessage, Read}

AcceptFirst == [m \in Msgs |-> IF m = NewMessage THEN {Accept} \cap Msgs ELSE {}]

ConnSymmetry == Permutations({c1, c2})

(***************************************************************************)
(* The instances that relay_faults.cfg explores together: the messages     *)
(* posted, the connections opened, and the failed statements and stops.    *)
(* Nothing in a behaviour undoes one of these, so that a bound on the      *)
(* states explores each instance completely.                               *)
(***************************************************************************)
AllMessages ==
  {Accept, NewMessage, Request2, FromCarol, ReadToAlice, ToSelf}

Instance(msgs, conns, faults_, crashes_) ==
  [msgs |-> msgs, conns |-> conns, faults |-> faults_, crashes |-> crashes_]

Instances ==
  {\* a handshake and a message that waits for its answer
   Instance({Accept, NewMessage}, 2, 1, 0),
   Instance({Accept, NewMessage}, 2, 0, 1),
   \* rows of two senders for one acceptor
   Instance({Accept, FromCarol}, 1, 0, 0),
   \* two handshakes of a pair
   Instance({Accept, Request2}, 1, 0, 0),
   \* rows of two acceptors, one of whom connects, and a request to oneself
   Instance({ReadToAlice, ToSelf}, 1, 0, 0)}

InAnInstance ==
  \E i \in Instances :
    /\ \A m \in Msgs \ i.msgs : req[m] = "unsent"
    /\ Cardinality({c \in Conns : conn[c] # "idle"}) <= i.conns
    /\ faults <= i.faults /\ crashes <= i.crashes
=============================================================================
