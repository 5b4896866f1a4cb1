--------------------------- MODULE SecretMessages ---------------------------
(***************************************************************************)
(* What the clients of secret chats post to the server, and what the       *)
(* server passes on: the data the relay's components share.                *)
(***************************************************************************)
EXTENDS Naturals, FiniteSets

CONSTANTS
  UserIds,    \* ids a request may name
  Users,      \* ids that have a row in public.users
  Chats,      \* chat ids chosen by the clients
  Msgs        \* the signals and messages clients post, one per request

(* message_type; signals of the first kind are kept in handshakes_pool *)
HandshakeTypes == {"REQUEST", "ACCEPT", "DELETE"}
MessageTypes == {"NEW_MESSAGE", "READ"}

(* A posted message; id stands for its public key or encrypted payload *)
Message == [id : Nat, type : HandshakeTypes \cup MessageTypes, from : Users,
            to : UserIds, chat : Chats]

ASSUME MsgsAssumption ==
  /\ Users \subseteq UserIds
  /\ Msgs \subseteq Message
  /\ IsFiniteSet(Msgs)
  /\ IsFiniteSet(Chats)

IsHandshake(m) == m.type \in HandshakeTypes

(***************************************************************************)
(* What travels: the sender, type and key or payload of msg under a chat   *)
(* id.  A row of a pool has the same shape.  The chat id is kept beside    *)
(* msg because an upsert may leave it that of an earlier row.              *)
(***************************************************************************)
Envelope == [msg : Msgs, chat : Chats]

Wrap(m) == [msg |-> m, chat |-> m.chat]
=============================================================================
