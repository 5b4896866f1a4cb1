---------------------------- MODULE SecretPools -----------------------------
(***************************************************************************)
(* SecretChatsRepository (server/src/repositories/SecretChatsRepository    *)
(* .cpp): the tables e2e.handshakes_pool and e2e.messages_pool that keep   *)
(* what could not be pushed to its acceptor.  Every operation is a single  *)
(* SQL statement, hence one atomic action; Postgres keeps the tables over  *)
(* a restart of the server.                                                *)
(***************************************************************************)
EXTENDS SecretMessages

VARIABLES
  handshakes_pool,  \* rows, at most one for each sender and acceptor
  messages_pool,    \* rows
  aged              \* messages whose row has been there for 30 days

poolVars == <<handshakes_pool, messages_pool, aged>>

PoolsTypeOK ==
  /\ handshakes_pool \in SUBSET Envelope
  /\ messages_pool \in SUBSET Envelope
  /\ aged \in SUBSET Msgs

PoolsInit ==
  /\ handshakes_pool = {}
  /\ messages_pool = {}
  /\ aged = {}

(* SELECT COUNT(id) FROM users WHERE id IN ($1, $2) gives 2 *)
BothUsersExist(m) == Cardinality({m.from, m.to} \cap Users) = 2

(* Mutant: one row for each acceptor *)
SameAcceptor(m, n) == m.to = n.to

(* UNIQUE(sender_id, acceptor_id) of handshakes_pool *)
SamePair(m, n) == m.from = n.from /\ m.to = n.to

RowsFor(pool, u) == {row \in pool : row.msg.to = u}

(***************************************************************************)
(* INSERT ... ON CONFLICT (sender_id, acceptor_id) DO UPDATE SET           *)
(* public_key, message_type, created_at: the chat id of the row stays.     *)
(***************************************************************************)
SaveHandshakeSignal(m) ==
  LET conflict == {row \in handshakes_pool : SamePair(row.msg, m)}
  IN /\ handshakes_pool' =
          IF conflict = {}
            THEN handshakes_pool \cup {Wrap(m)}
            ELSE (handshakes_pool \ conflict)
                   \cup {[row EXCEPT !.msg = m] : row \in conflict}
     /\ UNCHANGED <<messages_pool, aged>>

SaveEncryptedMessage(m) ==
  /\ messages_pool' = messages_pool \cup {Wrap(m)}
  /\ UNCHANGED <<handshakes_pool, aged>>

(* DELETE ... WHERE acceptor_id = $1 RETURNING ... *)
PopHandshakeSignals(u) ==
  /\ handshakes_pool' = handshakes_pool \ RowsFor(handshakes_pool, u)
  /\ UNCHANGED <<messages_pool, aged>>

PopEncryptedMessages(u) ==
  /\ messages_pool' = messages_pool \ RowsFor(messages_pool, u)
  /\ UNCHANGED <<handshakes_pool, aged>>

(* Thirty days pass over a row; an upsert gives the row a fresh created_at *)
RowAges(row) ==
  /\ row \in handshakes_pool \cup messages_pool
  /\ row.msg \notin aged
  /\ aged' = aged \cup {row.msg}
  /\ UNCHANGED <<handshakes_pool, messages_pool>>

(* removeStaleRecords, its two statements *)
RemoveStaleHandshakes ==
  /\ handshakes_pool' = {row \in handshakes_pool : row.msg \notin aged}
  /\ UNCHANGED <<messages_pool, aged>>

(* Mutant: the age of a row is not looked at *)
RemoveAllMessages ==
  /\ messages_pool' = {}
  /\ UNCHANGED <<handshakes_pool, aged>>

RemoveStaleMessages ==
  /\ messages_pool' = {row \in messages_pool : row.msg \notin aged}
  /\ UNCHANGED <<handshakes_pool, aged>>
=============================================================================
