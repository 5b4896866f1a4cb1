------------------------- MODULE SecretRelayProofs --------------------------
(***************************************************************************)
(* Proofs about the relay, for every set of users, messages, connections   *)
(* and every bound on faults and crashes.                                  *)
(***************************************************************************)
EXTENDS SecretRelayMailbox, FiniteSetTheorems, SequenceTheorems, TLAPS

(* There are finitely many rows, so a pop returns a finite list. *)
LEMMA EnvelopeFinite == IsFiniteSet(Envelope)
<1> DEFINE f == [p \in Msgs \X Chats |-> [msg |-> p[1], chat |-> p[2]]]
<1>1. IsFiniteSet(Msgs \X Chats)
  BY FS_Product, MsgsAssumption
<1>2. f \in Surjection(Msgs \X Chats, Envelope)
  <2>1. f \in [Msgs \X Chats -> Envelope]
    BY DEF Envelope
  <2>2. ASSUME NEW e \in Envelope
        PROVE  \E p \in Msgs \X Chats : f[p] = e
    <3>1. <<e.msg, e.chat>> \in Msgs \X Chats
      BY DEF Envelope
    <3>2. f[<<e.msg, e.chat>>] = e
      BY <3>1 DEF Envelope
    <3>3. QED
      BY <3>1, <3>2
  <2>3. QED
    BY <2>1, <2>2 DEF Surjection
<1>3. QED
  BY <1>1, <1>2, FS_Surjection

(* The list a pop returns holds each row once, and no other envelope. *)
LEMMA PoppedRows ==
  ASSUME NEW S \in SUBSET Envelope, NEW s \in SetToSeqs(S)
  PROVE  /\ s \in Seq(Envelope)
         /\ Carried(s) = {row.msg : row \in S}
         /\ (\A r, t \in S : r.msg = t.msg => r = t) => NoRepeats(s)
<1> DEFINE n == Cardinality(S)
<1>1. IsFiniteSet(S) /\ n \in Nat
  BY EnvelopeFinite, FS_Subset, FS_CardinalityType
<1>2. s \in [1..n -> S] /\ \A i, j \in 1..n : i # j => s[i] # s[j]
  BY DEF SetToSeqs
<1>3. s \in Seq(Envelope) /\ DOMAIN s = 1..n
  BY <1>1, <1>2
<1>4. Cardinality(1..n) = n
  BY <1>1, FS_Interval
<1>5. s \in Injection(1..n, S)
  BY <1>2 DEF Injection, IsInjective
<1>6. s \in Surjection(1..n, S)
  BY <1>1, <1>4, <1>5, FS_Injection
<1>7. \A row \in S : \E i \in 1..n : s[i] = row
  BY <1>6 DEF Surjection
<1>8. Carried(s) = {row.msg : row \in S}
  BY <1>2, <1>3, <1>7 DEF Carried
<1>9. QED
  BY <1>2, <1>3, <1>8 DEF NoRepeats

(* What a concatenation carries, and when it repeats nothing. *)
LEMMA CarriedConcat ==
  ASSUME NEW s \in Seq(Envelope), NEW t \in Seq(Envelope)
  PROVE  /\ s \o t \in Seq(Envelope)
         /\ Carried(s \o t) = Carried(s) \cup Carried(t)
         /\ NoRepeats(s) /\ NoRepeats(t) /\ Carried(s) \cap Carried(t) = {}
              => NoRepeats(s \o t)
<1>1. /\ s \o t \in Seq(Envelope)
      /\ Len(s \o t) = Len(s) + Len(t)
      /\ DOMAIN (s \o t) = 1..Len(s) + Len(t)
      /\ DOMAIN s = 1..Len(s) /\ DOMAIN t = 1..Len(t)
      /\ Len(s) \in Nat /\ Len(t) \in Nat
  OBVIOUS
<1>2. \A i \in 1..Len(s) : (s \o t)[i] = s[i]
  OBVIOUS
<1>3. \A i \in 1..Len(t) : (s \o t)[Len(s) + i] = t[i]
  OBVIOUS
<1>4. \A i \in 1..Len(s) + Len(t) :
        \/ i \in 1..Len(s)
        \/ \E j \in 1..Len(t) : i = Len(s) + j
  <2> TAKE i \in 1..Len(s) + Len(t)
  <2>1. i \in 1..Len(s) \/ (i - Len(s) \in 1..Len(t) /\ i = Len(s) + (i - Len(s)))
    OBVIOUS
  <2>2. QED
    BY <2>1
<1>5. Carried(s \o t) \subseteq Carried(s) \cup Carried(t)
  <2> SUFFICES ASSUME NEW i \in 1..Len(s) + Len(t)
               PROVE  (s \o t)[i].msg \in Carried(s) \cup Carried(t)
    BY <1>1 DEF Carried
  <2>1. CASE i \in 1..Len(s)
    BY <1>1, <1>2, <2>1 DEF Carried
  <2>2. ASSUME NEW j \in 1..Len(t), i = Len(s) + j
        PROVE  (s \o t)[i].msg \in Carried(t)
    BY <1>1, <1>3, <2>2 DEF Carried
  <2>3. QED
    BY <1>4, <2>1, <2>2
<1>6. Carried(s) \subseteq Carried(s \o t)
  BY <1>1, <1>2 DEF Carried
<1>7. Carried(t) \subseteq Carried(s \o t)
  <2>1. \A i \in 1..Len(t) : Len(s) + i \in DOMAIN (s \o t)
    BY <1>1
  <2>2. QED
    BY <1>1, <1>3, <2>1 DEF Carried
<1>8. ASSUME NoRepeats(s), NoRepeats(t), Carried(s) \cap Carried(t) = {}
      PROVE  NoRepeats(s \o t)
  <2> SUFFICES ASSUME NEW i \in 1..Len(s) + Len(t), NEW j \in 1..Len(s) + Len(t),
                      (s \o t)[i].msg = (s \o t)[j].msg
               PROVE  i = j
    BY <1>1 DEF NoRepeats
  <2>1. CASE i \in 1..Len(s) /\ j \in 1..Len(s)
    BY <1>1, <1>2, <1>8, <2>1 DEF NoRepeats
  <2>2. ASSUME NEW k \in 1..Len(t), i = Len(s) + k,
               NEW l \in 1..Len(t), j = Len(s) + l
        PROVE  i = j
    BY <1>1, <1>3, <1>8, <2>2 DEF NoRepeats
  <2>3. ASSUME NEW k \in 1..Len(s), NEW l \in 1..Len(t)
        PROVE  (s \o t)[k].msg # (s \o t)[Len(s) + l].msg
    <3>1. s[k].msg \in Carried(s) /\ t[l].msg \in Carried(t)
      BY <1>1 DEF Carried
    <3>2. QED
      BY <1>2, <1>3, <1>8, <3>1
  <2>4. QED
    BY <1>1, <1>4, <2>1, <2>2, <2>3
<1>9. QED
  BY <1>1, <1>5, <1>6, <1>7, <1>8

(* What a list of one envelope carries. *)
LEMMA CarriedOne ==
  ASSUME NEW e \in Envelope
  PROVE  /\ <<e>> \in Seq(Envelope)
         /\ Carried(<<e>>) = {e.msg}
         /\ NoRepeats(<<e>>)
  BY DEF Carried, NoRepeats

(* The empty list carries nothing. *)
LEMMA CarriedNone == Carried(<<>>) = {} /\ NoRepeats(<<>>)
  BY DEF Carried, NoRepeats

(* buildWebsocketJson keeps the message it wraps. *)
LEMMA WrapType == \A m \in Msgs : Wrap(m) \in Envelope /\ Wrap(m).msg = m
  BY MsgsAssumption DEF Wrap, Envelope, Message

-----------------------------------------------------------------------------
(* Type correctness *)

(* A registered session is a ClientSession with a real connection. *)
LEMMA RegisteredType ==
  ASSUME NotifierTypeOK, NEW u \in UserIds, Registered(u)
  PROVE  /\ clients[u] \in ClientSession
         /\ clients[u].connection \in Conns
         /\ clients[u].is_syncing \in BOOLEAN
         /\ clients[u].pending_messages \in Seq(Envelope)
  BY DEF NotifierTypeOK, Registered, ClientSession

(* The buffer of any entry, present or absent, is a list of envelopes. *)
LEMMA PendingType ==
  ASSUME NotifierTypeOK, NEW u \in UserIds
  PROVE  clients[u].pending_messages \in Seq(Envelope)
<1>1. CASE clients[u] = NoSession
  BY <1>1 DEF NoSession
<1>2. CASE clients[u] \in ClientSession
  BY <1>2 DEF ClientSession
<1>3. QED
  BY <1>1, <1>2 DEF NotifierTypeOK

(* A send of envelopes keeps the wire well typed. *)
LEMMA SendType ==
  ASSUME NotifierTypeOK, NEW c \in Conns, NEW s \in Seq(Envelope), Send(c, s)
  PROVE  wire' \in [Conns -> Seq(Envelope)]
<1>1. wire[c] \o s \in Seq(Envelope)
  BY CarriedConcat DEF NotifierTypeOK
<1>2. QED
  BY <1>1 DEF Send, NotifierTypeOK

(* The first critical section of notifyClient keeps the types. *)
LEMMA NotifySharedType ==
  ASSUME NotifierTypeOK, NEW m \in Msgs, NotifyShared(m.to, Wrap(m))
  PROVE  NotifierTypeOK'
<1>1. m.to \in UserIds /\ <<Wrap(m)>> \in Seq(Envelope)
  BY WrapType, CarriedOne, MsgsAssumption DEF Message
<1>2. QED
  BY <1>1, RegisteredType, SendType DEF NotifyShared, NotifierTypeOK

(* The second critical section of notifyClient keeps the types. *)
LEMMA NotifyExclusiveType ==
  ASSUME NotifierTypeOK, NEW m \in Msgs, NotifyExclusive(m.to, Wrap(m))
  PROVE  NotifierTypeOK'
<1> DEFINE u == m.to
<1>1. u \in UserIds /\ <<Wrap(m)>> \in Seq(Envelope) /\ Wrap(m) \in Envelope
  BY WrapType, CarriedOne, MsgsAssumption DEF Message
<1>2. CASE clients[u].is_syncing
  <2>1. /\ clients[u] \in ClientSession
        /\ clients[u].pending_messages \in Seq(Envelope)
    BY <1>1, RegisteredType DEF NotifyExclusive
  <2>2. Append(clients[u].pending_messages, Wrap(m)) \in Seq(Envelope)
    BY <1>1, <2>1
  <2>3. [clients[u] EXCEPT !.pending_messages
           = Append(clients[u].pending_messages, Wrap(m))] \in ClientSession
    BY <2>1, <2>2 DEF ClientSession
  <2>4. QED
    BY <1>1, <1>2, <2>3 DEF NotifyExclusive, NotifierTypeOK
<1>3. CASE ~clients[u].is_syncing
  BY <1>1, <1>3, RegisteredType, SendType DEF NotifyExclusive, NotifierTypeOK
<1>4. QED
  BY <1>2, <1>3

(* finishSync keeps the types. *)
LEMMA FinishSyncType ==
  ASSUME NotifierTypeOK, NEW u \in UserIds, NEW s \in Seq(Envelope),
         FinishSync(u, s)
  PROVE  NotifierTypeOK'
<1>1. CASE Registered(u)
  <2>1. /\ clients[u] \in ClientSession
        /\ clients[u].connection \in Conns
        /\ clients[u].pending_messages \in Seq(Envelope)
    BY <1>1, RegisteredType
  <2>2. s \o clients[u].pending_messages \in Seq(Envelope)
    BY <2>1, CarriedConcat
  <2>3. wire' \in [Conns -> Seq(Envelope)]
    BY <1>1, <2>1, <2>2, SendType DEF FinishSync
  <2>4. [clients[u] EXCEPT !.pending_messages = <<>>, !.is_syncing = FALSE]
          \in ClientSession
    <3>1. <<>> \in Seq(Envelope)
      OBVIOUS
    <3>2. QED
      BY <2>1, <3>1 DEF ClientSession
  <2>5. clients' \in [UserIds -> ClientSession \cup {NoSession}]
    BY <1>1, <2>4 DEF FinishSync, NotifierTypeOK
  <2>6. QED
    BY <2>3, <2>5 DEF FinishSync, NotifierTypeOK
<1>2. CASE ~Registered(u)
  BY <1>2 DEF FinishSync, NotifierTypeOK
<1>3. QED
  BY <1>1, <1>2

(* The types hold at the start. *)
LEMMA TypeInit == Init => TypeOK
  BY RelayAssumption
     DEF Init, TypeOK, NotifierInit, NotifierTypeOK, PoolsInit, PoolsTypeOK,
         ConnStates, ReqStates, SyncStates, Sync, NoSync

(* The types survive every step; one case per action. *)
LEMMA TypeStep == TypeOK /\ [Next]_vars => TypeOK'
<1> SUFFICES ASSUME TypeOK, [Next]_vars
             PROVE  TypeOK'
  OBVIOUS
<1> USE DEF TypeOK, Fault, Answer, Step, Resume
<1>1. ASSUME NEW m \in Msgs, RejectInit(m)
      PROVE  TypeOK'
  BY <1>1 DEF RejectInit, notifierVars, poolVars, envVars, NotifierTypeOK,
              PoolsTypeOK, ReqStates
<1>2. ASSUME NEW m \in Msgs, Post(m)
      PROVE  TypeOK'
  <2>1. NotifierTypeOK'
    BY <1>2, NotifySharedType DEF Post, notifierVars, NotifierTypeOK
  <2>2. QED
    BY <1>2, <2>1 DEF Post, poolVars, envVars, PoolsTypeOK, ReqStates
<1>3. ASSUME NEW m \in Msgs, Notify(m)
      PROVE  TypeOK'
  <2>1. NotifierTypeOK'
    BY <1>3, NotifyExclusiveType DEF Notify, notifierVars, NotifierTypeOK
  <2>2. QED
    BY <1>3, <2>1 DEF Notify, poolVars, envVars, PoolsTypeOK, ReqStates
<1>4. ASSUME NEW m \in Msgs, Validate(m)
      PROVE  TypeOK'
  BY <1>4 DEF Validate, notifierVars, poolVars, envVars, NotifierTypeOK,
              PoolsTypeOK, ReqStates
<1>5. ASSUME NEW m \in Msgs, Insert(m)
      PROVE  TypeOK'
  <2>1. PoolsTypeOK'
    BY <1>5, WrapType DEF Insert, SaveHandshakeSignal, SaveEncryptedMessage,
                          PoolsTypeOK, Envelope
  <2>2. QED
    BY <1>5, <2>1 DEF Insert, notifierVars, envVars, NotifierTypeOK, ReqStates
<1>6. ASSUME NEW m \in Msgs, SaveFails(m)
      PROVE  TypeOK'
  BY <1>6, RelayAssumption
     DEF SaveFails, notifierVars, poolVars, envVars, NotifierTypeOK,
         PoolsTypeOK, ReqStates
<1>7. ASSUME NEW c \in Conns, HandleNewConnection(c)
      PROVE  TypeOK'
  <2>1. [connection |-> c, is_syncing |-> TRUE, pending_messages |-> <<>>]
          \in ClientSession
    BY DEF ClientSession
  <2>2. NotifierTypeOK'
    BY <1>7, <2>1 DEF HandleNewConnection, AddConnection, NotifierTypeOK,
                      ConnStates
  <2>3. QED
    BY <1>7, <2>2 DEF HandleNewConnection, poolVars, envVars, PoolsTypeOK,
                      Sync, SyncStates
<1>8. ASSUME NEW c \in Conns, SyncHandshakes(c)
      PROVE  TypeOK'
  <2>1. RowsFor(handshakes_pool, UserOf[c]) \in SUBSET Envelope
    BY DEF RowsFor, PoolsTypeOK
  <2>2. PICK rows \in SetToSeqs(RowsFor(handshakes_pool, UserOf[c])) :
          Resume(c, "messages", rows)
    BY <1>8 DEF SyncHandshakes
  <2>3. rows \in Seq(Envelope)
    BY <2>1, PoppedRows
  <2>4. QED
    BY <1>8, <2>2, <2>3
       DEF SyncHandshakes, PopHandshakeSignals, notifierVars, envVars,
           NotifierTypeOK, PoolsTypeOK, Sync, SyncStates
<1>9. ASSUME NEW c \in Conns, SyncMessages(c)
      PROVE  TypeOK'
  <2>1. RowsFor(messages_pool, UserOf[c]) \in SUBSET Envelope
    BY DEF RowsFor, PoolsTypeOK
  <2>2. PICK rows \in SetToSeqs(RowsFor(messages_pool, UserOf[c])) :
          Resume(c, "finish", sync[c].offline \o rows)
    BY <1>9 DEF SyncMessages
  <2>3. sync[c].offline \in Seq(Envelope)
    BY DEF Sync
  <2>4. sync[c].offline \o rows \in Seq(Envelope)
    BY <2>1, <2>3, PoppedRows, CarriedConcat
  <2>5. QED
    BY <1>9, <2>2, <2>4
       DEF SyncMessages, PopEncryptedMessages, notifierVars, envVars,
           NotifierTypeOK, PoolsTypeOK, Sync, SyncStates
<1>10. ASSUME NEW c \in Conns, SyncFails(c)
       PROVE  TypeOK'
  BY <1>10, RelayAssumption
     DEF SyncFails, notifierVars, poolVars, NotifierTypeOK, PoolsTypeOK,
         Sync, SyncStates
<1>11. ASSUME NEW c \in Conns, SyncFinish(c)
       PROVE  TypeOK'
  <2>1. UserOf[c] \in UserIds /\ sync[c].offline \in Seq(Envelope)
    BY ConnsAssumption, MsgsAssumption DEF Sync
  <2>2. NotifierTypeOK'
    BY <1>11, <2>1, FinishSyncType DEF SyncFinish
  <2>3. QED
    BY <1>11, <2>2 DEF SyncFinish, poolVars, envVars, PoolsTypeOK, Sync,
                       SyncStates
<1>12. ASSUME NEW c \in Conns, SyncRecover(c)
       PROVE  TypeOK'
  <2>1. UserOf[c] \in UserIds /\ <<>> \in Seq(Envelope)
    BY ConnsAssumption, MsgsAssumption
  <2>2. NotifierTypeOK'
    BY <1>12, <2>1, FinishSyncType DEF SyncRecover
  <2>3. QED
    BY <1>12, <2>2 DEF SyncRecover, poolVars, envVars, PoolsTypeOK, Sync,
                       SyncStates
<1>13. ASSUME NEW c \in Conns, ConnectionLost(c)
       PROVE  TypeOK'
  BY <1>13 DEF ConnectionLost, GoDown, poolVars, processVars, envVars,
               NotifierTypeOK, PoolsTypeOK, ConnStates
<1>14. ASSUME NEW c \in Conns, HandleConnectionClosed(c)
       PROVE  TypeOK'
  BY <1>14 DEF HandleConnectionClosed, RemoveConnection, poolVars,
               processVars, envVars, NotifierTypeOK, PoolsTypeOK, ConnStates
<1>15. CASE CleanHandshakes
  BY <1>15 DEF CleanHandshakes, RemoveStaleHandshakes, notifierVars, envVars,
               NotifierTypeOK, PoolsTypeOK
<1>16. CASE CleanMessages
  BY <1>16 DEF CleanMessages, RemoveStaleMessages, notifierVars, envVars,
               NotifierTypeOK, PoolsTypeOK
<1>17. CASE CleanFails
  BY <1>17, RelayAssumption DEF CleanFails, notifierVars, poolVars,
               NotifierTypeOK, PoolsTypeOK
<1>18. CASE Age
  BY <1>18 DEF Age, RowAges, notifierVars, processVars, envVars,
               NotifierTypeOK, PoolsTypeOK, Envelope
<1>19. CASE Crash
  BY <1>19, RelayAssumption
     DEF Crash, Shutdown, poolVars, NotifierTypeOK, PoolsTypeOK, ConnStates,
         ReqStates, Sync, SyncStates
<1>20. CASE UNCHANGED vars
  BY <1>20 DEF vars, notifierVars, poolVars, processVars, envVars,
               NotifierTypeOK, PoolsTypeOK
<1>21. QED
  BY <1>1, <1>2, <1>3, <1>4, <1>5, <1>6, <1>7, <1>8, <1>9, <1>10, <1>11,
     <1>12, <1>13, <1>14, <1>15, <1>16, <1>17, <1>18, <1>19, <1>20
     DEF Next, Request, Synchronise, Connection, Background

(* The state of the relay stays within the types the code gives it. *)
THEOREM TypeCorrect == Spec => []TypeOK
  BY TypeInit, TypeStep, PTL DEF Spec

-----------------------------------------------------------------------------
(* The inductive invariant *)

(* A step that only empties lists, deletes rows and answers requests. *)
LEMMA Shrinking ==
  ASSUME RelayInv, TypeOK', OfflineWhilePopping',
         handshakes_pool' \subseteq handshakes_pool,
         messages_pool' \subseteq messages_pool,
         wire' = wire,
         \A c \in Conns : sync'[c].offline \in {sync[c].offline, <<>>},
         \A u \in UserIds : clients'[u].pending_messages
                              \in {clients[u].pending_messages, <<>>},
         \A m \in Msgs : req[m] = "ok" => req'[m] = "ok"
  PROVE  RelayInv'
<1>1. RowsUnique'
  BY DEF RelayInv, RowsUnique
<1>2. /\ \A c \in Conns :
           /\ NoRepeats(wire'[c]) /\ NoRepeats(sync'[c].offline)
           /\ Carried(sync'[c].offline) \subseteq Carried(sync[c].offline)
      /\ \A u \in UserIds :
           /\ NoRepeats(clients'[u].pending_messages)
           /\ Carried(clients'[u].pending_messages)
                \subseteq Carried(clients[u].pending_messages)
  BY CarriedNone DEF RelayInv, ListsUnique
<1>3. ListsUnique'
  BY <1>2 DEF ListsUnique
<1>4. ListsDisjoint'
  BY <1>2 DEF RelayInv, ListsDisjoint
<1>5. \A m \in Msgs : /\ Pooled(m)' => Pooled(m)
                      /\ Popped(m)' => Popped(m)
                      /\ Buffered(m)' => Buffered(m)
                      /\ Delivered(m)' => Delivered(m)
  BY <1>2 DEF Pooled, InHandshakes, InMessages, Popped, Buffered, Delivered
<1>6. OnePlace'
  BY <1>5 DEF RelayInv, OnePlace, Held
<1>7. QED
  BY <1>1, <1>3, <1>4, <1>6 DEF RelayInv

(* What a connection holds after a send of messages no connection had. *)
LEMMA SendEffect ==
  ASSUME RelayInv, NEW c \in Conns, NEW s \in Seq(Envelope), NoRepeats(s),
         \A m \in Carried(s) : ~Delivered(m), Send(c, s)
  PROVE  /\ \A d \in Conns :
              /\ NoRepeats(wire'[d])
              /\ Carried(wire'[d]) \subseteq Carried(wire[d]) \cup Carried(s)
              /\ d # c => wire'[d] = wire[d]
<1>1. wire \in [Conns -> Seq(Envelope)]
  BY DEF RelayInv, TypeOK, NotifierTypeOK
<1>2. Carried(wire[c]) \cap Carried(s) = {}
  BY DEF Delivered
<1>3. \A d \in Conns : NoRepeats(wire[d])
  BY DEF RelayInv, ListsUnique
<1>4. /\ NoRepeats(wire[c] \o s)
      /\ Carried(wire[c] \o s) = Carried(wire[c]) \cup Carried(s)
  BY <1>1, <1>2, <1>3, CarriedConcat
<1>5. CASE conn[c] = "open"
  <2>1. /\ wire'[c] = wire[c] \o s
        /\ \A d \in Conns \ {c} : wire'[d] = wire[d]
    BY <1>1, <1>5 DEF Send
  <2>2. QED
    BY <1>3, <1>4, <2>1
<1>6. CASE conn[c] # "open"
  BY <1>3, <1>6 DEF Send
<1>7. QED
  BY <1>5, <1>6

(* Messages that leave pending and popped lists, or a request, for a socket. *)
LEMMA Delivering ==
  ASSUME RelayInv, TypeOK', OfflineWhilePopping',
         NEW c \in Conns, NEW s \in Seq(Envelope), NoRepeats(s), Send(c, s),
         UNCHANGED <<handshakes_pool, messages_pool>>,
         \A d \in Conns : sync'[d].offline \in {sync[d].offline, <<>>},
         \A u \in UserIds : clients'[u].pending_messages
                              \in {clients[u].pending_messages, <<>>},
         \A m \in Msgs : req[m] = "ok" => req'[m] = "ok",
         \A m \in Carried(s) :
           /\ m \in Msgs /\ req'[m] = "ok"
           /\ ~Pooled(m) /\ ~Delivered(m)
           /\ \A d \in Conns : m \notin Carried(sync'[d].offline)
           /\ \A u \in UserIds : m \notin Carried(clients'[u].pending_messages)
  PROVE  RelayInv'
<1>1. RowsUnique'
  BY DEF RelayInv, RowsUnique
<1>2. /\ \A d \in Conns :
           /\ NoRepeats(sync'[d].offline)
           /\ Carried(sync'[d].offline) \subseteq Carried(sync[d].offline)
      /\ \A u \in UserIds :
           /\ NoRepeats(clients'[u].pending_messages)
           /\ Carried(clients'[u].pending_messages)
                \subseteq Carried(clients[u].pending_messages)
  BY CarriedNone DEF RelayInv, ListsUnique
<1>3. \A d \in Conns :
        /\ NoRepeats(wire'[d])
        /\ Carried(wire'[d]) \subseteq Carried(wire[d]) \cup Carried(s)
        /\ d # c => wire'[d] = wire[d]
  BY SendEffect
<1>4. ListsUnique'
  BY <1>2, <1>3 DEF ListsUnique
<1>5. \A m \in Msgs : \A d, e \in Conns :
        m \in Carried(wire'[d]) /\ m \in Carried(wire'[e]) => d = e
  BY <1>3 DEF RelayInv, ListsDisjoint, Delivered
<1>6. ListsDisjoint'
  BY <1>2, <1>5 DEF RelayInv, ListsDisjoint
<1>7. \A m \in Msgs : /\ Pooled(m)' => Pooled(m)
                      /\ Popped(m)' => Popped(m) /\ m \notin Carried(s)
                      /\ Buffered(m)' => Buffered(m) /\ m \notin Carried(s)
                      /\ Delivered(m)' => Delivered(m) \/ m \in Carried(s)
  BY <1>2, <1>3 DEF Pooled, InHandshakes, InMessages, Popped, Buffered, Delivered
<1>8. OnePlace'
  BY <1>7 DEF RelayInv, OnePlace, Held
<1>9. QED
  BY <1>1, <1>4, <1>6, <1>8 DEF RelayInv

(* finishSync with any list that the step takes from the coroutine. *)
LEMMA Flushing ==
  ASSUME RelayInv, TypeOK', OfflineWhilePopping', NEW c \in Conns,
         NEW s \in {sync[c].offline, <<>>}, FinishSync(UserOf[c], s),
         sync'[c].offline = <<>>,
         \A d \in Conns \ {c} : sync'[d] = sync[d],
         UNCHANGED <<handshakes_pool, messages_pool, req>>
  PROVE  RelayInv'
<1> DEFINE u == UserOf[c]
<1> DEFINE p == clients[u].pending_messages
<1>1. u \in UserIds /\ NotifierTypeOK /\ sync \in [Conns -> Sync]
  BY ConnsAssumption, MsgsAssumption DEF RelayInv, TypeOK
<1>2. /\ sync'[c].offline = <<>>
      /\ \A d \in Conns \ {c} : sync'[d].offline = sync[d].offline
      /\ sync[c].offline \in Seq(Envelope)
  BY <1>1 DEF Sync
<1>3. \A d \in Conns : sync'[d].offline \in {sync[d].offline, <<>>}
  BY <1>2
<1>4. CASE Registered(u)
  <2>1. /\ clients[u].connection \in Conns
        /\ p \in Seq(Envelope)
        /\ s \in Seq(Envelope)
    <3>1. <<>> \in Seq(Envelope)
      OBVIOUS
    <3>2. QED
      BY <1>1, <1>2, <1>4, <3>1, RegisteredType
  <2>2. /\ clients'[u].pending_messages = <<>>
        /\ \A v \in UserIds \ {u} : clients'[v] = clients[v]
    <3>1. clients[u] \in ClientSession
      BY <1>1, <1>4, RegisteredType
    <3>2. QED
      BY <1>1, <1>4, <3>1 DEF FinishSync, NotifierTypeOK, ClientSession
  <2>3. NoRepeats(s) /\ NoRepeats(p)
    BY <1>1, CarriedNone DEF RelayInv, ListsUnique
  <2>4. /\ Carried(s) \subseteq Carried(sync[c].offline)
        /\ Carried(s) \subseteq Msgs /\ Carried(p) \subseteq Msgs
    <3>1. \A t \in Seq(Envelope) : Carried(t) \subseteq Msgs
      <4> TAKE t \in Seq(Envelope)
      <4>1. \A i \in DOMAIN t : t[i] \in Envelope
        OBVIOUS
      <4>2. QED
        BY <4>1 DEF Carried, Envelope
    <3>2. QED
      BY <1>2, <2>1, <3>1, CarriedNone
  <2>5. \A m \in Carried(s) : Popped(m)
    BY <2>4 DEF Popped
  <2>6. \A m \in Carried(p) : Buffered(m)
    BY <1>1 DEF Buffered
  <2>7. Carried(s) \cap Carried(p) = {}
    BY <2>4, <2>5, <2>6 DEF RelayInv, OnePlace
  <2>8. /\ s \o p \in Seq(Envelope)
        /\ NoRepeats(s \o p)
        /\ Carried(s \o p) = Carried(s) \cup Carried(p)
    BY <2>1, <2>3, <2>7, CarriedConcat
  <2>9. ASSUME NEW m \in Carried(s \o p)
        PROVE  /\ m \in Msgs /\ req'[m] = "ok"
               /\ ~Pooled(m) /\ ~Delivered(m)
               /\ \A d \in Conns : m \notin Carried(sync'[d].offline)
               /\ \A v \in UserIds : m \notin Carried(clients'[v].pending_messages)
    <3>1. m \in Msgs
      BY <2>4, <2>8
    <3>2. CASE m \in Carried(s)
      <4>1. Popped(m) /\ m \in Carried(sync[c].offline)
        BY <2>4, <2>5, <3>2
      <4>2. req[m] = "ok" /\ ~Pooled(m) /\ ~Delivered(m) /\ ~Buffered(m)
        BY <3>1, <4>1 DEF RelayInv, OnePlace, Held
      <4>3. \A d \in Conns : m \notin Carried(sync'[d].offline)
        BY <1>2, <3>1, <4>1, CarriedNone DEF RelayInv, ListsDisjoint
      <4>4. \A v \in UserIds : m \notin Carried(clients'[v].pending_messages)
        BY <2>2, <4>2, CarriedNone DEF Buffered
      <4>5. QED
        BY <3>1, <4>2, <4>3, <4>4
    <3>3. CASE m \in Carried(p)
      <4>1. Buffered(m)
        BY <2>6, <3>3
      <4>2. req[m] = "ok" /\ ~Pooled(m) /\ ~Delivered(m) /\ ~Popped(m)
        BY <3>1, <4>1 DEF RelayInv, OnePlace, Held
      <4>3. \A d \in Conns : m \notin Carried(sync'[d].offline)
        BY <1>2, <4>2, CarriedNone DEF Popped
      <4>4. \A v \in UserIds : m \notin Carried(clients'[v].pending_messages)
        BY <1>1, <2>2, <3>1, <3>3, CarriedNone DEF RelayInv, ListsDisjoint
      <4>5. QED
        BY <3>1, <4>2, <4>3, <4>4
    <3>4. QED
      BY <2>8, <3>2, <3>3
  <2>10. \A v \in UserIds : clients'[v].pending_messages
                               \in {clients[v].pending_messages, <<>>}
    BY <2>2
  <2>11. Send(clients[u].connection, s \o p)
    BY <1>4 DEF FinishSync
  <2>12. QED
    BY <1>3, <2>1, <2>8, <2>9, <2>10, <2>11, Delivering
<1>5. CASE ~Registered(u)
  BY <1>3, <1>5, Shrinking DEF FinishSync
<1>6. QED
  BY <1>4, <1>5

(* What a pop moves: the rows' messages, each once, into the coroutine. *)
LEMMA Popping ==
  ASSUME RelayInv, TypeOK', OfflineWhilePopping', NEW c \in Conns,
         NEW S \in SUBSET Envelope, NEW rows \in SetToSeqs(S),
         S \subseteq handshakes_pool \/ S \subseteq messages_pool,
         handshakes_pool' = handshakes_pool \ S,
         messages_pool' = messages_pool \ S,
         sync'[c].offline = sync[c].offline \o rows,
         \A d \in Conns \ {c} : sync'[d] = sync[d],
         UNCHANGED <<wire, clients, req>>
  PROVE  RelayInv'
<1>1. /\ \A r, t \in S : r.msg = t.msg => r = t
      /\ \A r \in S : \A t \in handshakes_pool' \cup messages_pool' :
           r.msg # t.msg
  BY DEF RelayInv, RowsUnique, SamePair
<1>2. /\ rows \in Seq(Envelope)
      /\ NoRepeats(rows)
      /\ Carried(rows) = {row.msg : row \in S}
  BY <1>1, PoppedRows
<1>3. \A m \in Carried(rows) : m \in Msgs /\ Pooled(m)
  BY <1>2 DEF Pooled, InHandshakes, InMessages, Envelope
<1>4. sync[c].offline \in Seq(Envelope) /\ NoRepeats(sync[c].offline)
  BY DEF RelayInv, TypeOK, Sync, ListsUnique
<1>5. Carried(sync[c].offline) \cap Carried(rows) = {}
  BY <1>3 DEF RelayInv, OnePlace, Popped
<1>6. /\ Carried(sync'[c].offline) = Carried(sync[c].offline) \cup Carried(rows)
      /\ NoRepeats(sync'[c].offline)
  BY <1>2, <1>4, <1>5, CarriedConcat
<1>7. RowsUnique'
  BY DEF RelayInv, RowsUnique
<1>8. ListsUnique'
  BY <1>6 DEF RelayInv, ListsUnique
<1>9. ListsDisjoint'
  BY <1>3, <1>6 DEF RelayInv, ListsDisjoint, OnePlace, Popped
<1>10. ASSUME NEW m \in Msgs
       PROVE  /\ Pooled(m)' => Pooled(m) /\ m \notin Carried(rows)
              /\ Popped(m)' => Popped(m) \/ (Pooled(m) /\ m \in Carried(rows))
              /\ Buffered(m)' = Buffered(m)
              /\ Delivered(m)' = Delivered(m)
  <2>1. Pooled(m)' => Pooled(m) /\ m \notin Carried(rows)
    BY <1>1, <1>2 DEF Pooled, InHandshakes, InMessages
  <2>2. Popped(m)' => Popped(m) \/ (Pooled(m) /\ m \in Carried(rows))
    BY <1>3, <1>6 DEF Popped
  <2>3. QED
    BY <2>1, <2>2 DEF Buffered, Delivered
<1>11. OnePlace'
  BY <1>10 DEF RelayInv, OnePlace, Held
<1>12. QED
  BY <1>7, <1>8, <1>9, <1>11 DEF RelayInv

(* A request under way whose message is written to one place. *)
LEMMA Buffering ==
  ASSUME RelayInv, TypeOK', NEW m \in Msgs, req[m] # "ok",
         NotifyExclusive(m.to, Wrap(m)), clients[m.to].is_syncing,
         Answer(m, "ok"), UNCHANGED <<poolVars, sync>>
  PROVE  RelayInv'
<1> DEFINE u == m.to
<1> DEFINE p == clients[u].pending_messages
<1>1. /\ u \in UserIds /\ NotifierTypeOK
      /\ Wrap(m) \in Envelope /\ Wrap(m).msg = m
  BY WrapType, MsgsAssumption DEF RelayInv, TypeOK, Message
<1>2. clients[u] \in ClientSession /\ p \in Seq(Envelope)
  BY <1>1, RegisteredType DEF NotifyExclusive
<1>3. /\ clients'[u].pending_messages = p \o <<Wrap(m)>>
      /\ \A v \in UserIds \ {u} : clients'[v] = clients[v]
      /\ wire' = wire
  <2>1. Append(p, Wrap(m)) = p \o <<Wrap(m)>>
    BY <1>1, <1>2, AppendIsConcat
  <2>2. QED
    BY <1>1, <1>2, <2>1 DEF NotifyExclusive, NotifierTypeOK, ClientSession
<1>4. ~Pooled(m) /\ ~Popped(m) /\ ~Buffered(m) /\ ~Delivered(m)
  BY DEF RelayInv, OnePlace, Held
<1>5. Carried(p) \cap Carried(<<Wrap(m)>>) = {} /\ NoRepeats(p)
  BY <1>1, <1>4, CarriedOne DEF Buffered, RelayInv, ListsUnique
<1>6. /\ NoRepeats(clients'[u].pending_messages)
      /\ Carried(clients'[u].pending_messages) = Carried(p) \cup {m}
  <2>1. /\ <<Wrap(m)>> \in Seq(Envelope)
        /\ NoRepeats(<<Wrap(m)>>) /\ Carried(<<Wrap(m)>>) = {m}
    BY <1>1, CarriedOne
  <2>2. /\ NoRepeats(p \o <<Wrap(m)>>)
        /\ Carried(p \o <<Wrap(m)>>) = Carried(p) \cup {m}
    BY <1>2, <1>5, <2>1, CarriedConcat
  <2>3. QED
    BY <1>3, <2>2
<1>7. RowsUnique' /\ OfflineWhilePopping'
  BY DEF RelayInv, RowsUnique, OfflineWhilePopping, poolVars
<1>8. ListsUnique'
  BY <1>3, <1>6 DEF RelayInv, ListsUnique
<1>9. ListsDisjoint'
  <2>1. \A v \in UserIds : Carried(clients'[v].pending_messages)
           \subseteq Carried(clients[v].pending_messages)
                       \cup (IF v = u THEN {m} ELSE {})
    BY <1>3, <1>6
  <2>2. \A v \in UserIds : m \notin Carried(clients[v].pending_messages)
    BY <1>4 DEF Buffered
  <2>3. \A n \in Msgs : \A v, w \in UserIds :
          /\ n \in Carried(clients'[v].pending_messages)
          /\ n \in Carried(clients'[w].pending_messages)
          => v = w
    BY <2>1, <2>2 DEF RelayInv, ListsDisjoint
  <2>4. QED
    BY <1>3, <2>3 DEF RelayInv, ListsDisjoint, poolVars
<1>10. \A n \in Msgs : /\ Pooled(n)' = Pooled(n)
                       /\ Popped(n)' = Popped(n)
                       /\ Buffered(n)' => Buffered(n) \/ n = m
                       /\ Delivered(n)' = Delivered(n)
                       /\ req[n] = "ok" => req'[n] = "ok"
  BY <1>3, <1>6 DEF Pooled, InHandshakes, InMessages, Popped, Buffered,
                    Delivered, poolVars, Answer, RelayInv, TypeOK
<1>11. req'[m] = "ok"
  BY DEF Answer, RelayInv, TypeOK
<1>12. OnePlace'
  BY <1>4, <1>10, <1>11 DEF RelayInv, OnePlace, Held
<1>13. QED
  BY <1>7, <1>8, <1>9, <1>12 DEF RelayInv

(* A request under way whose message becomes a row of one pool. *)
LEMMA Storing ==
  ASSUME RelayInv, TypeOK', NEW m \in Msgs, Insert(m)
  PROVE  RelayInv'
<1>1. Wrap(m) \in Envelope /\ Wrap(m).msg = m
  BY WrapType
<1>2. ~Pooled(m) /\ ~Popped(m) /\ ~Buffered(m) /\ ~Delivered(m)
  BY DEF RelayInv, OnePlace, Held, Insert, Step
<1>3. /\ req'[m] = "ok"
      /\ \A n \in Msgs : req[n] = "ok" => req'[n] = "ok"
      /\ UNCHANGED <<wire, clients, sync>>
  BY DEF Insert, Step, Answer, RelayInv, TypeOK, notifierVars
<1>4. RowsUnique' /\ \A n \in Msgs : Pooled(n)' => Pooled(n) \/ n = m
  <2>1. CASE ~IsHandshake(m)
    BY <1>1, <1>2, <2>1
       DEF Insert, SaveEncryptedMessage, RelayInv, RowsUnique, Pooled,
           InHandshakes, InMessages
  <2>2. CASE IsHandshake(m)
    <3> DEFINE conflict == {row \in handshakes_pool : SamePair(row.msg, m)}
    <3>1. /\ messages_pool' = messages_pool
          /\ handshakes_pool' =
               IF conflict = {}
                 THEN handshakes_pool \cup {Wrap(m)}
                 ELSE (handshakes_pool \ conflict)
                        \cup {[row EXCEPT !.msg = m] : row \in conflict}
      BY <2>2 DEF Insert, SaveHandshakeSignal
    <3>2. \A row \in handshakes_pool : row \in Envelope
      BY DEF RelayInv, TypeOK, PoolsTypeOK
    <3>3. \A r, t \in conflict : r = t
      BY DEF RelayInv, RowsUnique, SamePair
    <3>4. \A row \in handshakes_pool' :
            \/ row \in handshakes_pool /\ ~SamePair(row.msg, m)
            \/ row.msg = m
      BY <1>1, <3>1, <3>2 DEF Envelope
    <3>5. \A r, t \in handshakes_pool' : r.msg = m /\ t.msg = m => r = t
      <4>1. \A r \in handshakes_pool \ conflict : r.msg # m
        BY DEF SamePair
      <4>2. CASE conflict = {}
        BY <3>1, <4>1, <4>2
      <4>3. CASE conflict # {}
        <5>1. PICK old \in conflict : conflict = {old}
          BY <3>3, <4>3
        <5>2. handshakes_pool' =
                (handshakes_pool \ conflict) \cup {[old EXCEPT !.msg = m]}
          BY <3>1, <4>3, <5>1
        <5>3. QED
          BY <4>1, <5>2
      <4>4. QED
        BY <4>2, <4>3
    <3>6. RowsUnique'
      BY <2>2, <3>1, <3>4, <3>5 DEF RelayInv, RowsUnique, SamePair
    <3>7. QED
      BY <3>1, <3>4, <3>6 DEF Pooled, InHandshakes, InMessages
  <2>3. QED
    BY <2>1, <2>2
<1>5. ListsUnique' /\ ListsDisjoint' /\ OfflineWhilePopping'
  BY <1>3 DEF RelayInv, ListsUnique, ListsDisjoint, OfflineWhilePopping
<1>6. \A n \in Msgs : /\ Popped(n)' = Popped(n)
                      /\ Buffered(n)' = Buffered(n)
                      /\ Delivered(n)' = Delivered(n)
  BY <1>3 DEF Popped, Buffered, Delivered
<1>7. OnePlace'
  BY <1>2, <1>3, <1>4, <1>6 DEF RelayInv, OnePlace, Held
<1>8. QED
  BY <1>4, <1>5, <1>7 DEF RelayInv

(* One send to a registered session, by either path of notifyClient. *)
LEMMA Pushing ==
  ASSUME RelayInv, TypeOK', NEW m \in Msgs, req[m] # "ok",
         Registered(m.to), Send(clients[m.to].connection, <<Wrap(m)>>),
         Answer(m, "ok"), UNCHANGED <<clients, poolVars, sync>>
  PROVE  RelayInv'
<1>1. /\ m.to \in UserIds /\ NotifierTypeOK
      /\ <<Wrap(m)>> \in Seq(Envelope) /\ NoRepeats(<<Wrap(m)>>)
      /\ Carried(<<Wrap(m)>>) = {m}
  BY WrapType, CarriedOne, MsgsAssumption DEF RelayInv, TypeOK, Message
<1>2. clients[m.to].connection \in Conns
  BY <1>1, RegisteredType
<1>3. ~Pooled(m) /\ ~Popped(m) /\ ~Buffered(m) /\ ~Delivered(m)
  BY DEF RelayInv, OnePlace, Held
<1>4. req'[m] = "ok" /\ \A n \in Msgs : req[n] = "ok" => req'[n] = "ok"
  BY DEF Answer, RelayInv, TypeOK
<1>5. OfflineWhilePopping'
  BY DEF RelayInv, OfflineWhilePopping
<1>6. /\ \A d \in Conns : m \notin Carried(sync'[d].offline)
      /\ \A u \in UserIds : m \notin Carried(clients'[u].pending_messages)
  BY <1>3 DEF Popped, Buffered
<1>7. QED
  BY <1>1, <1>2, <1>3, <1>4, <1>5, <1>6, Delivering DEF poolVars

(* The inductive invariant holds at the start. *)
LEMMA InvInit == Init => RelayInv
<1> SUFFICES ASSUME Init
             PROVE  RelayInv
  OBVIOUS
<1> USE DEF Init, NotifierInit, PoolsInit, NoSync, NoSession
<1>1. TypeOK
  BY TypeInit
<1>2. RowsUnique /\ OfflineWhilePopping
  BY DEF RowsUnique, OfflineWhilePopping
<1>3. ListsUnique /\ ListsDisjoint
  BY CarriedNone DEF ListsUnique, ListsDisjoint
<1>4. OnePlace
  BY CarriedNone DEF OnePlace, Held, Pooled, InHandshakes, InMessages, Popped,
                     Buffered, Delivered
<1>5. QED
  BY <1>1, <1>2, <1>3, <1>4 DEF RelayInv

(* The inductive invariant survives every step; one case per action. *)
LEMMA InvStep == RelayInv /\ [Next]_vars => RelayInv'
<1> SUFFICES ASSUME RelayInv, [Next]_vars
             PROVE  RelayInv'
  OBVIOUS
<1>0. TypeOK /\ TypeOK'
  BY TypeStep DEF RelayInv
<1> USE DEF Answer, Step, Resume, Fault
<1>1. ASSUME NEW m \in Msgs, RejectInit(m)
      PROVE  RelayInv'
  <2>1. \A n \in Msgs : req[n] = "ok" => req'[n] = "ok"
    BY <1>0, <1>1 DEF RejectInit, MayPost, TypeOK
  <2>2. UNCHANGED <<clients, wire, sync, handshakes_pool, messages_pool>>
    BY <1>1 DEF RejectInit, notifierVars, poolVars
  <2>3. OfflineWhilePopping'
    BY <2>2 DEF RelayInv, OfflineWhilePopping
  <2>4. QED
    BY <1>0, <2>1, <2>2, <2>3, Shrinking
<1>2. ASSUME NEW m \in Msgs, Post(m)
      PROVE  RelayInv'
  <2>1. CASE NotifyShared(m.to, Wrap(m)) /\ Answer(m, "ok")
    <3>1. /\ Registered(m.to) /\ Send(clients[m.to].connection, <<Wrap(m)>>)
          /\ req[m] # "ok"
          /\ UNCHANGED <<clients, poolVars, sync>>
      BY <1>2, <2>1 DEF Post, MayPost, NotifyShared
    <3>2. QED
      BY <1>0, <2>1, <3>1, Pushing
  <2>2. CASE Answer(m, "notify") /\ UNCHANGED notifierVars
    <3>1. \A n \in Msgs : req[n] = "ok" => req'[n] = "ok"
      BY <1>0, <1>2, <2>2 DEF Post, MayPost, TypeOK
    <3>2. UNCHANGED <<clients, wire, sync, handshakes_pool, messages_pool>>
      BY <1>2, <2>2 DEF Post, notifierVars, poolVars
    <3>3. OfflineWhilePopping'
      BY <3>2 DEF RelayInv, OfflineWhilePopping
    <3>4. QED
      BY <1>0, <3>1, <3>2, <3>3, Shrinking
  <2>3. QED
    BY <1>2, <2>1, <2>2 DEF Post
<1>3. ASSUME NEW m \in Msgs, Notify(m)
      PROVE  RelayInv'
  <2>0. req[m] # "ok" /\ UNCHANGED <<poolVars, sync>>
    BY <1>3 DEF Notify
  <2>1. CASE NotifyExclusive(m.to, Wrap(m)) /\ Answer(m, "ok")
    <3>1. CASE clients[m.to].is_syncing
      BY <1>0, <2>0, <2>1, <3>1, Buffering
    <3>2. CASE ~clients[m.to].is_syncing
      <4>1. /\ Registered(m.to) /\ Send(clients[m.to].connection, <<Wrap(m)>>)
            /\ UNCHANGED clients
        BY <2>1, <3>2 DEF NotifyExclusive
      <4>2. QED
        BY <1>0, <2>0, <2>1, <4>1, Pushing
    <3>3. QED
      BY <3>1, <3>2
  <2>2. CASE Answer(m, "validate") /\ UNCHANGED notifierVars
    <3>1. \A n \in Msgs : req[n] = "ok" => req'[n] = "ok"
      BY <1>0, <2>0, <2>2 DEF TypeOK
    <3>2. UNCHANGED <<clients, wire, sync, handshakes_pool, messages_pool>>
      BY <2>0, <2>2 DEF notifierVars, poolVars
    <3>3. OfflineWhilePopping'
      BY <3>2 DEF RelayInv, OfflineWhilePopping
    <3>4. QED
      BY <1>0, <3>1, <3>2, <3>3, Shrinking
  <2>3. QED
    BY <1>3, <2>1, <2>2 DEF Notify
<1>4. ASSUME NEW m \in Msgs, Validate(m) \/ SaveFails(m)
      PROVE  RelayInv'
  <2>1. \A n \in Msgs : req[n] = "ok" => req'[n] = "ok"
    BY <1>0, <1>4 DEF Validate, SaveFails, TypeOK
  <2>2. UNCHANGED <<clients, wire, sync, handshakes_pool, messages_pool>>
    BY <1>4 DEF Validate, SaveFails, notifierVars, poolVars
  <2>3. OfflineWhilePopping'
    BY <2>2 DEF RelayInv, OfflineWhilePopping
  <2>4. QED
    BY <1>0, <2>1, <2>2, <2>3, Shrinking
<1>5. ASSUME NEW m \in Msgs, Insert(m)
      PROVE  RelayInv'
  BY <1>0, <1>5, Storing
<1>6. ASSUME NEW c \in Conns, HandleNewConnection(c)
      PROVE  RelayInv'
  <2>1. /\ UNCHANGED <<wire, handshakes_pool, messages_pool, req>>
        /\ sync' = [sync EXCEPT ![c] = [pc |-> "handshakes", offline |-> <<>>]]
        /\ \A u \in UserIds : clients'[u].pending_messages
                                 \in {clients[u].pending_messages, <<>>}
    BY <1>0, <1>6 DEF HandleNewConnection, AddConnection, poolVars, TypeOK,
                      NotifierTypeOK
  <2>2. OfflineWhilePopping' /\ \A d \in Conns :
          sync'[d].offline \in {sync[d].offline, <<>>}
    BY <1>0, <2>1 DEF RelayInv, OfflineWhilePopping, TypeOK
  <2>3. QED
    BY <1>0, <2>1, <2>2, Shrinking
<1>7. ASSUME NEW c \in Conns, SyncHandshakes(c)
      PROVE  RelayInv'
  <2> DEFINE S == RowsFor(handshakes_pool, UserOf[c])
  <2>1. PICK rows \in SetToSeqs(S) :
          sync' = [sync EXCEPT ![c] = [pc |-> "messages", offline |-> rows]]
    BY <1>7 DEF SyncHandshakes
  <2>2. S \in SUBSET Envelope /\ S \subseteq handshakes_pool
    BY <1>0 DEF RowsFor, TypeOK, PoolsTypeOK
  <2>3. /\ handshakes_pool' = handshakes_pool \ S
        /\ messages_pool' = messages_pool \ S
        /\ UNCHANGED <<wire, clients, req>>
    BY <1>7, <2>2 DEF SyncHandshakes, PopHandshakeSignals, notifierVars,
                      RelayInv, RowsUnique
  <2>4. sync[c].offline = <<>>
    BY <1>7 DEF SyncHandshakes, RelayInv, OfflineWhilePopping
  <2>5. rows \in Seq(Envelope)
    BY <2>2, PoppedRows
  <2>6. sync'[c].offline = sync[c].offline \o rows
    BY <1>0, <2>1, <2>4, <2>5 DEF TypeOK
  <2>7. (\A d \in Conns \ {c} : sync'[d] = sync[d]) /\ OfflineWhilePopping'
    BY <1>0, <2>1 DEF TypeOK, RelayInv, OfflineWhilePopping
  <2>8. QED
    BY <1>0, <2>2, <2>3, <2>6, <2>7, Popping
<1>8. ASSUME NEW c \in Conns, SyncMessages(c)
      PROVE  RelayInv'
  <2> DEFINE S == RowsFor(messages_pool, UserOf[c])
  <2>1. PICK rows \in SetToSeqs(S) :
          sync' = [sync EXCEPT ![c] =
                     [pc |-> "finish", offline |-> sync[c].offline \o rows]]
    BY <1>8 DEF SyncMessages
  <2>2. S \in SUBSET Envelope /\ S \subseteq messages_pool
    BY <1>0 DEF RowsFor, TypeOK, PoolsTypeOK
  <2>3. /\ handshakes_pool' = handshakes_pool \ S
        /\ messages_pool' = messages_pool \ S
        /\ UNCHANGED <<wire, clients, req>>
    BY <1>8, <2>2 DEF SyncMessages, PopEncryptedMessages, notifierVars,
                      RelayInv, RowsUnique
  <2>4. sync'[c].offline = sync[c].offline \o rows
    BY <1>0, <2>1 DEF TypeOK
  <2>5. (\A d \in Conns \ {c} : sync'[d] = sync[d]) /\ OfflineWhilePopping'
    BY <1>0, <2>1 DEF TypeOK, RelayInv, OfflineWhilePopping
  <2>6. QED
    BY <1>0, <2>2, <2>3, <2>4, <2>5, Popping
<1>9. ASSUME NEW c \in Conns, SyncFails(c)
      PROVE  RelayInv'
  <2>1. /\ UNCHANGED <<wire, clients, handshakes_pool, messages_pool, req>>
        /\ sync' = [sync EXCEPT ![c] = [pc |-> "recover", offline |-> <<>>]]
    BY <1>9 DEF SyncFails, notifierVars, poolVars
  <2>2. OfflineWhilePopping' /\ \A d \in Conns :
          sync'[d].offline \in {sync[d].offline, <<>>}
    BY <1>0, <2>1 DEF RelayInv, OfflineWhilePopping, TypeOK
  <2>3. QED
    BY <1>0, <2>1, <2>2, Shrinking
<1>10. ASSUME NEW c \in Conns, SyncFinish(c) \/ SyncRecover(c)
       PROVE  RelayInv'
  <2>1. /\ UNCHANGED <<handshakes_pool, messages_pool, req>>
        /\ \E s \in {sync[c].offline, <<>>} : FinishSync(UserOf[c], s)
    BY <1>10 DEF SyncFinish, SyncRecover, poolVars
  <2>2. \E pc \in {"done", "failed"} :
          sync' = [sync EXCEPT ![c] = [pc |-> pc, offline |-> <<>>]]
    BY <1>10 DEF SyncFinish, SyncRecover
  <2>3. sync'[c].offline = <<>> /\ \A d \in Conns \ {c} : sync'[d] = sync[d]
    BY <1>0, <2>2 DEF TypeOK
  <2>4. OfflineWhilePopping'
    BY <1>0, <2>2 DEF RelayInv, OfflineWhilePopping, TypeOK
  <2>5. QED
    BY <1>0, <2>1, <2>3, <2>4, Flushing
<1>11. ASSUME NEW c \in Conns, ConnectionLost(c)
       PROVE  RelayInv'
  <2>1. UNCHANGED <<clients, wire, sync, handshakes_pool, messages_pool, req>>
    BY <1>11 DEF ConnectionLost, GoDown, poolVars, processVars
  <2>2. OfflineWhilePopping'
    BY <2>1 DEF RelayInv, OfflineWhilePopping
  <2>3. QED
    BY <1>0, <2>1, <2>2, Shrinking
<1>12. ASSUME NEW c \in Conns, HandleConnectionClosed(c)
       PROVE  RelayInv'
  <2>1. /\ UNCHANGED <<wire, sync, handshakes_pool, messages_pool, req>>
        /\ \A u \in UserIds : clients'[u].pending_messages
                                 \in {clients[u].pending_messages, <<>>}
    BY <1>0, <1>12 DEF HandleConnectionClosed, RemoveConnection, poolVars,
                       processVars, NoSession, TypeOK, NotifierTypeOK
  <2>2. OfflineWhilePopping'
    BY <2>1 DEF RelayInv, OfflineWhilePopping
  <2>3. QED
    BY <1>0, <2>1, <2>2, Shrinking
<1>13. CASE CleanHandshakes \/ CleanMessages \/ CleanFails \/ Age
  <2>1. /\ UNCHANGED <<clients, wire, sync, req>>
        /\ handshakes_pool' \subseteq handshakes_pool
        /\ messages_pool' \subseteq messages_pool
    BY <1>13 DEF CleanHandshakes, RemoveStaleHandshakes, CleanMessages,
                 RemoveStaleMessages, CleanFails, Age, RowAges, notifierVars,
                 poolVars, processVars
  <2>2. OfflineWhilePopping'
    BY <2>1 DEF RelayInv, OfflineWhilePopping
  <2>3. QED
    BY <1>0, <2>1, <2>2, Shrinking
<1>14. CASE Crash
  <2>1. /\ UNCHANGED <<wire, handshakes_pool, messages_pool>>
        /\ \A u \in UserIds : clients'[u].pending_messages = <<>>
        /\ \A m \in Msgs : req[m] = "ok" => req'[m] = "ok"
    BY <1>14 DEF Crash, Shutdown, NoSession, poolVars, RunningReq
  <2>2. OfflineWhilePopping' /\ \A d \in Conns :
          sync'[d].offline \in {sync[d].offline, <<>>}
    BY <1>14 DEF Crash, RelayInv, OfflineWhilePopping
  <2>3. QED
    BY <1>0, <2>1, <2>2, Shrinking
<1>15. CASE UNCHANGED vars
  <2>1. UNCHANGED <<clients, wire, sync, handshakes_pool, messages_pool, req>>
    BY <1>15 DEF vars, notifierVars, poolVars, processVars
  <2>2. OfflineWhilePopping'
    BY <2>1 DEF RelayInv, OfflineWhilePopping
  <2>3. QED
    BY <1>0, <2>1, <2>2, Shrinking
<1>16. QED
  BY <1>1, <1>2, <1>3, <1>4, <1>5, <1>6, <1>7, <1>8, <1>9, <1>10, <1>11,
     <1>12, <1>13, <1>14, <1>15
     DEF Next, Request, Synchronise, Connection, Background

(* The inductive invariant holds throughout. *)
LEMMA Invariance == Spec => []RelayInv
  BY InvInit, InvStep, PTL DEF Spec

(* The relay never delivers a message twice, whatever connections overlap, *)
(* statements fail or crashes happen, and for any number of them.          *)
THEOREM DeliveredAtMostOnce == Spec => []AtMostOnce
<1>1. RelayInv => AtMostOnce
  <2> SUFFICES ASSUME RelayInv, NEW c \in Conns, NEW d \in Conns,
                      NEW i \in DOMAIN wire[c], NEW j \in DOMAIN wire[d],
                      wire[c][i].msg = wire[d][j].msg
               PROVE  c = d /\ i = j
    BY DEF AtMostOnce
  <2> DEFINE m == wire[c][i].msg
  <2>1. m \in Carried(wire[c]) /\ m \in Carried(wire[d])
    BY DEF Carried
  <2>2. m \in Msgs
    <3>1. wire[c] \in Seq(Envelope)
      BY DEF RelayInv, TypeOK, NotifierTypeOK
    <3>2. wire[c][i] \in Envelope
      BY <3>1
    <3>3. QED
      BY <3>2 DEF Envelope
  <2>3. c = d
    BY <2>1, <2>2 DEF RelayInv, ListsDisjoint
  <2>4. QED
    BY <2>3 DEF RelayInv, ListsUnique, NoRepeats
<1>2. QED
  BY <1>1, Invariance, PTL

(* A message is in one place at most, and in none before it is accepted.   *)
THEOREM KeptInOnePlace == Spec => []OnePlace
<1>1. RelayInv => OnePlace
  BY DEF RelayInv
<1>2. QED
  BY <1>1, Invariance, PTL

(* A message that was refused is never relayed, then or later.             *)
THEOREM RefusedStaysRefused == Spec => []ErrorMeansNotRelayed
<1>1. RelayInv => ErrorMeansNotRelayed
  BY DEF RelayInv, OnePlace, ErrorMeansNotRelayed
<1>2. QED
  BY <1>1, Invariance, PTL

(***************************************************************************)
(* No buffer is left behind: every syncing session has a coroutine of its  *)
(* user that will call finishSync, for any number of connections.          *)
(***************************************************************************)
THEOREM BuffersGetFlushed == Spec => []BufferGetsFlushed
<1>1. Init => BufferGetsFlushed
  BY DEF Init, NotifierInit, NoSession, BufferGetsFlushed
<1>2. TypeOK /\ BufferGetsFlushed /\ [Next]_vars => BufferGetsFlushed'
  <2> SUFFICES ASSUME TypeOK, BufferGetsFlushed, [Next]_vars
               PROVE  BufferGetsFlushed'
    OBVIOUS
  <2> DEFINE Running == {"handshakes", "messages", "finish", "recover"}
  <2>1. ASSUME UNCHANGED clients,
               \A c \in Conns : sync[c].pc \in Running => sync'[c].pc \in Running
        PROVE  BufferGetsFlushed'
    BY <2>1 DEF BufferGetsFlushed
  <2>2. ASSUME NEW u \in UserIds, NEW p, NotifyExclusive(u, p), UNCHANGED sync
        PROVE  BufferGetsFlushed'
    <3>1. \A v \in UserIds :
            /\ clients'[v].is_syncing <=> clients[v].is_syncing
            /\ ~clients[v].is_syncing
                 => clients'[v].pending_messages = clients[v].pending_messages
      <4>1. CASE clients[u].is_syncing
        <5>1. clients' = [clients EXCEPT ![u].pending_messages = Append(@, p)]
          BY <2>2, <4>1 DEF NotifyExclusive
        <5>2. clients[u] \in ClientSession
          BY <2>2, RegisteredType DEF NotifyExclusive, TypeOK
        <5>3. QED
          BY <4>1, <5>1, <5>2 DEF TypeOK, NotifierTypeOK, ClientSession
      <4>2. CASE ~clients[u].is_syncing
        BY <2>2, <4>2 DEF NotifyExclusive
      <4>3. QED
        BY <4>1, <4>2
    <3>2. ASSUME NEW v \in UserIds
          PROVE  /\ ~clients'[v].is_syncing
                      => clients'[v].pending_messages = <<>>
                 /\ clients'[v].is_syncing =>
                      \E c \in Conns : UserOf[c] = v /\ sync'[c].pc \in Running
      BY <2>2, <3>1 DEF BufferGetsFlushed
    <3>3. QED
      BY <3>2 DEF BufferGetsFlushed
  <2>3. ASSUME NEW c \in Conns, NEW list, FinishSync(UserOf[c], list),
               \A d \in Conns \ {c} : sync'[d] = sync[d]
        PROVE  BufferGetsFlushed'
    <3> DEFINE u == UserOf[c]
    <3>1. u \in UserIds
      BY ConnsAssumption, MsgsAssumption
    <3>2. \A v \in UserIds \ {u} : clients'[v] = clients[v]
      BY <2>3 DEF FinishSync, TypeOK, NotifierTypeOK
    <3>3. ~clients'[u].is_syncing /\ clients'[u].pending_messages = <<>>
      <4>1. CASE Registered(u)
        <5>1. clients[u] \in ClientSession
          BY <3>1, <4>1, RegisteredType DEF TypeOK
        <5>2. clients' = [clients EXCEPT ![u].pending_messages = <<>>,
                                         ![u].is_syncing = FALSE]
          BY <2>3, <4>1 DEF FinishSync
        <5>3. QED
          BY <3>1, <5>1, <5>2 DEF TypeOK, NotifierTypeOK, ClientSession
      <4>2. CASE ~Registered(u)
        BY <2>3, <4>2 DEF FinishSync, Registered, NoSession
      <4>3. QED
        BY <4>1, <4>2
    <3>4. ASSUME NEW v \in UserIds \ {u}, clients'[v].is_syncing
          PROVE  \E d \in Conns : UserOf[d] = v /\ sync'[d].pc \in Running
      BY <2>3, <3>2, <3>4 DEF BufferGetsFlushed
    <3>5. QED
      BY <3>2, <3>3, <3>4 DEF BufferGetsFlushed
  <2>4. ASSUME NEW m \in Msgs, Request(m)
        PROVE  BufferGetsFlushed'
    <3>1. CASE Notify(m)
      <4>1. m.to \in UserIds
        BY MsgsAssumption DEF Message
      <4>2. CASE NotifyExclusive(m.to, Wrap(m))
        BY <2>2, <3>1, <4>1, <4>2 DEF Notify
      <4>3. CASE UNCHANGED notifierVars
        BY <2>1, <3>1, <4>3 DEF Notify, notifierVars
      <4>4. QED
        BY <3>1, <4>2, <4>3 DEF Notify
    <3>2. CASE Post(m)
      BY <2>1, <3>2 DEF Post, NotifyShared, notifierVars
    <3>3. CASE RejectInit(m) \/ Validate(m) \/ Insert(m) \/ SaveFails(m)
      BY <2>1, <3>3 DEF RejectInit, Validate, Insert, SaveFails, notifierVars
    <3>4. QED
      BY <2>4, <3>1, <3>2, <3>3 DEF Request
  <2>5. ASSUME NEW c \in Conns, Synchronise(c)
        PROVE  BufferGetsFlushed'
    <3>1. CASE SyncHandshakes(c) \/ SyncMessages(c) \/ SyncFails(c)
      <4>1. UNCHANGED clients
        BY <3>1 DEF SyncHandshakes, SyncMessages, SyncFails, notifierVars
      <4>2. \E pc \in Running : \E list :
              sync' = [sync EXCEPT ![c] = [pc |-> pc, offline |-> list]]
        BY <3>1 DEF SyncHandshakes, SyncMessages, SyncFails, Resume
      <4>3. \A d \in Conns : sync[d].pc \in Running => sync'[d].pc \in Running
        BY <4>2 DEF TypeOK
      <4>4. QED
        BY <2>1, <4>1, <4>3
    <3>2. CASE SyncFinish(c) \/ SyncRecover(c)
      <4>1. \E list : FinishSync(UserOf[c], list)
        BY <3>2 DEF SyncFinish, SyncRecover
      <4>2. \A d \in Conns \ {c} : sync'[d] = sync[d]
        BY <3>2 DEF SyncFinish, SyncRecover, Resume, TypeOK
      <4>3. QED
        BY <2>3, <4>1, <4>2
    <3>3. QED
      BY <2>5, <3>1, <3>2 DEF Synchronise
  <2>6. ASSUME NEW c \in Conns, HandleNewConnection(c)
        PROVE  BufferGetsFlushed'
    <3>1. /\ sync'[c].pc = "handshakes"
          /\ \A d \in Conns \ {c} : sync'[d] = sync[d]
      BY <2>6 DEF HandleNewConnection, Resume, TypeOK
    <3>2. /\ clients'[UserOf[c]].is_syncing
          /\ \A v \in UserIds \ {UserOf[c]} : clients'[v] = clients[v]
      BY <2>6, ConnsAssumption, MsgsAssumption
         DEF HandleNewConnection, AddConnection, TypeOK, NotifierTypeOK
    <3>3. \A d \in Conns : sync[d].pc \in Running => sync'[d].pc \in Running
      BY <3>1
    <3>4. QED
      BY <3>1, <3>2, <3>3, ConnsAssumption DEF BufferGetsFlushed
  <2>7. ASSUME NEW c \in Conns, ConnectionLost(c)
        PROVE  BufferGetsFlushed'
    BY <2>1, <2>7 DEF ConnectionLost, GoDown, processVars
  <2>8. ASSUME NEW c \in Conns, HandleConnectionClosed(c)
        PROVE  BufferGetsFlushed'
    <3>1. \A v \in UserIds : clients'[v] \in {clients[v], NoSession}
      BY <2>8 DEF HandleConnectionClosed, RemoveConnection, TypeOK,
                  NotifierTypeOK
    <3>2. UNCHANGED sync
      BY <2>8 DEF HandleConnectionClosed, processVars
    <3>3. QED
      BY <3>1, <3>2 DEF BufferGetsFlushed, NoSession
  <2>9. CASE CleanHandshakes \/ CleanMessages \/ CleanFails \/ Age
    BY <2>1, <2>9 DEF CleanHandshakes, CleanMessages, CleanFails, Age,
                      notifierVars, processVars
  <2>10. CASE Crash
    <3>1. \A v \in UserIds : clients'[v] = NoSession
      BY <2>10 DEF Crash, Shutdown
    <3>2. QED
      BY <3>1 DEF BufferGetsFlushed, NoSession
  <2>11. CASE UNCHANGED vars
    BY <2>1, <2>11 DEF vars, notifierVars, processVars
  <2>12. QED
    BY <2>4, <2>5, <2>6, <2>7, <2>8, <2>9, <2>10, <2>11
       DEF Next, Connection, Background
<1>3. QED
  BY <1>1, <1>2, TypeCorrect, PTL DEF Spec

-----------------------------------------------------------------------------
(* Addresses *)

Addressed(u, envelopes) == \A m \in Carried(envelopes) : m.to = u

(* Lists and sessions are kept under the user that their messages and      *)
(* their connection belong to.                                             *)
AddressInv ==
  /\ \A u \in UserIds : Registered(u) => UserOf[clients[u].connection] = u
  /\ \A u \in UserIds : Addressed(u, clients[u].pending_messages)
  /\ \A c \in Conns : /\ Addressed(UserOf[c], sync[c].offline)
                      /\ Addressed(UserOf[c], wire[c])

LEMMA AddressedLists ==
  ASSUME NEW u, NEW s \in Seq(Envelope), NEW t \in Seq(Envelope),
         Addressed(u, s), Addressed(u, t)
  PROVE  Addressed(u, s \o t)
  BY CarriedConcat DEF Addressed

LEMMA AddressedNone == \A u : Addressed(u, <<>>)
  BY CarriedNone DEF Addressed

(* A send to the session of a user of what is addressed to him. *)
LEMMA SendAddressed ==
  ASSUME NotifierTypeOK, AddressInv, NEW u \in UserIds, Registered(u),
         NEW s \in Seq(Envelope), Addressed(u, s), Send(clients[u].connection, s)
  PROVE  \A c \in Conns : Addressed(UserOf[c], wire'[c])
<1> DEFINE d == clients[u].connection
<1>1. d \in Conns /\ UserOf[d] = u /\ wire \in [Conns -> Seq(Envelope)]
  BY RegisteredType DEF AddressInv, NotifierTypeOK
<1>2. Addressed(u, wire[d] \o s)
  BY <1>1, AddressedLists DEF AddressInv
<1>3. \A c \in Conns : wire'[c] \in {wire[c], IF c = d THEN wire[d] \o s ELSE wire[c]}
  BY <1>1 DEF Send
<1>4. QED
  BY <1>1, <1>2, <1>3 DEF AddressInv

LEMMA NotifyAddressed ==
  ASSUME TypeOK, AddressInv, NEW m \in Msgs, UNCHANGED sync,
         NotifyShared(m.to, Wrap(m)) \/ NotifyExclusive(m.to, Wrap(m))
  PROVE  AddressInv'
<1> DEFINE u == m.to
<1>1. /\ u \in UserIds /\ NotifierTypeOK /\ Registered(u)
      /\ Wrap(m) \in Envelope /\ <<Wrap(m)>> \in Seq(Envelope)
      /\ Addressed(u, <<Wrap(m)>>)
  BY WrapType, CarriedOne, MsgsAssumption
     DEF TypeOK, Message, NotifyShared, NotifyExclusive, Addressed
<1>2. clients[u] \in ClientSession /\ clients[u].pending_messages \in Seq(Envelope)
  BY <1>1, RegisteredType
<1>3. CASE Send(clients[u].connection, <<Wrap(m)>>) /\ UNCHANGED clients
  <2>1. \A c \in Conns : Addressed(UserOf[c], wire'[c])
    BY <1>1, <1>3, SendAddressed
  <2>2. QED
    BY <1>3, <2>1 DEF AddressInv, Registered, Addressed, Carried
<1>4. CASE /\ UNCHANGED wire
           /\ clients' = [clients EXCEPT ![u].pending_messages = Append(@, Wrap(m))]
  <2> DEFINE p == clients[u].pending_messages
  <2>1. Append(p, Wrap(m)) = p \o <<Wrap(m)>>
    BY <1>1, <1>2, AppendIsConcat
  <2>2. Addressed(u, Append(p, Wrap(m)))
    BY <1>1, <1>2, <2>1, AddressedLists DEF AddressInv
  <2>3. /\ \A v \in UserIds \ {u} : clients'[v] = clients[v]
        /\ clients'[u].pending_messages = Append(p, Wrap(m))
        /\ clients'[u].connection = clients[u].connection
    BY <1>1, <1>2, <1>4 DEF TypeOK, NotifierTypeOK, ClientSession
  <2>4. \A v \in UserIds : Registered(v)' => UserOf[clients'[v].connection] = v
    BY <1>1, <2>3 DEF AddressInv, Registered
  <2>5. \A v \in UserIds : Addressed(v, clients'[v].pending_messages)
    BY <2>2, <2>3 DEF AddressInv
  <2>6. QED
    BY <1>4, <2>4, <2>5 DEF AddressInv, Addressed, Carried
<1>5. QED
  BY <1>3, <1>4 DEF NotifyShared, NotifyExclusive

LEMMA FinishAddressed ==
  ASSUME TypeOK, AddressInv, NEW c \in Conns, NEW s \in {sync[c].offline, <<>>},
         FinishSync(UserOf[c], s), \E pc : Resume(c, pc, <<>>)
  PROVE  AddressInv'
<1> DEFINE u == UserOf[c]
<1>1. u \in UserIds /\ NotifierTypeOK
  BY ConnsAssumption, MsgsAssumption DEF TypeOK
<1>2. \A d \in Conns : sync'[d].offline \in {sync[d].offline, <<>>}
  BY DEF Resume, TypeOK
<1>3. \A d \in Conns : Addressed(UserOf[d], sync'[d].offline)
  BY <1>2, AddressedNone DEF AddressInv
<1>4. CASE Registered(u)
  <2>1. clients[u] \in ClientSession /\ clients[u].pending_messages \in Seq(Envelope)
    BY <1>1, <1>4, RegisteredType
  <2>2. s \in Seq(Envelope) /\ Addressed(u, s)
    <3>1. sync[c].offline \in Seq(Envelope) /\ <<>> \in Seq(Envelope)
      BY DEF TypeOK, Sync
    <3>2. QED
      BY <3>1, AddressedNone DEF AddressInv
  <2>3. /\ s \o clients[u].pending_messages \in Seq(Envelope)
        /\ Addressed(u, s \o clients[u].pending_messages)
    BY <1>1, <2>1, <2>2, CarriedConcat, AddressedLists DEF AddressInv
  <2>4. \A d \in Conns : Addressed(UserOf[d], wire'[d])
    BY <1>1, <1>4, <2>3, SendAddressed DEF FinishSync
  <2>5. /\ \A v \in UserIds \ {u} : clients'[v] = clients[v]
        /\ clients'[u].pending_messages = <<>>
        /\ clients'[u].connection = clients[u].connection
    BY <1>1, <1>4, <2>1 DEF FinishSync, NotifierTypeOK, ClientSession
  <2>6. \A v \in UserIds : Registered(v)' => UserOf[clients'[v].connection] = v
    BY <1>1, <1>4, <2>5 DEF AddressInv, Registered
  <2>7. \A v \in UserIds : Addressed(v, clients'[v].pending_messages)
    BY <2>5, AddressedNone DEF AddressInv
  <2>8. QED
    BY <1>3, <2>4, <2>6, <2>7 DEF AddressInv, Addressed, Carried
<1>5. CASE ~Registered(u)
  <2>1. UNCHANGED <<clients, wire>>
    BY <1>5 DEF FinishSync
  <2>2. QED
    BY <1>3, <2>1 DEF AddressInv, Registered, Addressed, Carried
<1>6. QED
  BY <1>4, <1>5

LEMMA PopAddressed ==
  ASSUME TypeOK, AddressInv, NEW c \in Conns, NEW S \in SUBSET Envelope, NEW pc,
         NEW rows \in SetToSeqs(RowsFor(S, UserOf[c])),
         Resume(c, pc, rows) \/ Resume(c, pc, sync[c].offline \o rows),
         UNCHANGED <<clients, wire>>
  PROVE  AddressInv'
<1>1. RowsFor(S, UserOf[c]) \in SUBSET Envelope
  BY DEF RowsFor
<1>2. rows \in Seq(Envelope) /\ Addressed(UserOf[c], rows)
  BY <1>1, PoppedRows DEF Addressed, RowsFor
<1>3. sync[c].offline \in Seq(Envelope)
  BY DEF TypeOK, Sync
<1>4. Addressed(UserOf[c], sync[c].offline \o rows)
  BY <1>2, <1>3, AddressedLists DEF AddressInv
<1>5. /\ \A d \in Conns \ {c} : sync'[d] = sync[d]
      /\ sync'[c].offline \in {rows, sync[c].offline \o rows}
  BY DEF Resume, TypeOK
<1>6. \A d \in Conns : Addressed(UserOf[d], sync'[d].offline)
  BY <1>2, <1>4, <1>5 DEF AddressInv
<1>7. QED
  BY <1>6 DEF AddressInv, Registered, Addressed, Carried

(* The addresses are respected throughout; one case per action. *)
LEMMA AddressInvariance == Spec => []AddressInv
<1>1. Init => AddressInv
  BY AddressedNone DEF Init, NotifierInit, AddressInv, Registered, NoSession, NoSync
<1>2. TypeOK /\ AddressInv /\ [Next]_vars => AddressInv'
  <2> SUFFICES ASSUME TypeOK, AddressInv, [Next]_vars
               PROVE  AddressInv'
    OBVIOUS
  <2>1. ASSUME UNCHANGED wire,
               \A u \in UserIds : clients'[u] \in {clients[u], NoSession},
               \A c \in Conns : sync'[c].offline \in {sync[c].offline, <<>>}
        PROVE  AddressInv'
    <3>1. \A c \in Conns : /\ Addressed(UserOf[c], sync'[c].offline)
                          /\ Addressed(UserOf[c], wire'[c])
      BY <2>1, AddressedNone DEF AddressInv
    <3>2. \A u \in UserIds : Addressed(u, clients'[u].pending_messages)
      BY <2>1, AddressedNone DEF AddressInv, NoSession
    <3>3. \A u \in UserIds : Registered(u)' => UserOf[clients'[u].connection] = u
      BY <2>1 DEF AddressInv, Registered
    <3>4. QED
      BY <3>1, <3>2, <3>3 DEF AddressInv, Addressed, Carried
  <2>2. ASSUME NEW m \in Msgs, Request(m) PROVE AddressInv'
    <3>1. UNCHANGED sync
      BY <2>2 DEF Request, RejectInit, Post, Notify, Validate, Insert, SaveFails
    <3>2. CASE NotifyShared(m.to, Wrap(m)) \/ NotifyExclusive(m.to, Wrap(m))
      BY <3>1, <3>2, NotifyAddressed
    <3>3. CASE UNCHANGED notifierVars
      BY <2>1, <3>1, <3>3 DEF notifierVars
    <3>4. QED
      BY <2>2, <3>2, <3>3 DEF Request, RejectInit, Post, Notify, Validate, Insert, SaveFails
  <2>3. ASSUME NEW c \in Conns, Synchronise(c) PROVE AddressInv'
    <3>1. CASE SyncHandshakes(c)
      <4>1. handshakes_pool \in SUBSET Envelope
        BY DEF TypeOK, PoolsTypeOK
      <4>2. PICK rows \in SetToSeqs(RowsFor(handshakes_pool, UserOf[c])) :
              Resume(c, "messages", rows)
        BY <3>1 DEF SyncHandshakes
      <4>3. UNCHANGED <<clients, wire>>
        BY <3>1 DEF SyncHandshakes, notifierVars
      <4>4. QED
        BY <4>1, <4>2, <4>3, PopAddressed
    <3>2. CASE SyncMessages(c)
      <4>1. messages_pool \in SUBSET Envelope
        BY DEF TypeOK, PoolsTypeOK
      <4>2. PICK rows \in SetToSeqs(RowsFor(messages_pool, UserOf[c])) :
              Resume(c, "finish", sync[c].offline \o rows)
        BY <3>2 DEF SyncMessages
      <4>3. UNCHANGED <<clients, wire>>
        BY <3>2 DEF SyncMessages, notifierVars
      <4>4. QED
        BY <4>1, <4>2, <4>3, PopAddressed
    <3>3. CASE SyncFails(c)
      <4>1. UNCHANGED <<clients, wire>> /\ Resume(c, "recover", <<>>)
        BY <3>3 DEF SyncFails, notifierVars
      <4>2. \A d \in Conns : sync'[d].offline \in {sync[d].offline, <<>>}
        BY <4>1 DEF Resume, TypeOK
      <4>3. QED
        BY <2>1, <4>1, <4>2
    <3>4. CASE SyncFinish(c) \/ SyncRecover(c)
      BY <3>4, FinishAddressed DEF SyncFinish, SyncRecover
    <3>5. QED
      BY <2>3, <3>1, <3>2, <3>3, <3>4 DEF Synchronise
  <2>4. ASSUME NEW c \in Conns, HandleNewConnection(c) PROVE AddressInv'
    <3>1. UserOf[c] \in UserIds
      BY ConnsAssumption, MsgsAssumption
    <3>2. \A d \in Conns : sync'[d].offline \in {sync[d].offline, <<>>}
      BY <2>4 DEF HandleNewConnection, Resume, TypeOK
    <3>3. /\ UNCHANGED wire
          /\ \A v \in UserIds \ {UserOf[c]} : clients'[v] = clients[v]
          /\ clients'[UserOf[c]].connection = c
          /\ clients'[UserOf[c]].pending_messages = <<>>
      BY <2>4, <3>1 DEF HandleNewConnection, AddConnection, TypeOK, NotifierTypeOK
    <3>4. \A d \in Conns : Addressed(UserOf[d], sync'[d].offline)
      BY <3>2, AddressedNone DEF AddressInv
    <3>5. \A v \in UserIds : Addressed(v, clients'[v].pending_messages)
      BY <3>3, AddressedNone DEF AddressInv
    <3>6. \A v \in UserIds : Registered(v)' => UserOf[clients'[v].connection] = v
      BY <3>3 DEF AddressInv, Registered
    <3>7. QED
      BY <3>3, <3>4, <3>5, <3>6 DEF AddressInv, Addressed, Carried
  <2>5. ASSUME NEW c \in Conns, ConnectionLost(c) \/ HandleConnectionClosed(c)
        PROVE  AddressInv'
    <3>1. UNCHANGED <<wire, sync>>
      BY <2>5 DEF ConnectionLost, GoDown, HandleConnectionClosed, processVars
    <3>2. \A v \in UserIds : clients'[v] \in {clients[v], NoSession}
      BY <2>5 DEF ConnectionLost, GoDown, HandleConnectionClosed, RemoveConnection,
                  TypeOK, NotifierTypeOK
    <3>3. QED
      BY <2>1, <3>1, <3>2
  <2>6. CASE Background
    <3>1. /\ UNCHANGED wire
          /\ \A v \in UserIds : clients'[v] \in {clients[v], NoSession}
          /\ \A c \in Conns : sync'[c] = sync[c] \/ sync'[c].offline = <<>>
      BY <2>6 DEF Background, CleanHandshakes, CleanMessages, CleanFails, Age, Crash,
                  Shutdown, notifierVars, processVars
    <3>2. QED
      BY <2>1, <3>1
  <2>7. CASE UNCHANGED vars
    BY <2>1, <2>7 DEF vars, notifierVars, processVars
  <2>8. QED
    BY <2>2, <2>3, <2>4, <2>5, <2>6, <2>7 DEF Next, Connection
<1>3. QED
  BY <1>1, <1>2, TypeCorrect, PTL DEF Spec

(* Messages, and what is kept of them, never get into the hands of another *)
(* user, whichever connections open, close or fail in whatever order.      *)
THEOREM DeliveredToTheAcceptor == Spec => []OnlyToAcceptor
<1>1. AddressInv => OnlyToAcceptor
  BY DEF AddressInv, Addressed, OnlyToAcceptor
<1>2. QED
  BY <1>1, AddressInvariance, PTL

-----------------------------------------------------------------------------
(* What the places hold: where an envelope comes from *)

In(e, envelopes) == \E i \in DOMAIN envelopes : envelopes[i] = e

(* An envelope is stored, popped, buffered or sent *)
Somewhere(e) ==
  \/ e \in handshakes_pool \cup messages_pool
  \/ \E c \in Conns : In(e, sync[c].offline) \/ In(e, wire[c])
  \/ \E u \in UserIds : In(e, clients[u].pending_messages)

(* The row of an earlier handshake, with its key overwritten by m *)
Upserted(e, m) ==
  /\ IsHandshake(m)
  /\ \E row \in handshakes_pool :
       SamePair(row.msg, m) /\ e = [row EXCEPT !.msg = m]

(* The two ways a request that runs makes an envelope *)
Fresh(e) ==
  \E m \in Msgs : req[m] # "ok" /\ (e = Wrap(m) \/ Upserted(e, m))

LEMMA InConcat ==
  ASSUME NEW s \in Seq(Envelope), NEW t \in Seq(Envelope), NEW e, In(e, s \o t)
  PROVE  In(e, s) \/ In(e, t)
<1>1. PICK i \in DOMAIN (s \o t) : (s \o t)[i] = e
  BY DEF In
<1>2. CASE i \in 1 .. Len(s)
  BY <1>1, <1>2 DEF In
<1>3. CASE i \notin 1 .. Len(s)
  <2>1. i - Len(s) \in DOMAIN t /\ t[i - Len(s)] = e
    BY <1>1, <1>3
  <2>2. QED
    BY <2>1 DEF In
<1>4. QED
  BY <1>2, <1>3

LEMMA InNone == \A e : ~In(e, <<>>)
  BY DEF In

LEMMA InOne == \A e, d : In(e, <<d>>) => e = d
  BY DEF In

(* What a pop returns are rows. *)
LEMMA InRows ==
  ASSUME NEW S \in SUBSET Envelope, NEW rows \in SetToSeqs(S), NEW e, In(e, rows)
  PROVE  e \in S
<1>1. Cardinality(S) \in Nat
  BY EnvelopeFinite, FS_Subset, FS_CardinalityType
<1>2. rows \in [1 .. Cardinality(S) -> S]
  BY DEF SetToSeqs
<1>3. QED
  BY <1>1, <1>2 DEF In

(* A send puts nothing on a connection but what is sent. *)
LEMMA InSent ==
  ASSUME NotifierTypeOK, NEW c \in Conns, NEW s \in Seq(Envelope), Send(c, s)
  PROVE  \A d \in Conns : \A e : In(e, wire'[d]) => In(e, wire[d]) \/ In(e, s)
<1> SUFFICES ASSUME NEW d \in Conns, NEW e, In(e, wire'[d])
             PROVE  In(e, wire[d]) \/ In(e, s)
  OBVIOUS
<1>1. wire'[d] = wire[d] \/ wire'[d] = wire[d] \o s
  BY DEF Send, NotifierTypeOK
<1>2. wire[d] \in Seq(Envelope)
  BY DEF NotifierTypeOK
<1>3. QED
  BY <1>1, <1>2, InConcat

(* What is notified, by either critical section, is sent or buffered. *)
LEMMA InNotified ==
  ASSUME NotifierTypeOK, NEW m \in Msgs,
         NotifyShared(m.to, Wrap(m)) \/ NotifyExclusive(m.to, Wrap(m))
  PROVE  /\ \A d \in Conns : \A e :
              In(e, wire'[d]) => In(e, wire[d]) \/ e = Wrap(m)
         /\ \A v \in UserIds : \A e :
              In(e, clients'[v].pending_messages)
                => In(e, clients[v].pending_messages) \/ e = Wrap(m)
<1> DEFINE u == m.to
<1> DEFINE p == clients[u].pending_messages
<1>1. /\ u \in UserIds /\ Registered(u)
      /\ Wrap(m) \in Envelope /\ <<Wrap(m)>> \in Seq(Envelope)
  BY WrapType, CarriedOne, MsgsAssumption
     DEF Message, NotifyShared, NotifyExclusive
<1>2. /\ clients[u] \in ClientSession /\ clients[u].connection \in Conns
      /\ p \in Seq(Envelope)
  BY <1>1, RegisteredType
<1>3. CASE Send(clients[u].connection, <<Wrap(m)>>) /\ UNCHANGED clients
  BY <1>1, <1>2, <1>3, InSent, InOne
<1>4. CASE /\ UNCHANGED wire
           /\ clients' = [clients EXCEPT ![u].pending_messages = Append(@, Wrap(m))]
  <2>1. Append(p, Wrap(m)) = p \o <<Wrap(m)>>
    BY <1>1, <1>2, AppendIsConcat
  <2>2. \A e : In(e, p \o <<Wrap(m)>>) => In(e, p) \/ e = Wrap(m)
    BY <1>1, <1>2, InConcat, InOne
  <2>3. /\ \A v \in UserIds \ {u} : clients'[v] = clients[v]
        /\ clients'[u].pending_messages = p \o <<Wrap(m)>>
    BY <1>1, <1>2, <1>4, <2>1 DEF NotifierTypeOK, ClientSession
  <2>4. QED
    BY <1>4, <2>2, <2>3
<1>5. QED
  BY <1>3, <1>4 DEF NotifyShared, NotifyExclusive

(* finishSync sends what it is given and what was buffered. *)
LEMMA InFlushed ==
  ASSUME NotifierTypeOK, NEW u \in UserIds, NEW s \in Seq(Envelope),
         FinishSync(u, s)
  PROVE  /\ \A d \in Conns : \A e :
              In(e, wire'[d]) => \/ In(e, wire[d]) \/ In(e, s)
                                 \/ In(e, clients[u].pending_messages)
         /\ \A v \in UserIds : \A e :
              In(e, clients'[v].pending_messages)
                => In(e, clients[v].pending_messages)
<1> DEFINE p == clients[u].pending_messages
<1>1. CASE Registered(u)
  <2>1. /\ clients[u] \in ClientSession /\ clients[u].connection \in Conns
        /\ p \in Seq(Envelope)
    BY <1>1, RegisteredType
  <2>2. Send(clients[u].connection, s \o p) /\ s \o p \in Seq(Envelope)
    BY <1>1, <2>1, CarriedConcat DEF FinishSync
  <2>3. \A e : In(e, s \o p) => In(e, s) \/ In(e, p)
    BY <2>1, InConcat
  <2>4. \A v \in UserIds : \/ clients'[v] = clients[v]
                           \/ clients'[v].pending_messages = <<>>
    BY <1>1, <2>1 DEF FinishSync, NotifierTypeOK, ClientSession
  <2>5. QED
    BY <2>1, <2>2, <2>3, <2>4, InSent, InNone
<1>2. CASE ~Registered(u)
  BY <1>2 DEF FinishSync
<1>3. QED
  BY <1>1, <1>2

(* An envelope moves from place to place and is otherwise made by a request. *)
LEMMA Movement ==
  ASSUME TypeOK, [Next]_vars, NEW e, Somewhere(e)'
  PROVE  Somewhere(e) \/ Fresh(e)
<1>0. NotifierTypeOK /\ PoolsTypeOK
  BY DEF TypeOK
<1>1. ASSUME handshakes_pool' \subseteq handshakes_pool,
             messages_pool' \subseteq messages_pool, UNCHANGED wire,
             \A u \in UserIds :
               \/ clients'[u] = clients[u]
               \/ clients'[u].pending_messages = <<>>,
             \A c \in Conns : sync'[c] = sync[c] \/ sync'[c].offline = <<>>
      PROVE  Somewhere(e)
  BY <1>1, InNone DEF Somewhere
<1>2. ASSUME NEW m \in Msgs, Request(m) PROVE Somewhere(e) \/ Fresh(e)
  <2>1. UNCHANGED sync /\ req[m] # "ok"
    BY <1>2 DEF Request, RejectInit, Post, MayPost, Notify, Validate, Insert,
                SaveFails, Step
  <2>2. CASE Insert(m)
    <3>1. UNCHANGED <<clients, wire, sync>>
      BY <2>2 DEF Insert, notifierVars
    <3>2. ASSUME e \in handshakes_pool' \cup messages_pool'
          PROVE  e \in handshakes_pool \cup messages_pool \/ Fresh(e)
      BY <2>1, <2>2, <3>2 DEF Insert, SaveHandshakeSignal, SaveEncryptedMessage,
                        Fresh, Upserted
    <3>3. QED
      BY <3>1, <3>2 DEF Somewhere
  <2>3. CASE UNCHANGED poolVars /\ UNCHANGED notifierVars
    BY <1>1, <2>1, <2>3 DEF poolVars, notifierVars
  <2>4. CASE /\ UNCHANGED poolVars
             /\ \/ NotifyShared(m.to, Wrap(m))
                \/ NotifyExclusive(m.to, Wrap(m))
    BY <1>0, <2>1, <2>4, InNotified DEF poolVars, Somewhere, Fresh
  <2>5. QED
    BY <1>2, <2>2, <2>3, <2>4
       DEF Request, RejectInit, Post, Notify, Validate, SaveFails
<1>3. ASSUME NEW c \in Conns, Synchronise(c) PROVE Somewhere(e)
  <2>1. UserOf[c] \in UserIds /\ sync[c].offline \in Seq(Envelope)
    BY ConnsAssumption, MsgsAssumption DEF TypeOK, Sync
  <2>2. ASSUME NEW S \in SUBSET Envelope, NEW rows \in SetToSeqs(S), NEW pc,
               S \subseteq handshakes_pool \cup messages_pool,
               Resume(c, pc, rows) \/ Resume(c, pc, sync[c].offline \o rows),
               handshakes_pool' \subseteq handshakes_pool,
               messages_pool' \subseteq messages_pool,
               UNCHANGED notifierVars
        PROVE  Somewhere(e)
    <3>1. rows \in Seq(Envelope) /\ (In(e, rows) => e \in S)
      BY <2>2, PoppedRows, InRows
    <3>2. \A d \in Conns : In(e, sync'[d].offline)
            => In(e, sync[d].offline) \/ In(e, rows)
      <4>1. In(e, sync[c].offline \o rows)
              => In(e, sync[c].offline) \/ In(e, rows)
        BY <2>1, <3>1, InConcat
      <4>2. /\ \A d \in Conns \ {c} : sync'[d] = sync[d]
            /\ sync'[c].offline \in {rows, sync[c].offline \o rows}
        BY <2>2 DEF Resume, TypeOK
      <4>3. QED
        BY <4>1, <4>2
    <3>3. QED
      BY <2>2, <3>1, <3>2 DEF Somewhere, notifierVars
  <2>3. CASE SyncHandshakes(c)
    <3>1. PICK rows \in SetToSeqs(RowsFor(handshakes_pool, UserOf[c])) :
            Resume(c, "messages", rows)
      BY <2>3 DEF SyncHandshakes
    <3>2. /\ RowsFor(handshakes_pool, UserOf[c]) \subseteq handshakes_pool
          /\ RowsFor(handshakes_pool, UserOf[c]) \in SUBSET Envelope
      BY <1>0 DEF RowsFor, PoolsTypeOK
    <3>3. QED
      BY <2>2, <2>3, <3>1, <3>2 DEF SyncHandshakes, PopHandshakeSignals
  <2>4. CASE SyncMessages(c)
    <3>1. PICK rows \in SetToSeqs(RowsFor(messages_pool, UserOf[c])) :
            Resume(c, "finish", sync[c].offline \o rows)
      BY <2>4 DEF SyncMessages
    <3>2. /\ RowsFor(messages_pool, UserOf[c]) \subseteq messages_pool
          /\ RowsFor(messages_pool, UserOf[c]) \in SUBSET Envelope
      BY <1>0 DEF RowsFor, PoolsTypeOK
    <3>3. QED
      BY <2>2, <2>4, <3>1, <3>2 DEF SyncMessages, PopEncryptedMessages
  <2>5. CASE SyncFails(c)
    <3>1. \A d \in Conns : sync'[d] = sync[d] \/ sync'[d].offline = <<>>
      BY <2>5 DEF SyncFails, Resume, TypeOK
    <3>2. QED
      BY <1>1, <2>5, <3>1 DEF SyncFails, notifierVars, poolVars
  <2>6. CASE SyncFinish(c) \/ SyncRecover(c)
    <3>1. PICK s \in {sync[c].offline, <<>>} : FinishSync(UserOf[c], s)
      BY <2>6 DEF SyncFinish, SyncRecover
    <3>2. s \in Seq(Envelope) /\ (In(e, s) => In(e, sync[c].offline))
      <4>1. <<>> \in Seq(Envelope) /\ ~In(e, <<>>)
        BY InNone
      <4>2. QED
        BY <2>1, <3>1, <4>1
    <3>3. /\ \A d \in Conns : sync'[d] = sync[d] \/ sync'[d].offline = <<>>
          /\ UNCHANGED <<handshakes_pool, messages_pool>>
      BY <2>6 DEF SyncFinish, SyncRecover, Resume, TypeOK, poolVars
    <3>4. /\ \A d \in Conns :
               In(e, wire'[d]) => \/ In(e, wire[d]) \/ In(e, s)
                                  \/ In(e, clients[UserOf[c]].pending_messages)
          /\ \A v \in UserIds :
               In(e, clients'[v].pending_messages)
                 => In(e, clients[v].pending_messages)
      BY <1>0, <2>1, <3>1, <3>2, InFlushed
    <3>5. \A d \in Conns : In(e, sync'[d].offline) => In(e, sync[d].offline)
      BY <3>3, InNone
    <3>6. QED
      BY <2>1, <3>2, <3>3, <3>4, <3>5 DEF Somewhere
  <2>7. QED
    BY <1>3, <2>3, <2>4, <2>5, <2>6 DEF Synchronise
<1>4. ASSUME NEW c \in Conns, Connection(c) PROVE Somewhere(e)
  <2>1. /\ UNCHANGED <<wire, handshakes_pool, messages_pool>>
        /\ \A d \in Conns : sync'[d] = sync[d] \/ sync'[d].offline = <<>>
    BY <1>4 DEF Connection, HandleNewConnection, ConnectionLost, GoDown, Resume,
                HandleConnectionClosed, poolVars, processVars, TypeOK
  <2>2. \A u \in UserIds : \/ clients'[u] = clients[u]
                           \/ clients'[u].pending_messages = <<>>
    BY <1>4 DEF Connection, HandleNewConnection, AddConnection, ConnectionLost,
                GoDown, HandleConnectionClosed, RemoveConnection, NoSession,
                TypeOK, NotifierTypeOK
  <2>3. QED
    BY <1>1, <2>1, <2>2
<1>5. CASE Background
  <2>1. CASE CleanHandshakes \/ CleanMessages \/ CleanFails \/ Age
    BY <1>1, <2>1
       DEF CleanHandshakes, RemoveStaleHandshakes, CleanMessages,
           RemoveStaleMessages, CleanFails, Age, RowAges, notifierVars,
           poolVars, processVars
  <2>2. CASE Crash
    BY <1>1, <2>2 DEF Crash, Shutdown, NoSession, poolVars
  <2>3. QED
    BY <1>5, <2>1, <2>2 DEF Background
<1>6. CASE UNCHANGED vars
  BY <1>1, <1>6 DEF vars, notifierVars, poolVars, processVars
<1>7. QED
  BY <1>2, <1>3, <1>4, <1>5, <1>6 DEF Next

(* Answers are final. *)
LEMMA AnswersFinal ==
  ASSUME TypeOK, [Next]_vars, NEW m \in Msgs, req[m] \in {"ok", "error"}
  PROVE  req'[m] = req[m]
<1>1. ASSUME NEW n \in Msgs, Request(n) PROVE req'[m] = req[m]
  <2>1. /\ req[n] \notin {"ok", "error"}
        /\ \E result : req' = [req EXCEPT ![n] = result]
    BY <1>1 DEF Request, RejectInit, Post, MayPost, Notify, Validate, Insert,
                SaveFails, Step, Answer
  <2>2. QED
    BY <2>1 DEF TypeOK
<1>2. ASSUME NEW c \in Conns, Synchronise(c) \/ Connection(c) PROVE UNCHANGED req
  BY <1>2 DEF Synchronise, SyncHandshakes, SyncMessages, SyncFails, SyncFinish,
              SyncRecover, Connection, HandleNewConnection, ConnectionLost,
              HandleConnectionClosed, processVars
<1>3. CASE Background
  BY <1>3 DEF Background, CleanHandshakes, CleanMessages, CleanFails, Age, Crash,
              RunningReq, processVars
<1>4. CASE UNCHANGED vars
  BY <1>4 DEF vars, processVars
<1>5. QED
  BY <1>1, <1>2, <1>3, <1>4 DEF Next

LEMMA OkStable ==
  ASSUME TypeOK, [Next]_vars, NEW m \in Msgs, req[m] = "ok"
  PROVE  req'[m] = "ok"
  BY AnswersFinal

LEMMA ErrorStable ==
  ASSUME TypeOK, [Next]_vars, NEW m \in Msgs, req[m] = "error"
  PROVE  req'[m] = "error"
  BY AnswersFinal

(* An envelope bears its sender's chat id or that of an accepted handshake *)
(* of the same pair, wherever it is kept.                                  *)
KnownChat(e) ==
  e.chat # e.msg.chat =>
    \E n \in Msgs : /\ n # e.msg /\ n.from = e.msg.from /\ n.to = e.msg.to
                    /\ n.chat = e.chat
                    /\ IsHandshake(n) /\ req[n] = "ok"

ChatIdInv == \A e : Somewhere(e) => KnownChat(e)

(* A chat id that is not the sender's was chosen for the same two users,   *)
(* in a handshake that was accepted, for every history of the row.         *)
THEOREM ForeignChatIdsAreKnown == Spec => []ForeignChatIdOnlyByUpsert
<1>1. Init => ChatIdInv
  BY InNone DEF Init, NotifierInit, PoolsInit, NoSession, NoSync, ChatIdInv,
                Somewhere
<1>2. RelayInv /\ ChatIdInv /\ [Next]_vars => ChatIdInv'
  <2> SUFFICES ASSUME RelayInv, ChatIdInv, [Next]_vars, NEW e, Somewhere(e)'
               PROVE  KnownChat(e)'
    BY DEF ChatIdInv
  <2>0. TypeOK
    BY DEF RelayInv
  <2>1. \A n \in Msgs : req[n] = "ok" => req'[n] = "ok"
    BY <2>0, OkStable
  <2>2. CASE Somewhere(e)
    <3>1. KnownChat(e)
      BY <2>2 DEF ChatIdInv
    <3>2. QED
      BY <2>1, <3>1 DEF KnownChat
  <2>3. ASSUME NEW m \in Msgs, e = Wrap(m) PROVE KnownChat(e)'
    BY <2>3 DEF Wrap, KnownChat
  <2>4. ASSUME NEW m \in Msgs, req[m] # "ok", Upserted(e, m) PROVE KnownChat(e)'
    <3>1. PICK row \in handshakes_pool :
            SamePair(row.msg, m) /\ e = [row EXCEPT !.msg = m]
      BY <2>4 DEF Upserted
    <3>2. row \in Envelope
      BY <2>0 DEF TypeOK, PoolsTypeOK
    <3>3. e.msg = m /\ e.chat = row.chat /\ row.msg \in Msgs
      BY <3>1, <3>2 DEF Envelope
    <3>5. req[row.msg] = "ok" /\ IsHandshake(row.msg)
      BY <3>3 DEF RelayInv, OnePlace, RowsUnique, Held, Pooled, InHandshakes
    <3>6. KnownChat(row)
      BY DEF ChatIdInv, Somewhere
    <3>7. CASE row.chat = row.msg.chat
      BY <2>1, <2>4, <3>1, <3>3, <3>5, <3>7 DEF KnownChat, SamePair
    <3>8. CASE row.chat # row.msg.chat
      <4>1. PICK n \in Msgs : /\ n.from = row.msg.from /\ n.to = row.msg.to
                              /\ n.chat = row.chat
                              /\ IsHandshake(n) /\ req[n] = "ok"
        BY <3>6, <3>8 DEF KnownChat
      <4>2. QED
        BY <2>1, <2>4, <3>1, <3>3, <4>1 DEF KnownChat, SamePair
    <3>9. QED
      BY <3>7, <3>8
  <2>5. QED
    BY <2>0, <2>2, <2>3, <2>4, Movement DEF Fresh
<1>3. ChatIdInv => ForeignChatIdOnlyByUpsert
  BY DEF ChatIdInv, Somewhere, In, KnownChat, ForeignChatIdOnlyByUpsert
<1>4. QED
  BY <1>1, <1>2, <1>3, Invariance, PTL DEF Spec

-----------------------------------------------------------------------------
(* Sessions of users whom nothing has disturbed *)

(* The session of c is registered, and syncing while its coroutine runs *)
OwnSession(c) ==
  LET s == clients[UserOf[c]]
  IN /\ s.connection = c
     /\ IF s.is_syncing THEN sync[c].pc \in {"handshakes", "messages", "finish"}
                        ELSE sync[c].pc = "done"

(* Only a connection that was opened has a session or a coroutine, and the *)
(* only connection of an undisturbed user has both.                        *)
SessionInv ==
  /\ \A c \in Conns : conn[c] = "idle" => sync[c] = NoSync
  /\ \A u \in UserIds : Registered(u) => conn[clients[u].connection] # "idle"
  /\ \A c \in Conns : conn[c] = "open" /\ ~Disturbed(UserOf[c]) => OwnSession(c)

(* Disturbance depends on the connections and their coroutines alone. *)
LEMMA DisturbedFrame ==
  ASSUME UNCHANGED <<conn, sync>>
  PROVE  \A u : Disturbed(u)' = Disturbed(u)
  BY DEF Disturbed

(* What was sent stays, and what is sent to an open connection arrives. *)
LEMMA SendCarries ==
  ASSUME NotifierTypeOK, NEW c \in Conns, NEW s \in Seq(Envelope), Send(c, s)
  PROVE  /\ \A d \in Conns : Carried(wire[d]) \subseteq Carried(wire'[d])
         /\ conn[c] = "open" => Carried(s) \subseteq Carried(wire'[c])
<1>1. wire \in [Conns -> Seq(Envelope)]
  BY DEF NotifierTypeOK
<1>2. Carried(wire[c] \o s) = Carried(wire[c]) \cup Carried(s)
  BY <1>1, CarriedConcat
<1>3. \A d \in Conns : wire'[d] = IF conn[c] = "open" /\ d = c
                                    THEN wire[c] \o s ELSE wire[d]
  BY <1>1 DEF Send
<1>4. QED
  BY <1>2, <1>3

(* What notifyClient writes, by either critical section. *)
LEMMA NotifyWrites ==
  ASSUME TypeOK, NEW m \in Msgs,
         NotifyShared(m.to, Wrap(m)) \/ NotifyExclusive(m.to, Wrap(m))
  PROVE  /\ m.to \in UserIds /\ Registered(m.to)
         /\ clients[m.to].connection \in Conns
         /\ UNCHANGED conn
         /\ \A v \in UserIds :
              /\ clients'[v].connection = clients[v].connection
              /\ clients'[v].is_syncing = clients[v].is_syncing
              /\ Registered(v)' = Registered(v)
              /\ Carried(clients[v].pending_messages)
                   \subseteq Carried(clients'[v].pending_messages)
         /\ \A d \in Conns : Carried(wire[d]) \subseteq Carried(wire'[d])
         /\ \/ m \in Carried(clients'[m.to].pending_messages)
            \/ m \in Carried(wire'[clients[m.to].connection])
            \/ conn[clients[m.to].connection] # "open"
<1> DEFINE u == m.to
<1> DEFINE p == clients[u].pending_messages
<1>1. /\ u \in UserIds /\ Registered(u) /\ NotifierTypeOK
      /\ Wrap(m) \in Envelope /\ <<Wrap(m)>> \in Seq(Envelope)
      /\ Carried(<<Wrap(m)>>) = {m}
      /\ UNCHANGED conn
  BY WrapType, CarriedOne, MsgsAssumption
     DEF Message, NotifyShared, NotifyExclusive, TypeOK
<1>2. /\ clients[u] \in ClientSession /\ clients[u].connection \in Conns
      /\ p \in Seq(Envelope)
  BY <1>1, RegisteredType
<1>3. CASE Send(clients[u].connection, <<Wrap(m)>>) /\ UNCHANGED clients
  <2>1. /\ \A d \in Conns : Carried(wire[d]) \subseteq Carried(wire'[d])
        /\ conn[clients[u].connection] = "open"
             => m \in Carried(wire'[clients[u].connection])
    BY <1>1, <1>2, <1>3, SendCarries
  <2>2. QED
    BY <1>1, <1>2, <1>3, <2>1 DEF Registered
<1>4. CASE /\ UNCHANGED wire
           /\ clients' = [clients EXCEPT ![u].pending_messages = Append(@, Wrap(m))]
  <2>1. Append(p, Wrap(m)) = p \o <<Wrap(m)>>
    BY <1>1, <1>2, AppendIsConcat
  <2>2. Carried(p \o <<Wrap(m)>>) = Carried(p) \cup {m}
    BY <1>1, <1>2, CarriedConcat
  <2>3. /\ \A v \in UserIds \ {u} : clients'[v] = clients[v]
        /\ clients'[u].pending_messages = p \o <<Wrap(m)>>
        /\ clients'[u].connection = clients[u].connection
        /\ clients'[u].is_syncing = clients[u].is_syncing
    BY <1>1, <1>2, <1>4, <2>1 DEF NotifierTypeOK, ClientSession
  <2>4. Registered(u)'
    BY <1>2, <2>3, ConnsAssumption DEF Registered, NoSession
  <2>5. QED
    BY <1>1, <1>2, <1>4, <2>2, <2>3, <2>4 DEF Registered
<1>5. QED
  BY <1>3, <1>4 DEF NotifyShared, NotifyExclusive

(* What finishSync writes. *)
LEMMA FinishWrites ==
  ASSUME TypeOK, NEW u \in UserIds, NEW s \in Seq(Envelope), FinishSync(u, s)
  PROVE  /\ UNCHANGED conn
         /\ \A v \in UserIds \ {u} : clients'[v] = clients[v]
         /\ clients'[u].connection = clients[u].connection
         /\ Registered(u)' = Registered(u)
         /\ ~clients'[u].is_syncing
         /\ \A d \in Conns : Carried(wire[d]) \subseteq Carried(wire'[d])
         /\ Registered(u) /\ conn[clients[u].connection] = "open"
              => Carried(s) \cup Carried(clients[u].pending_messages)
                   \subseteq Carried(wire'[clients[u].connection])
<1> DEFINE p == clients[u].pending_messages
<1>1. NotifierTypeOK /\ UNCHANGED conn
  BY DEF TypeOK, FinishSync
<1>2. CASE Registered(u)
  <2>1. /\ clients[u] \in ClientSession /\ clients[u].connection \in Conns
        /\ p \in Seq(Envelope)
    BY <1>1, <1>2, RegisteredType
  <2>2. /\ s \o p \in Seq(Envelope)
        /\ Carried(s \o p) = Carried(s) \cup Carried(p)
    BY <2>1, CarriedConcat
  <2>3. Send(clients[u].connection, s \o p)
    BY <1>2 DEF FinishSync
  <2>4. /\ \A d \in Conns : Carried(wire[d]) \subseteq Carried(wire'[d])
        /\ conn[clients[u].connection] = "open"
             => Carried(s \o p) \subseteq Carried(wire'[clients[u].connection])
    BY <1>1, <2>1, <2>2, <2>3, SendCarries
  <2>5. /\ \A v \in UserIds \ {u} : clients'[v] = clients[v]
        /\ clients'[u].connection = clients[u].connection
        /\ ~clients'[u].is_syncing
    BY <1>1, <1>2, <2>1 DEF FinishSync, NotifierTypeOK, ClientSession
  <2>6. Registered(u)'
    BY <2>1, <2>5, ConnsAssumption DEF Registered, NoSession
  <2>7. QED
    BY <1>1, <1>2, <2>2, <2>4, <2>5, <2>6
<1>3. CASE ~Registered(u)
  BY <1>1, <1>3 DEF FinishSync, Registered, NoSession
<1>4. QED
  BY <1>2, <1>3

(* The sessions survive every step; one case per action. *)
LEMMA SessionStep == TypeOK /\ AddressInv /\ SessionInv /\ [Next]_vars => SessionInv'
<1> SUFFICES ASSUME TypeOK, AddressInv, SessionInv, [Next]_vars
             PROVE  SessionInv'
  OBVIOUS
<1>0. /\ conn \in [Conns -> ConnStates] /\ sync \in [Conns -> Sync]
      /\ clients \in [UserIds -> ClientSession \cup {NoSession}]
      /\ UserOf \in [Conns -> UserIds]
  BY ConnsAssumption, MsgsAssumption DEF TypeOK, NotifierTypeOK
<1>1. ASSUME UNCHANGED <<conn, sync>>,
             \A v \in UserIds :
               /\ clients'[v].connection = clients[v].connection
               /\ clients'[v].is_syncing = clients[v].is_syncing
               /\ Registered(v)' = Registered(v)
      PROVE  SessionInv'
  BY <1>0, <1>1, DisturbedFrame DEF SessionInv, OwnSession
<1>2. ASSUME NEW m \in Msgs, Request(m) PROVE SessionInv'
  <2>1. UNCHANGED sync
    BY <1>2 DEF Request, RejectInit, Post, Notify, Validate, Insert, SaveFails
  <2>2. CASE NotifyShared(m.to, Wrap(m)) \/ NotifyExclusive(m.to, Wrap(m))
    BY <1>1, <2>1, <2>2, NotifyWrites
  <2>3. CASE UNCHANGED notifierVars
    BY <1>1, <2>1, <2>3 DEF notifierVars, Registered
  <2>4. QED
    BY <1>2, <2>2, <2>3
       DEF Request, RejectInit, Post, Notify, Validate, Insert, SaveFails
<1>3. ASSUME NEW c \in Conns, Synchronise(c) PROVE SessionInv'
  <2> DEFINE u == UserOf[c]
  <2>1. /\ \A d \in Conns \ {c} : sync'[d] = sync[d]
        /\ sync[c].pc # "none"
    BY <1>0, <1>3 DEF Synchronise, SyncHandshakes, SyncMessages, SyncFails,
                      SyncFinish, SyncRecover, Resume
  <2>2. conn[c] # "idle"
    BY <2>1 DEF SessionInv, NoSync
  <2>3. ASSUME NEW d \in Conns \ {c}, conn[d] = "open", UNCHANGED conn,
               ~Disturbed(UserOf[d])'
        PROVE  UserOf[d] # u /\ ~Disturbed(UserOf[d])
    <3>1. UserOf[d] # u
      BY <2>2, <2>3 DEF Disturbed
    <3>2. QED
      BY <2>1, <2>3, <3>1 DEF Disturbed
  <2>4. CASE SyncHandshakes(c) \/ SyncMessages(c)
    <3>1. /\ UNCHANGED <<conn, clients>>
          /\ sync[c].pc \in {"handshakes", "messages"}
          /\ sync'[c].pc \in {"messages", "finish"}
      BY <1>0, <2>4 DEF SyncHandshakes, SyncMessages, Resume, notifierVars
    <3>2. Disturbed(u) => Disturbed(u)'
      BY <2>1, <3>1 DEF Disturbed
    <3>3. conn[c] = "open" /\ ~Disturbed(u)' => OwnSession(c)'
      BY <3>1, <3>2 DEF SessionInv, OwnSession
    <3>4. QED
      BY <1>0, <2>1, <2>2, <2>3, <3>1, <3>3 DEF SessionInv, OwnSession, Registered
  <2>5. CASE SyncFails(c)
    <3>1. UNCHANGED <<conn, clients>> /\ sync'[c].pc = "recover"
      BY <1>0, <2>5 DEF SyncFails, Resume, notifierVars
    <3>2. Disturbed(u)'
      BY <3>1 DEF Disturbed
    <3>3. QED
      BY <1>0, <2>1, <2>2, <2>3, <3>1, <3>2 DEF SessionInv, OwnSession, Registered
  <2>6. CASE SyncFinish(c) \/ SyncRecover(c)
    <3>1. PICK s \in Seq(Envelope) : FinishSync(u, s)
      <4>1. sync[c].offline \in Seq(Envelope) /\ <<>> \in Seq(Envelope)
        BY <1>0 DEF Sync
      <4>2. QED
        BY <2>6, <4>1 DEF SyncFinish, SyncRecover
    <3>2. /\ UNCHANGED conn
          /\ \A v \in UserIds \ {u} : clients'[v] = clients[v]
          /\ clients'[u].connection = clients[u].connection
          /\ Registered(u)' = Registered(u)
          /\ ~clients'[u].is_syncing
      BY <1>0, <3>1, FinishWrites
    <3>3. \/ sync[c].pc = "finish" /\ sync'[c].pc = "done"
          \/ sync[c].pc = "recover" /\ sync'[c].pc = "failed"
      BY <1>0, <2>6 DEF SyncFinish, SyncRecover, Resume
    <3>4. Disturbed(u) => Disturbed(u)'
      BY <2>1, <3>2, <3>3 DEF Disturbed
    <3>5. conn[c] = "open" /\ ~Disturbed(u)' => OwnSession(c)'
      <4>1. CASE sync'[c].pc = "failed"
        BY <4>1 DEF Disturbed
      <4>2. CASE sync'[c].pc = "done"
        BY <3>2, <3>4, <4>2 DEF SessionInv, OwnSession
      <4>3. QED
        BY <3>3, <4>1, <4>2
    <3>6. \A d \in Conns \ {c} :
            conn[d] = "open" /\ ~Disturbed(UserOf[d])' => OwnSession(d)'
      BY <1>0, <2>1, <2>3, <3>2 DEF SessionInv, OwnSession
    <3>7. \A v \in UserIds : Registered(v)' => conn[clients'[v].connection] # "idle"
      BY <3>2 DEF SessionInv, Registered
    <3>8. \A d \in Conns : conn[d] = "idle" => sync'[d] = NoSync
      BY <2>1, <2>2 DEF SessionInv
    <3>9. QED
      BY <3>2, <3>5, <3>6, <3>7, <3>8 DEF SessionInv
  <2>7. QED
    BY <1>3, <2>4, <2>5, <2>6 DEF Synchronise
<1>4. ASSUME NEW c \in Conns, HandleNewConnection(c) PROVE SessionInv'
  <2> DEFINE u == UserOf[c]
  <2>1. /\ conn[c] = "idle" /\ conn'[c] = "open"
        /\ \A d \in Conns \ {c} : conn'[d] = conn[d] /\ sync'[d] = sync[d]
        /\ sync'[c].pc = "handshakes"
        /\ clients'[u].connection = c /\ clients'[u].is_syncing
        /\ \A v \in UserIds \ {u} : clients'[v] = clients[v]
    BY <1>0, <1>4 DEF HandleNewConnection, AddConnection, Resume
  <2>2. OwnSession(c)'
    BY <2>1 DEF OwnSession
  <2>3. ASSUME NEW d \in Conns \ {c}, conn[d] = "open", ~Disturbed(UserOf[d])'
        PROVE  OwnSession(d)'
    <3>1. UserOf[d] # u
      BY <2>1, <2>3 DEF Disturbed
    <3>2. ~Disturbed(UserOf[d])
      BY <2>1, <2>3, <3>1 DEF Disturbed
    <3>3. QED
      BY <1>0, <2>1, <2>3, <3>1, <3>2 DEF SessionInv, OwnSession
  <2>4. \A v \in UserIds : Registered(v)' => conn'[clients'[v].connection] # "idle"
    <3>1. TAKE v \in UserIds
    <3>2. CASE v = u
      BY <2>1, <3>2
    <3>3. CASE v # u
      <4>1. Registered(v) => /\ clients[v].connection \in Conns
                            /\ conn[clients[v].connection] # "idle"
        BY RegisteredType DEF SessionInv, TypeOK
      <4>2. QED
        BY <2>1, <3>3, <4>1 DEF Registered
    <3>4. QED
      BY <3>2, <3>3
  <2>5. QED
    BY <2>1, <2>2, <2>3, <2>4 DEF SessionInv
<1>5. ASSUME NEW c \in Conns, ConnectionLost(c) \/ HandleConnectionClosed(c)
      PROVE  SessionInv'
  <2> DEFINE u == UserOf[c]
  <2>1. /\ conn[c] # "idle" /\ conn'[c] \in {"down", "closed"}
        /\ \A d \in Conns \ {c} : conn'[d] = conn[d]
        /\ UNCHANGED sync
        /\ \A v \in UserIds : \/ clients'[v] = clients[v]
                              \/ v = u /\ clients'[v] = NoSession
    BY <1>0, <1>5 DEF ConnectionLost, GoDown, HandleConnectionClosed,
                      RemoveConnection, processVars
  <2>2. Disturbed(u)'
    BY <2>1 DEF Disturbed
  <2>3. \A v : Disturbed(v) => Disturbed(v)'
    BY <2>1 DEF Disturbed
  <2>4. \A d \in Conns : conn'[d] = "open" /\ ~Disturbed(UserOf[d])' => OwnSession(d)'
    BY <1>0, <2>1, <2>2, <2>3 DEF SessionInv, OwnSession
  <2>5. \A v \in UserIds : Registered(v)' => conn'[clients'[v].connection] # "idle"
    <3>1. TAKE v \in UserIds
    <3>2. Registered(v) => /\ clients[v].connection \in Conns
                          /\ conn[clients[v].connection] # "idle"
      BY RegisteredType DEF SessionInv, TypeOK
    <3>3. QED
      BY <2>1, <3>2 DEF Registered
  <2>6. QED
    BY <2>1, <2>4, <2>5 DEF SessionInv
<1>6. CASE CleanHandshakes \/ CleanMessages \/ CleanFails \/ Age \/ UNCHANGED vars
  <2>1. UNCHANGED <<conn, clients, sync>>
    BY <1>6 DEF CleanHandshakes, CleanMessages, CleanFails, Age, vars,
                notifierVars, processVars
  <2>2. QED
    BY <1>1, <2>1 DEF Registered
<1>7. CASE Crash
  <2>1. /\ \A c \in Conns : conn'[c] # "open"
        /\ \A c \in Conns : conn'[c] = "idle" => conn[c] = "idle"
        /\ \A v \in UserIds : ~Registered(v)'
        /\ \A c \in Conns : sync[c].pc = "none" => sync'[c] = sync[c]
    BY <1>7 DEF Crash, Shutdown, Registered
  <2>2. QED
    BY <2>1 DEF SessionInv, NoSync
<1>8. QED
  BY <1>2, <1>3, <1>4, <1>5, <1>6, <1>7 DEF Next, Connection, Background

(* The sessions are as described throughout. *)
LEMMA SessionInvariance == Spec => []SessionInv
<1>1. Init => SessionInv
  BY DEF Init, NotifierInit, SessionInv, Registered
<1>2. QED
  BY <1>1, SessionStep, TypeCorrect, AddressInvariance, PTL DEF Spec

-----------------------------------------------------------------------------
(* What an accepted message may meet *)

(* Connections once opened stay used, and once lost stay lost, so that     *)
(* nothing makes up for a disturbance.                                     *)
LEMMA DisturbedStable ==
  ASSUME TypeOK, SessionInv, [Next]_vars, NEW u, Disturbed(u)
  PROVE  Disturbed(u)'
<1>0. conn \in [Conns -> ConnStates] /\ sync \in [Conns -> Sync]
  BY DEF TypeOK, NotifierTypeOK
<1>1. SUFFICES \A c \in Conns :
                 /\ conn[c] # "idle" => conn'[c] # "idle"
                 /\ conn[c] \in {"down", "closed"} => conn'[c] \in {"down", "closed"}
                 /\ sync[c].pc \in {"recover", "failed"}
                      => sync'[c].pc \in {"recover", "failed"}
  BY <1>1 DEF Disturbed
<1>2. ASSUME NEW m \in Msgs, Request(m) PROVE UNCHANGED <<conn, sync>>
  BY <1>2 DEF Request, RejectInit, Post, Notify, Validate, Insert, SaveFails,
              NotifyShared, NotifyExclusive, notifierVars
<1>3. ASSUME NEW d \in Conns, Synchronise(d)
      PROVE  /\ UNCHANGED conn
             /\ \A c \in Conns : sync[c].pc \in {"recover", "failed"}
                                   => sync'[c].pc \in {"recover", "failed"}
  BY <1>0, <1>3 DEF Synchronise, SyncHandshakes, SyncMessages, SyncFails,
                    SyncFinish, SyncRecover, FinishSync, Resume, notifierVars
<1>4. ASSUME NEW d \in Conns, HandleNewConnection(d)
      PROVE  /\ conn[d] = "idle" /\ sync[d] = NoSync /\ conn'[d] = "open"
             /\ \A c \in Conns \ {d} : conn'[c] = conn[c] /\ sync'[c] = sync[c]
  BY <1>0, <1>4 DEF HandleNewConnection, Resume, SessionInv
<1>5. ASSUME NEW d \in Conns, ConnectionLost(d) \/ HandleConnectionClosed(d)
      PROVE  /\ UNCHANGED sync
             /\ \A c \in Conns : /\ conn[c] # "idle" => conn'[c] # "idle"
                                 /\ conn[c] \in {"down", "closed"}
                                      => conn'[c] \in {"down", "closed"}
  BY <1>0, <1>5 DEF ConnectionLost, GoDown, HandleConnectionClosed, processVars
<1>6. CASE Background
  BY <1>0, <1>6 DEF Background, CleanHandshakes, CleanMessages, CleanFails, Age,
                    Crash, Shutdown, notifierVars, processVars
<1>7. CASE UNCHANGED vars
  BY <1>7 DEF vars, notifierVars, processVars
<1>8. ASSUME NEW d \in Conns, Synchronise(d) \/ Connection(d)
      PROVE  \A c \in Conns :
               /\ conn[c] # "idle" => conn'[c] # "idle"
               /\ conn[c] \in {"down", "closed"} => conn'[c] \in {"down", "closed"}
               /\ sync[c].pc \in {"recover", "failed"}
                    => sync'[c].pc \in {"recover", "failed"}
  <2>1. CASE Synchronise(d)
    BY <1>3, <2>1
  <2>2. CASE HandleNewConnection(d)
    BY <1>4, <2>2 DEF NoSync
  <2>3. CASE ConnectionLost(d) \/ HandleConnectionClosed(d)
    BY <1>5, <2>3
  <2>4. QED
    BY <1>8, <2>1, <2>2, <2>3 DEF Connection
<1>9. QED
  BY <1>2, <1>6, <1>7, <1>8 DEF Next

(* A registered connection that is not open disturbs its user. *)
LEMMA NotOpen ==
  ASSUME TypeOK, AddressInv, SessionInv, NEW u \in UserIds, Registered(u),
         conn[clients[u].connection] # "open"
  PROVE  Disturbed(u)
<1>1. /\ clients[u].connection \in Conns
      /\ UserOf[clients[u].connection] = u
      /\ conn[clients[u].connection] \in ConnStates \ {"idle"}
  BY RegisteredType DEF TypeOK, NotifierTypeOK, AddressInv, SessionInv
<1>2. QED
  BY <1>1 DEF ConnStates, Disturbed

(* What may become of an accepted message, other than being kept *)
Excused(m) == Superseded(m)' \/ m \in aged \/ Disturbed(m.to)'

Kept(m) == Held(m)' \/ Delivered(m)' \/ Excused(m)

(* A request whose message is written to a session. *)
LEMMA KeptByNotify ==
  ASSUME TypeOK, AddressInv, SessionInv, NEW n \in Msgs,
         NotifyShared(n.to, Wrap(n)) \/ NotifyExclusive(n.to, Wrap(n)),
         Answer(n, "ok"), UNCHANGED <<poolVars, sync>>,
         NEW m \in Msgs, req'[m] = "ok", Held(m) \/ req[m] # "ok"
  PROVE  Kept(m)
<1> DEFINE u == n.to
<1> DEFINE d == clients[u].connection
<1>1. /\ u \in UserIds /\ Registered(u) /\ d \in Conns /\ UNCHANGED conn
      /\ \A v \in UserIds : Carried(clients[v].pending_messages)
                              \subseteq Carried(clients'[v].pending_messages)
      /\ \/ n \in Carried(clients'[u].pending_messages)
         \/ n \in Carried(wire'[d])
         \/ conn[d] # "open"
  BY NotifyWrites
<1>2. CASE Held(m)
  BY <1>1, <1>2 DEF Held, Pooled, InHandshakes, InMessages, Popped, Buffered,
                    poolVars, Kept
<1>3. CASE req[m] # "ok"
  <2>1. m = n
    BY <1>3 DEF Answer, TypeOK
  <2>2. CASE conn[d] # "open"
    <3>1. Disturbed(u)
      BY <1>1, <2>2, NotOpen
    <3>2. QED
      BY <1>1, <2>1, <3>1, DisturbedFrame DEF Kept, Excused
  <2>3. CASE n \in Carried(clients'[u].pending_messages)
    BY <1>1, <2>1, <2>3 DEF Kept, Held, Buffered
  <2>4. CASE n \in Carried(wire'[d])
    BY <1>1, <2>1, <2>4 DEF Kept, Delivered
  <2>5. QED
    BY <1>1, <2>2, <2>3, <2>4
<1>4. QED
  BY <1>2, <1>3

(* An insert stores its message, and replaces only the row of its pair. *)
LEMMA KeptByInsert ==
  ASSUME RelayInv, NEW n \in Msgs, Insert(n),
         NEW m \in Msgs, req'[m] = "ok", Held(m) \/ req[m] # "ok"
  PROVE  Kept(m)
<1>0. /\ UNCHANGED <<clients, wire, sync>>
      /\ req'[n] = "ok" /\ req[n] # "ok"
      /\ \A k \in Msgs \ {n} : req'[k] = req[k]
      /\ handshakes_pool \subseteq Envelope
      /\ Wrap(n).msg = n
  BY WrapType DEF Insert, Step, Answer, notifierVars, RelayInv, TypeOK, PoolsTypeOK
<1>1. CASE ~IsHandshake(n)
  <2>1. messages_pool' = messages_pool \cup {Wrap(n)} /\ UNCHANGED handshakes_pool
    BY <1>1 DEF Insert, SaveEncryptedMessage
  <2>2. QED
    BY <1>0, <2>1 DEF Held, Pooled, InHandshakes, InMessages, Popped, Buffered, Kept
<1>2. CASE IsHandshake(n)
  <2> DEFINE conflict == {row \in handshakes_pool : SamePair(row.msg, n)}
  <2>1. /\ UNCHANGED messages_pool
        /\ handshakes_pool' =
             IF conflict = {}
               THEN handshakes_pool \cup {Wrap(n)}
               ELSE (handshakes_pool \ conflict)
                      \cup {[row EXCEPT !.msg = n] : row \in conflict}
    BY <1>2 DEF Insert, SaveHandshakeSignal
  <2>2. InHandshakes(n)'
    <3>1. CASE conflict = {}
      BY <1>0, <2>1, <3>1 DEF InHandshakes
    <3>2. CASE conflict # {}
      <4>1. PICK row \in conflict : row \in Envelope
        BY <1>0, <3>2
      <4>2. [row EXCEPT !.msg = n] \in handshakes_pool'
        BY <2>1, <3>2, <4>1
      <4>3. [row EXCEPT !.msg = n].msg = n
        BY <4>1 DEF Envelope
      <4>4. QED
        BY <4>2, <4>3 DEF InHandshakes
    <3>3. QED
      BY <3>1, <3>2
  <2>3. CASE m = n
    BY <2>2, <2>3 DEF Kept, Held, Pooled
  <2>4. CASE m # n
    <3>1. Held(m)
      BY <1>0, <2>4
    <3>2. CASE InHandshakes(m)
      <4>1. PICK row \in handshakes_pool : row.msg = m
        BY <3>2 DEF InHandshakes
      <4>2. CASE row \in conflict
        <5>1. IsHandshake(m) /\ SamePair(m, n)
          BY <4>1, <4>2 DEF RelayInv, RowsUnique
        <5>2. QED
          BY <1>0, <1>2, <2>4, <5>1 DEF Kept, Excused, Superseded
      <4>3. CASE row \notin conflict
        BY <2>1, <4>1, <4>3 DEF Kept, Held, Pooled, InHandshakes
      <4>4. QED
        BY <4>2, <4>3
    <3>3. CASE InMessages(m) \/ Popped(m) \/ Buffered(m)
      BY <1>0, <2>1, <3>3 DEF Kept, Held, Pooled, InMessages, Popped, Buffered
    <3>4. QED
      BY <3>1, <3>2, <3>3 DEF Held, Pooled
  <2>5. QED
    BY <2>3, <2>4
<1>3. QED
  BY <1>1, <1>2

(* A pop moves rows into the coroutine. *)
LEMMA KeptByPop ==
  ASSUME TypeOK, NEW c \in Conns, NEW S \in SUBSET Envelope,
         NEW rows \in SetToSeqs(S), NEW pc,
         Resume(c, pc, sync[c].offline \o rows),
         handshakes_pool \ S \subseteq handshakes_pool',
         messages_pool \ S \subseteq messages_pool',
         UNCHANGED clients,
         NEW m \in Msgs, Held(m)
  PROVE  Held(m)'
<1>1. rows \in Seq(Envelope) /\ Carried(rows) = {row.msg : row \in S}
  BY PoppedRows
<1>2. sync[c].offline \in Seq(Envelope)
  BY DEF TypeOK, Sync
<1>3. Carried(sync[c].offline \o rows) = Carried(sync[c].offline) \cup Carried(rows)
  BY <1>1, <1>2, CarriedConcat
<1>4. /\ \A d \in Conns \ {c} : sync'[d] = sync[d]
      /\ sync'[c].offline = sync[c].offline \o rows
  BY DEF Resume, TypeOK
<1>5. CASE Popped(m)
  BY <1>3, <1>4, <1>5 DEF Popped, Held
<1>6. CASE Buffered(m)
  BY <1>6 DEF Buffered, Held
<1>7. CASE Pooled(m)
  <2>1. PICK row \in handshakes_pool \cup messages_pool : row.msg = m
    BY <1>7 DEF Pooled, InHandshakes, InMessages
  <2>2. CASE row \in S
    BY <1>1, <1>3, <1>4, <2>1, <2>2 DEF Popped, Held
  <2>3. CASE row \notin S
    BY <2>1, <2>3 DEF Pooled, InHandshakes, InMessages, Held
  <2>4. QED
    BY <2>2, <2>3
<1>8. QED
  BY <1>5, <1>6, <1>7 DEF Held

(* finishSync delivers what it takes, unless its user was disturbed. *)
LEMMA KeptByFinish ==
  ASSUME TypeOK, AddressInv, SessionInv, NEW c \in Conns, SyncFinish(c),
         NEW m \in Msgs, Held(m)
  PROVE  Kept(m)
<1> DEFINE u == UserOf[c]
<1> DEFINE d == clients[u].connection
<1>0. /\ u \in UserIds /\ sync[c].offline \in Seq(Envelope)
      /\ FinishSync(u, sync[c].offline)
      /\ \A e \in Conns \ {c} : sync'[e] = sync[e]
      /\ UNCHANGED poolVars
  BY ConnsAssumption, MsgsAssumption DEF SyncFinish, Resume, TypeOK, Sync
<1>1. /\ UNCHANGED conn
      /\ \A v \in UserIds \ {u} : clients'[v] = clients[v]
      /\ Registered(u) /\ conn[d] = "open"
           => Carried(sync[c].offline) \cup Carried(clients[u].pending_messages)
                \subseteq Carried(wire'[d])
  BY <1>0, FinishWrites
<1>2. Disturbed(u) => Disturbed(u)'
  BY <1>0, <1>1 DEF SyncFinish, Resume, TypeOK, Disturbed
<1>3. CASE Pooled(m)
  BY <1>0, <1>3 DEF poolVars, Pooled, InHandshakes, InMessages, Held, Kept
<1>4. CASE m \in Carried(sync[c].offline) \/ m \in Carried(clients[u].pending_messages)
  <2>1. m.to = u
    BY <1>0, <1>4 DEF AddressInv, Addressed
  <2>2. CASE Registered(u) /\ conn[d] = "open"
    <3>1. d \in Conns
      BY <1>0, <2>2, RegisteredType DEF TypeOK
    <3>2. QED
      BY <1>1, <1>4, <2>2, <3>1 DEF Kept, Delivered
  <2>3. CASE Registered(u) /\ conn[d] # "open"
    BY <1>0, <1>2, <2>1, <2>3, NotOpen DEF Kept, Excused
  <2>4. CASE ~Registered(u)
    <3>1. conn[c] \in ConnStates \ {"idle"}
      BY DEF SyncFinish, SessionInv, NoSync, TypeOK, NotifierTypeOK
    <3>2. ~OwnSession(c)
      BY <2>4, ConnsAssumption DEF OwnSession, Registered, NoSession
    <3>3. Disturbed(u)
      BY <3>1, <3>2 DEF SessionInv, Disturbed, ConnStates
    <3>4. QED
      BY <1>2, <2>1, <3>3 DEF Kept, Excused
  <2>5. QED
    BY <2>2, <2>3, <2>4
<1>5. CASE \/ \E e \in Conns \ {c} : m \in Carried(sync[e].offline)
           \/ \E v \in UserIds \ {u} : m \in Carried(clients[v].pending_messages)
  BY <1>0, <1>1, <1>5 DEF Popped, Buffered, Held, Kept
<1>6. QED
  BY <1>3, <1>4, <1>5 DEF Held, Popped, Buffered

-----------------------------------------------------------------------------
(* No step lets go of an accepted message without an excuse; one case per  *)
(* action.                                                                 *)
LEMMA KeptStep ==
  ASSUME RelayInv, AddressInv, SessionInv, [Next]_vars,
         NEW m \in Msgs, req'[m] = "ok", Held(m) \/ req[m] # "ok"
  PROVE  Kept(m)
<1>0. /\ TypeOK /\ NotifierTypeOK
      /\ \A v : Disturbed(v) => Disturbed(v)'
      /\ UserOf \in [Conns -> UserIds]
  BY DisturbedStable, ConnsAssumption, MsgsAssumption DEF RelayInv, TypeOK
<1>1. ASSUME UNCHANGED <<handshakes_pool, messages_pool, clients, sync>>, Held(m)
      PROVE  Kept(m)
  BY <1>1 DEF Held, Pooled, InHandshakes, InMessages, Popped, Buffered, Kept
<1>2. ASSUME UNCHANGED <<handshakes_pool, messages_pool, sync>>,
             NEW u \in UserIds, Disturbed(u)' \/ clients'[u] = clients[u],
             \A v \in UserIds \ {u} : clients'[v] = clients[v], Held(m)
      PROVE  Kept(m)
  <2>1. CASE m \in Carried(clients[u].pending_messages) /\ Disturbed(u)'
    <3>1. m.to = u
      BY <2>1 DEF AddressInv, Addressed
    <3>2. QED
      BY <2>1, <3>1 DEF Kept, Excused
  <2>2. CASE ~(m \in Carried(clients[u].pending_messages) /\ Disturbed(u)')
    BY <1>2, <2>2 DEF Held, Pooled, InHandshakes, InMessages, Popped, Buffered, Kept
  <2>3. QED
    BY <2>1, <2>2
<1>3. ASSUME NEW n \in Msgs, Request(n) PROVE Kept(m)
  <2>1. CASE Insert(n)
    BY <2>1, KeptByInsert
  <2>2. CASE /\ NotifyShared(n.to, Wrap(n)) \/ NotifyExclusive(n.to, Wrap(n))
             /\ Answer(n, "ok") /\ UNCHANGED <<poolVars, sync>>
    BY <1>0, <2>2, KeptByNotify
  <2>3. CASE /\ UNCHANGED <<notifierVars, poolVars, sync>>
             /\ \E result : result # "ok" /\ Answer(n, result)
    <3>1. req[m] = "ok"
      BY <1>0, <2>3 DEF Answer, TypeOK
    <3>2. QED
      BY <1>1, <2>3, <3>1 DEF notifierVars, poolVars
  <2>4. CASE RejectInit(n) \/ Validate(n) \/ SaveFails(n)
    BY <2>3, <2>4 DEF RejectInit, Validate, SaveFails, Step
  <2>5. CASE Post(n)
    BY <2>2, <2>3, <2>5 DEF Post
  <2>6. CASE Notify(n)
    BY <2>2, <2>3, <2>6 DEF Notify
  <2>7. QED
    BY <1>3, <2>1, <2>4, <2>5, <2>6 DEF Request
<1>4. ASSUME NEW c \in Conns, Synchronise(c) PROVE Kept(m)
  <2>1. Held(m)
    BY <1>4 DEF Synchronise, SyncHandshakes, SyncMessages, SyncFails,
                SyncFinish, SyncRecover
  <2>2. CASE SyncHandshakes(c)
    <3> DEFINE S == RowsFor(handshakes_pool, UserOf[c])
    <3>1. PICK rows \in SetToSeqs(S) : Resume(c, "messages", rows)
      BY <2>2 DEF SyncHandshakes
    <3>2. S \in SUBSET Envelope
      BY <1>0 DEF RowsFor, TypeOK, PoolsTypeOK
    <3>3. sync[c].offline \o rows = rows
      <4>1. rows \in Seq(Envelope)
        BY <3>2, PoppedRows
      <4>2. sync[c].offline = <<>>
        BY <2>2 DEF SyncHandshakes, RelayInv, OfflineWhilePopping
      <4>3. QED
        BY <4>1, <4>2
    <3>4. /\ handshakes_pool \ S \subseteq handshakes_pool'
          /\ messages_pool \ S \subseteq messages_pool'
          /\ UNCHANGED clients
      BY <2>2 DEF SyncHandshakes, PopHandshakeSignals, notifierVars
    <3>5. QED
      BY <1>0, <2>1, <3>1, <3>2, <3>3, <3>4, KeptByPop DEF Kept
  <2>3. CASE SyncMessages(c)
    <3> DEFINE S == RowsFor(messages_pool, UserOf[c])
    <3>1. PICK rows \in SetToSeqs(S) : Resume(c, "finish", sync[c].offline \o rows)
      BY <2>3 DEF SyncMessages
    <3>2. S \in SUBSET Envelope
      BY <1>0 DEF RowsFor, TypeOK, PoolsTypeOK
    <3>3. /\ handshakes_pool \ S \subseteq handshakes_pool'
          /\ messages_pool \ S \subseteq messages_pool'
          /\ UNCHANGED clients
      BY <2>3 DEF SyncMessages, PopEncryptedMessages, notifierVars
    <3>4. QED
      BY <1>0, <2>1, <3>1, <3>2, <3>3, KeptByPop DEF Kept
  <2>4. CASE SyncFails(c)
    <3>1. /\ UNCHANGED <<handshakes_pool, messages_pool, clients>>
          /\ \A d \in Conns \ {c} : sync'[d] = sync[d]
          /\ sync'[c].pc = "recover"
      BY <1>0, <2>4 DEF SyncFails, Resume, notifierVars, poolVars, TypeOK
    <3>2. CASE m \in Carried(sync[c].offline)
      BY <3>1, <3>2 DEF AddressInv, Addressed, Disturbed, Kept, Excused
    <3>3. CASE m \notin Carried(sync[c].offline)
      BY <2>1, <3>1, <3>3 DEF Held, Pooled, InHandshakes, InMessages, Popped,
                              Buffered, Kept
    <3>4. QED
      BY <3>2, <3>3
  <2>5. CASE SyncFinish(c)
    BY <1>0, <2>1, <2>5, KeptByFinish
  <2>6. CASE SyncRecover(c)
    <3>1. sync[c].offline = <<>> /\ Disturbed(UserOf[c])
      BY <2>6 DEF SyncRecover, RelayInv, OfflineWhilePopping, Disturbed
    <3>2. FinishSync(UserOf[c], <<>>)
      BY <2>6 DEF SyncRecover
    <3>3. \A v \in UserIds \ {UserOf[c]} : clients'[v] = clients[v]
      BY <1>0, <3>2 DEF FinishSync, NotifierTypeOK
    <3>4. CASE m \in Carried(clients[UserOf[c]].pending_messages)
      BY <1>0, <3>1, <3>4 DEF AddressInv, Addressed, Kept, Excused
    <3>5. CASE m \notin Carried(clients[UserOf[c]].pending_messages)
      <4>1. /\ \A d \in Conns \ {c} : sync'[d] = sync[d]
            /\ UNCHANGED <<handshakes_pool, messages_pool>>
        BY <1>0, <2>6 DEF SyncRecover, Resume, TypeOK, poolVars
      <4>2. Popped(m) => Popped(m)'
        BY <3>1, <4>1, CarriedNone DEF Popped
      <4>3. QED
        BY <2>1, <3>3, <3>5, <4>1, <4>2 DEF Held, Pooled, InHandshakes,
                                            InMessages, Buffered, Kept
    <3>6. QED
      BY <3>4, <3>5
  <2>7. QED
    BY <1>4, <2>2, <2>3, <2>4, <2>5, <2>6 DEF Synchronise
<1>5. ASSUME NEW c \in Conns, Connection(c) PROVE Kept(m)
  <2> DEFINE u == UserOf[c]
  <2>1. /\ Held(m) /\ UNCHANGED <<handshakes_pool, messages_pool>>
        /\ u \in UserIds
    BY <1>0, <1>5 DEF Connection, HandleNewConnection, ConnectionLost,
                HandleConnectionClosed, poolVars, processVars
  <2>2. CASE HandleNewConnection(c)
    <3>1. /\ conn[c] = "idle" /\ conn'[c] = "open"
          /\ \A d \in Conns \ {c} : conn'[d] = conn[d] /\ sync'[d] = sync[d]
          /\ sync[c].offline = <<>>
          /\ \A v \in UserIds \ {u} : clients'[v] = clients[v]
      BY <1>0, <2>2 DEF HandleNewConnection, AddConnection, Resume, SessionInv,
                        NoSync, TypeOK, NotifierTypeOK
    <3>2. Popped(m) => Popped(m)'
      BY <3>1, CarriedNone DEF Popped
    <3>3. CASE m \in Carried(clients[u].pending_messages)
      <4>1. Registered(u) /\ m.to = u
        BY <2>1, <3>3, CarriedNone DEF Registered, NoSession, AddressInv, Addressed
      <4>2. /\ clients[u].connection \in Conns
            /\ UserOf[clients[u].connection] = u
            /\ conn[clients[u].connection] # "idle"
        BY <1>0, <2>1, <4>1, RegisteredType DEF AddressInv, SessionInv
      <4>3. Disturbed(u)'
        BY <3>1, <4>2 DEF Disturbed
      <4>4. QED
        BY <4>1, <4>3 DEF Kept, Excused
    <3>4. CASE m \notin Carried(clients[u].pending_messages)
      BY <2>1, <3>1, <3>2, <3>4 DEF Held, Pooled, InHandshakes, InMessages,
                                    Buffered, Kept
    <3>5. QED
      BY <3>3, <3>4
  <2>3. CASE ConnectionLost(c)
    BY <1>1, <2>1, <2>3 DEF ConnectionLost, GoDown, processVars
  <2>4. CASE HandleConnectionClosed(c)
    <3>1. Disturbed(u)' /\ UNCHANGED sync
      BY <1>0, <2>4 DEF HandleConnectionClosed, processVars, Disturbed
    <3>2. \A v \in UserIds \ {u} : clients'[v] = clients[v]
      BY <1>0, <2>4 DEF HandleConnectionClosed, RemoveConnection, NotifierTypeOK
    <3>3. QED
      BY <1>2, <2>1, <3>1, <3>2
  <2>5. QED
    BY <1>5, <2>2, <2>3, <2>4 DEF Connection
<1>6. CASE CleanHandshakes \/ CleanMessages
  <2>1. /\ Held(m) /\ UNCHANGED <<clients, sync>>
        /\ \A row \in handshakes_pool :
             row \in handshakes_pool' \/ row.msg \in aged
        /\ \A row \in messages_pool : row \in messages_pool' \/ row.msg \in aged
    BY <1>6 DEF CleanHandshakes, RemoveStaleHandshakes, CleanMessages,
                RemoveStaleMessages, notifierVars
  <2>2. QED
    BY <2>1 DEF Held, Pooled, InHandshakes, InMessages, Popped, Buffered, Kept,
                Excused
<1>7. CASE CleanFails \/ Age \/ UNCHANGED vars
  BY <1>1, <1>7 DEF CleanFails, Age, RowAges, vars, notifierVars, poolVars,
                    processVars
<1>8. CASE Crash
  <2>1. Held(m)
    BY <1>8 DEF Crash, RunningReq
  <2>2. /\ UNCHANGED <<handshakes_pool, messages_pool>>
        /\ \A c \in Conns : conn[c] # "idle" => conn'[c] = "closed"
    BY <1>0, <1>8 DEF Crash, Shutdown, poolVars, NotifierTypeOK
  <2>3. CASE Pooled(m)
    BY <2>2, <2>3 DEF Pooled, InHandshakes, InMessages, Held, Kept
  <2>4. CASE Popped(m)
    <3>1. PICK c \in Conns : m \in Carried(sync[c].offline)
      BY <2>4 DEF Popped
    <3>2. conn[c] # "idle" /\ m.to = UserOf[c]
      BY <3>1, CarriedNone DEF SessionInv, NoSync, AddressInv, Addressed
    <3>3. QED
      BY <2>2, <3>2 DEF Disturbed, Kept, Excused
  <2>5. CASE Buffered(m)
    <3>1. PICK u \in UserIds : m \in Carried(clients[u].pending_messages)
      BY <2>5 DEF Buffered
    <3>2. Registered(u) /\ m.to = u
      BY <3>1, CarriedNone DEF Registered, NoSession, AddressInv, Addressed
    <3>3. /\ clients[u].connection \in Conns
          /\ UserOf[clients[u].connection] = u
          /\ conn[clients[u].connection] # "idle"
      BY <1>0, <3>2, RegisteredType DEF AddressInv, SessionInv
    <3>4. QED
      BY <2>2, <3>2, <3>3 DEF Disturbed, Kept, Excused
  <2>6. QED
    BY <2>1, <2>3, <2>4, <2>5 DEF Held
<1>9. QED
  BY <1>3, <1>4, <1>5, <1>6, <1>7, <1>8 DEF Next, Background

(* What a connection was sent stays sent, and a row that is old stays so. *)
LEMMA DeliveredStable ==
  ASSUME TypeOK, [Next]_vars
  PROVE  /\ \A m \in Msgs : Delivered(m) => Delivered(m)'
         /\ aged \subseteq aged'
<1> SUFFICES /\ \A d \in Conns : Carried(wire[d]) \subseteq Carried(wire'[d])
             /\ aged \subseteq aged'
  BY DEF Delivered
<1>1. ASSUME NEW n \in Msgs, Request(n)
      PROVE  /\ \A d \in Conns : Carried(wire[d]) \subseteq Carried(wire'[d])
             /\ aged' = aged
  <2>1. CASE Insert(n)
    BY <2>1 DEF Insert, SaveHandshakeSignal, SaveEncryptedMessage, notifierVars
  <2>2. CASE UNCHANGED poolVars /\ UNCHANGED notifierVars
    BY <2>2 DEF notifierVars, poolVars
  <2>3. CASE /\ UNCHANGED poolVars
             /\ NotifyShared(n.to, Wrap(n)) \/ NotifyExclusive(n.to, Wrap(n))
    BY <2>3, NotifyWrites DEF poolVars
  <2>4. QED
    BY <1>1, <2>1, <2>2, <2>3
       DEF Request, RejectInit, Post, Notify, Validate, SaveFails
<1>2. ASSUME NEW c \in Conns, Synchronise(c)
      PROVE  /\ \A d \in Conns : Carried(wire[d]) \subseteq Carried(wire'[d])
             /\ aged' = aged
  <2>1. CASE SyncHandshakes(c) \/ SyncMessages(c) \/ SyncFails(c)
    BY <2>1 DEF SyncHandshakes, SyncMessages, SyncFails, PopHandshakeSignals,
                PopEncryptedMessages, notifierVars, poolVars
  <2>2. CASE SyncFinish(c) \/ SyncRecover(c)
    <3>1. UserOf[c] \in UserIds /\ sync[c].offline \in Seq(Envelope)
      BY ConnsAssumption, MsgsAssumption DEF TypeOK, Sync
    <3>2. PICK s \in Seq(Envelope) : FinishSync(UserOf[c], s)
      <4>1. <<>> \in Seq(Envelope)
        OBVIOUS
      <4>2. QED
        BY <2>2, <3>1, <4>1 DEF SyncFinish, SyncRecover
    <3>3. \A d \in Conns : Carried(wire[d]) \subseteq Carried(wire'[d])
      BY <3>1, <3>2, FinishWrites
    <3>4. QED
      BY <2>2, <3>3 DEF SyncFinish, SyncRecover, poolVars
  <2>3. QED
    BY <1>2, <2>1, <2>2 DEF Synchronise
<1>3. ASSUME NEW c \in Conns, Connection(c) PROVE UNCHANGED <<wire, aged>>
  BY <1>3 DEF Connection, HandleNewConnection, ConnectionLost, GoDown,
              HandleConnectionClosed, poolVars
<1>4. CASE Background \/ UNCHANGED vars
  BY <1>4 DEF Background, CleanHandshakes, RemoveStaleHandshakes, CleanMessages,
              RemoveStaleMessages, CleanFails, Age, RowAges, Crash, Shutdown,
              vars, notifierVars, poolVars
<1>5. QED
  BY <1>1, <1>2, <1>3, <1>4 DEF Next

(* A superseded message stays so. *)
LEMMA SupersededStable ==
  ASSUME TypeOK, [Next]_vars, NEW m \in Msgs, Superseded(m)
  PROVE  Superseded(m)'
  BY OkStable DEF Superseded

(* An accepted message for a user whose connection nothing happened to is  *)
(* stored, on its way or delivered, unless the same sender replaced it or  *)
(* it grew too old: for any number of messages, connections, faults and    *)
(* crashes of others.                                                      *)
THEOREM NothingIsLost == Spec => []NothingLost
<1>1. Init => NothingLost
  BY DEF Init, NothingLost
<1>2. RelayInv /\ AddressInv /\ SessionInv /\ NothingLost /\ [Next]_vars
        => NothingLost'
  <2> SUFFICES ASSUME RelayInv, AddressInv, SessionInv, NothingLost, [Next]_vars,
                      NEW m \in Msgs, req'[m] = "ok"
               PROVE  \/ Held(m)' \/ Delivered(m)' \/ Superseded(m)'
                      \/ m \in aged' \/ Disturbed(m.to)'
    BY DEF NothingLost
  <2>0. TypeOK
    BY DEF RelayInv
  <2>1. CASE Held(m) \/ req[m] # "ok"
    <3>1. Kept(m)
      BY <2>1, KeptStep
    <3>2. QED
      BY <2>0, <3>1, DeliveredStable DEF Kept, Excused
  <2>2. CASE ~Held(m) /\ req[m] = "ok"
    BY <2>0, <2>2, DeliveredStable, SupersededStable, DisturbedStable DEF NothingLost
  <2>3. QED
    BY <2>1, <2>2
<1>3. QED
  BY <1>1, <1>2, Invariance, AddressInvariance, SessionInvariance, PTL DEF Spec

-----------------------------------------------------------------------------
(* The mailbox *)

(* The fate of a message, one line for each. *)
LEMMA FateIs ==
  ASSUME NEW m \in Msgs
  PROVE  /\ Delivered(m) => Fate(m) = "delivered"
         /\ ~Delivered(m) /\ Held(m) => Fate(m) = "held"
         /\ ~Delivered(m) /\ ~Held(m) /\ req[m] = "ok" => Fate(m) = "dropped"
         /\ ~Delivered(m) /\ ~Held(m) /\ req[m] = "error" => Fate(m) = "refused"
         /\ ~Delivered(m) /\ ~Held(m) /\ req[m] \notin {"ok", "error"}
              => Fate(m) = "new"
  BY DEF Fate

(* The same after a step. *)
LEMMA FateBecomes ==
  ASSUME NEW m \in Msgs
  PROVE  /\ Delivered(m)' => Fate(m)' = "delivered"
         /\ ~Delivered(m)' /\ Held(m)' => Fate(m)' = "held"
         /\ ~Delivered(m)' /\ ~Held(m)' /\ req'[m] = "ok" => Fate(m)' = "dropped"
         /\ ~Delivered(m)' /\ ~Held(m)' /\ req'[m] = "error"
              => Fate(m)' = "refused"
         /\ ~Delivered(m)' /\ ~Held(m)' /\ req'[m] \notin {"ok", "error"}
              => Fate(m)' = "new"
  BY DEF Fate

(* What is gone or delivered does not come back. *)
LEMMA NoReturn ==
  ASSUME TypeOK, [Next]_vars, NEW m \in Msgs, req[m] = "ok",
         Held(m)' \/ Delivered(m)'
  PROVE  Held(m) \/ Delivered(m)
<1>1. PICK e : Somewhere(e)' /\ e.msg = m
  BY DEF Held, Delivered, Pooled, InHandshakes, InMessages, Popped, Buffered,
         Carried, Somewhere, In
<1>2. CASE Somewhere(e)
  BY <1>1, <1>2 DEF Held, Delivered, Pooled, InHandshakes, InMessages, Popped,
                    Buffered, Carried, Somewhere, In
<1>3. ASSUME NEW n \in Msgs, req[n] # "ok", e = Wrap(n) \/ Upserted(e, n)
      PROVE  FALSE
  <2>1. CASE e = Wrap(n)
    BY <1>1, <1>3, <2>1, WrapType
  <2>2. CASE Upserted(e, n)
    <3>1. PICK row \in Envelope : e = [row EXCEPT !.msg = n]
      BY <2>2 DEF Upserted, TypeOK, PoolsTypeOK
    <3>2. e.msg = n
      BY <3>1 DEF Envelope
    <3>3. QED
      BY <1>1, <1>3, <3>2
  <2>3. QED
    BY <1>3, <2>1, <2>2
<1>4. QED
  BY <1>1, <1>2, <1>3, Movement DEF Fresh

(* Each message keeps its fate or makes a move the mailbox allows. *)
LEMMA MailboxMove ==
  ASSUME RelayInv, RelayInv', AddressInv, SessionInv, [Next]_vars, NEW m \in Msgs
  PROVE  Fate(m)' = Fate(m) \/ Box!Move(m)
<1>0. /\ TypeOK
      /\ Held(m) \/ Delivered(m) => req[m] = "ok"
      /\ Held(m)' \/ Delivered(m)' => req'[m] = "ok"
      /\ m.to \in UserIds
  BY MsgsAssumption DEF RelayInv, OnePlace, Message
<1>1. Box!Move(m) <=>
        \/ Fate(m) = "new" /\ Fate(m)' \in {"held", "delivered", "refused"}
        \/ Fate(m) = "held" /\ Fate(m)' = "delivered"
        \/ Fate(m) \in {"new", "held"} /\ Fate(m)' = "dropped" /\ Box!MayDrop(m)
  BY DEF Box!Move
<1>2. CASE Delivered(m)
  BY <1>0, <1>2, DeliveredStable, FateIs, FateBecomes
<1>3. ASSUME ~Delivered(m), Held(m) \/ req[m] # "ok", req'[m] = "ok"
      PROVE  Fate(m)' = Fate(m) \/ Box!Move(m)
  <2>1. Fate(m) = IF Held(m) THEN "held" ELSE "new"
    <3>1. CASE Held(m)
      BY <1>3, <3>1, FateIs
    <3>2. CASE ~Held(m) /\ req[m] # "error"
      BY <1>3, <3>2, FateIs
    <3>3. CASE req[m] = "error"
      BY <1>0, <1>3, <3>3, ErrorStable
    <3>4. QED
      BY <3>1, <3>2, <3>3
  <2>2. CASE Delivered(m)'
    BY <1>1, <2>1, <2>2, FateBecomes
  <2>3. CASE ~Delivered(m)' /\ Held(m)'
    BY <1>1, <2>1, <2>3, FateBecomes
  <2>4. CASE ~Delivered(m)' /\ ~Held(m)'
    <3>1. Excused(m)
      BY <1>3, <2>4, KeptStep DEF Kept
    <3>2. Box!MayDrop(m)
      <4>1. CASE m \in aged
        BY <4>1 DEF Box!MayDrop
      <4>2. CASE Disturbed(m.to)'
        BY <4>2 DEF Box!MayDrop, Disturbed
      <4>3. CASE Superseded(m)'
        <5>1. PICK n \in Msgs \ {m} : /\ IsHandshake(m) /\ IsHandshake(n)
                                      /\ m.from = n.from /\ m.to = n.to
                                      /\ req'[n] = "ok"
          BY <4>3 DEF Superseded, SamePair
        <5>2. Fate(n)' \notin {"new", "refused"}
          BY <5>1, FateBecomes
        <5>3. Box!Replaced(m)
          BY <5>1, <5>2 DEF Box!Replaced, Box!IsHandshake, Box!HandshakeTypes,
                            IsHandshake, HandshakeTypes
        <5>4. QED
          BY <5>3 DEF Box!MayDrop
      <4>4. QED
        BY <3>1, <4>1, <4>2, <4>3 DEF Excused
    <3>3. Fate(m)' = "dropped"
      BY <1>3, <2>4, FateBecomes
    <3>4. QED
      BY <1>1, <2>1, <3>2, <3>3
  <2>5. QED
    BY <2>2, <2>3, <2>4
<1>4. CASE ~Delivered(m) /\ ~Held(m) /\ req[m] = "ok"
  <2>1. req'[m] = "ok" /\ ~Held(m)' /\ ~Delivered(m)'
    BY <1>0, <1>4, OkStable, NoReturn
  <2>2. QED
    BY <1>4, <2>1, FateIs, FateBecomes
<1>5. CASE req[m] # "ok" /\ req'[m] # "ok"
  <2>1. ~Held(m) /\ ~Delivered(m) /\ ~Held(m)' /\ ~Delivered(m)'
    BY <1>0, <1>5
  <2>2. CASE req[m] = "error"
    <3>1. req'[m] = "error"
      BY <1>0, <2>2, ErrorStable
    <3>2. QED
      BY <2>1, <2>2, <3>1, FateIs, FateBecomes
  <2>3. CASE req[m] # "error"
    <3>1. Fate(m) = "new" /\ Fate(m)' \in {"new", "refused"}
      <4>1. CASE req'[m] = "error"
        BY <1>5, <2>1, <2>3, <4>1, FateIs, FateBecomes
      <4>2. CASE req'[m] # "error"
        BY <1>5, <2>1, <2>3, <4>2, FateIs, FateBecomes
      <4>3. QED
        BY <4>1, <4>2
    <3>2. QED
      BY <1>1, <3>1
  <2>4. QED
    BY <2>2, <2>3
<1>6. req[m] = "ok" => req'[m] = "ok"
  BY <1>0, OkStable
<1>7. QED
  BY <1>2, <1>3, <1>4, <1>5, <1>6

(* The relay implements the mailbox: whatever its threads, connections and *)
(* statements do, each message has one fate; what was delivered or refused *)
(* stays so; and what was accepted is dropped only with a reason the       *)
(* mailbox allows.                                                         *)
THEOREM RelayImplementsMailbox == Spec => ImplementsMailbox
<1>1. Init => Box!Init
  <2> SUFFICES ASSUME Init
               PROVE  Box!Init
    OBVIOUS
  <2>1. \A m \in Msgs : ~Held(m) /\ ~Delivered(m) /\ req[m] = "unsent"
    BY CarriedNone DEF Init, NotifierInit, PoolsInit, NoSession, NoSync, Held,
       Delivered, Pooled, InHandshakes, InMessages, Popped, Buffered
  <2>2. \A m \in Msgs : Fate(m) = "new"
    BY <2>1, FateIs
  <2>3. \A u : ~Disturbed(u)
    BY DEF Init, NotifierInit, NoSync, Disturbed
  <2>4. aged = {}
    BY DEF Init, PoolsInit
  <2>5. QED
    BY <2>2, <2>3, <2>4 DEF Box!Init
<1>2. RelayInv /\ RelayInv' /\ AddressInv /\ SessionInv /\ [Next]_vars => Box!Next
  <2> SUFFICES ASSUME RelayInv, RelayInv', AddressInv, SessionInv, [Next]_vars
               PROVE  Box!Next
    OBVIOUS
  <2>0. TypeOK
    BY DEF RelayInv
  <2>1. \A m \in Msgs : Fate(m)' = Fate(m) \/ Box!Move(m)
    BY MailboxMove
  <2>2. \A m \in Msgs : Fate(m)' \in Box!Fates
    <3>1. TAKE m \in Msgs
    <3>2. CASE Delivered(m)'
      BY <3>2, FateBecomes DEF Box!Fates
    <3>3. CASE ~Delivered(m)' /\ Held(m)'
      BY <3>3, FateBecomes DEF Box!Fates
    <3>4. CASE ~Delivered(m)' /\ ~Held(m)' /\ req'[m] \in {"ok", "error"}
      BY <3>4, FateBecomes DEF Box!Fates
    <3>5. CASE ~Delivered(m)' /\ ~Held(m)' /\ req'[m] \notin {"ok", "error"}
      BY <3>5, FateBecomes DEF Box!Fates
    <3>6. QED
      BY <3>2, <3>3, <3>4, <3>5
  <2>3. \A u : Disturbed(u) => Disturbed(u)'
    BY <2>0, DisturbedStable
  <2>4. aged \subseteq aged'
    BY <2>0, DeliveredStable
  <2>5. QED
    BY <2>1, <2>2, <2>3, <2>4 DEF Box!Next
<1>3. QED
  BY <1>1, <1>2, Invariance, AddressInvariance, SessionInvariance, PTL
     DEF Spec, ImplementsMailbox, Box!Spec

-----------------------------------------------------------------------------
(* The order of a handshake and of what waited for its answer *)

Before(envelopes, h, m) ==
  \A i, j \in DOMAIN envelopes :
    envelopes[i].msg = h /\ envelopes[j].msg = m => i < j

(* Along the way of an envelope to user u (pool, coroutine, buffer, socket) *)
(* m has not overtaken h and cannot overtake it.                            *)
Ordered(u, h, m) ==
  LET buffer == clients[u].pending_messages
  IN /\ Before(buffer, h, m)
     /\ Pooled(m) \/ req[m] \in {"validate", "insert"} => h \notin Carried(buffer)
     /\ \A c \in Conns : UserOf[c] = u =>
          /\ Before(wire[c], h, m) /\ Before(sync[c].offline, h, m)
          /\ m \in Carried(sync[c].offline) => h \notin Carried(buffer)
          /\ m \in Carried(wire[c]) =>
               /\ h \notin Carried(sync[c].offline) /\ h \notin Carried(buffer)
               /\ InHandshakes(h) => sync[c].pc # "handshakes"

OrderInv ==
  /\ \A m \in Msgs : req[m] # "unsent" =>
       \A p \in Prior[m] : p # m /\ req[p] = "ok"
  /\ \A c \in Conns : conn[c] = "idle" => wire[c] = <<>>
  /\ \A u \in UserIds : ~Disturbed(u) =>
       \A m \in Msgs : \A h \in Prior[m] :
         IsHandshake(h) /\ h.to = u /\ m.to = u => Ordered(u, h, m)

LEMMA BeforeConcat ==
  ASSUME NEW s \in Seq(Envelope), NEW t \in Seq(Envelope), NEW h, NEW m,
         Before(s, h, m), Before(t, h, m), m \in Carried(s) => h \notin Carried(t)
  PROVE  Before(s \o t, h, m)
<1> SUFFICES ASSUME NEW i \in DOMAIN (s \o t), NEW j \in DOMAIN (s \o t),
                    (s \o t)[i].msg = h, (s \o t)[j].msg = m
             PROVE  i < j
  BY DEF Before
<1>1. CASE i \in DOMAIN s /\ j \in DOMAIN s
  BY <1>1 DEF Before
<1>2. CASE i \notin DOMAIN s /\ j \notin DOMAIN s
  <2>1. /\ i - Len(s) \in DOMAIN t /\ t[i - Len(s)] = (s \o t)[i]
        /\ j - Len(s) \in DOMAIN t /\ t[j - Len(s)] = (s \o t)[j]
    BY <1>2
  <2>2. i - Len(s) < j - Len(s)
    BY <2>1 DEF Before
  <2>3. QED
    BY <2>2
<1>3. CASE i \in DOMAIN s /\ j \notin DOMAIN s
  BY <1>3
<1>4. CASE i \notin DOMAIN s /\ j \in DOMAIN s
  <2>1. i - Len(s) \in DOMAIN t /\ t[i - Len(s)] = (s \o t)[i]
    BY <1>4
  <2>2. (s \o t)[j] = s[j]
    BY <1>4
  <2>3. h \in Carried(t) /\ m \in Carried(s)
    BY <1>4, <2>1, <2>2 DEF Carried
  <2>4. QED
    BY <2>3
<1>5. QED
  BY <1>1, <1>2, <1>3, <1>4

(* A list without one of the two is in order. *)
LEMMA BeforeAbsent ==
  \A s, h, m : h \notin Carried(s) \/ m \notin Carried(s) => Before(s, h, m)
  BY DEF Before, Carried

LEMMA BeforeNone == \A h, m : Before(<<>>, h, m)
  BY DEF Before

(* What is nowhere, and not on its way to a pool, overtakes nothing. *)
LEMMA OrderedIfAbsent ==
  ASSUME NEW u \in UserIds, NEW h, NEW m,
         ~Held(m)', ~Delivered(m)', req'[m] \notin {"validate", "insert"}
  PROVE  Ordered(u, h, m)'
<1>1. /\ ~Pooled(m)' /\ m \notin Carried(clients'[u].pending_messages)
      /\ \A c \in Conns : /\ m \notin Carried(wire'[c])
                          /\ m \notin Carried(sync'[c].offline)
  BY DEF Held, Delivered, Popped, Buffered
<1>2. QED
  BY <1>1, BeforeAbsent DEF Ordered

(* Emptying a list, or not touching it, changes no order. *)
LEMMA OrderedShrink ==
  ASSUME NEW u \in UserIds, NEW h, NEW m, Ordered(u, h, m),
         \A c \in Conns : UserOf[c] = u =>
           /\ wire'[c] = wire[c]
           /\ sync'[c].offline \in {sync[c].offline, <<>>}
           /\ sync'[c].pc = "handshakes" => \/ sync[c].pc = "handshakes"
                                            \/ wire[c] = <<>>,
         clients'[u].pending_messages \in {clients[u].pending_messages, <<>>},
         InHandshakes(h)' => InHandshakes(h),
         Pooled(m)' \/ req'[m] \in {"validate", "insert"} =>
           \/ Pooled(m) \/ req[m] \in {"validate", "insert"}
           \/ h \notin Carried(clients'[u].pending_messages)
  PROVE  Ordered(u, h, m)'
  BY BeforeNone, CarriedNone DEF Ordered

(* The only connection of an undisturbed user, once its buffer may be sent *)
LEMMA SyncedSession ==
  ASSUME TypeOK, AddressInv, SessionInv, OfflineWhilePopping, BufferGetsFlushed,
         NEW u \in UserIds, ~Disturbed(u), Registered(u), ~clients[u].is_syncing
  PROVE  LET d == clients[u].connection
         IN /\ d \in Conns /\ UserOf[d] = u /\ conn[d] = "open"
            /\ sync[d].pc = "done" /\ sync[d].offline = <<>>
            /\ clients[u].pending_messages = <<>>
<1> DEFINE d == clients[u].connection
<1>1. d \in Conns /\ UserOf[d] = u
  BY RegisteredType DEF AddressInv, TypeOK
<1>2. conn[d] = "open"
  BY NotOpen
<1>3. OwnSession(d)
  BY <1>1, <1>2 DEF SessionInv
<1>4. sync[d].pc = "done"
  BY <1>1, <1>3 DEF OwnSession
<1>5. QED
  BY <1>1, <1>2, <1>4 DEF OfflineWhilePopping, BufferGetsFlushed

(* A message that is pushed or buffered comes after what it waited for. *)
LEMMA OrderedByNotify ==
  ASSUME RelayInv, AddressInv, SessionInv, BufferGetsFlushed, NEW n \in Msgs,
         NotifyShared(n.to, Wrap(n)) \/ NotifyExclusive(n.to, Wrap(n)),
         req[n] # "ok", Answer(n, "ok"), UNCHANGED <<poolVars, sync>>,
         NEW u \in UserIds, ~Disturbed(u), NEW m \in Msgs, NEW h \in Msgs,
         req[h] = "ok", h # m, Ordered(u, h, m)
  PROVE  Ordered(u, h, m)'
<1>0. /\ TypeOK /\ OfflineWhilePopping /\ NotifierTypeOK
      /\ n # h
      /\ ~Held(n) /\ ~Delivered(n)
      /\ Registered(n.to) /\ n.to \in UserIds
      /\ Wrap(n) \in Envelope /\ <<Wrap(n)>> \in Seq(Envelope)
      /\ Carried(<<Wrap(n)>>) = {n}
  BY WrapType, CarriedOne, NotifyWrites DEF RelayInv, TypeOK, OnePlace
<1>1. /\ req'[n] = "ok"
      /\ \A k \in Msgs \ {n} : req'[k] = req[k]
      /\ \A k : Pooled(k)' = Pooled(k) /\ InHandshakes(k)' = InHandshakes(k)
  BY <1>0 DEF Answer, poolVars, TypeOK, Pooled, InHandshakes, InMessages
<1> DEFINE one == <<Wrap(n)>>
<1>2. h \notin Carried(one) /\ Before(one, h, m)
  BY <1>0, BeforeAbsent
<1>3. CASE n.to # u
  <2>1. clients'[u] = clients[u]
    BY <1>0, <1>3 DEF NotifyShared, NotifyExclusive, NotifierTypeOK
  <2>2. ASSUME NEW c \in Conns, UserOf[c] = u PROVE wire'[c] = wire[c]
    <3>1. UserOf[clients[n.to].connection] = n.to
      BY <1>0 DEF AddressInv
    <3>2. QED
      BY <1>0, <1>3, <2>2, <3>1
         DEF NotifyShared, NotifyExclusive, Send, NotifierTypeOK
  <2>3. QED
    BY <1>1, <2>1, <2>2, OrderedShrink
<1>4. CASE n.to = u /\ ~clients[u].is_syncing
  <2> DEFINE d == clients[u].connection
  <2>1. /\ d \in Conns /\ UserOf[d] = u /\ conn[d] = "open"
        /\ sync[d].pc = "done" /\ sync[d].offline = <<>>
        /\ clients[u].pending_messages = <<>>
    BY <1>0, <1>4, SyncedSession
  <2>2. /\ wire'[d] = wire[d] \o one
        /\ \A c \in Conns \ {d} : wire'[c] = wire[c]
        /\ UNCHANGED clients
    BY <1>0, <1>4, <2>1 DEF NotifyShared, NotifyExclusive, Send, NotifierTypeOK
  <2>3. Before(wire'[d], h, m)
    <3>1. wire[d] \in Seq(Envelope) /\ Before(wire[d], h, m)
      BY <1>0, <2>1 DEF NotifierTypeOK, Ordered
    <3>2. QED
      BY <1>0, <1>2, <2>2, <3>1, BeforeConcat
  <2>4. Pooled(m)' \/ req'[m] \in {"validate", "insert"} =>
          Pooled(m) \/ req[m] \in {"validate", "insert"}
    BY <1>1
  <2>5. QED
    BY <1>1, <2>1, <2>2, <2>3, <2>4, CarriedNone, BeforeNone DEF Ordered
<1>5. CASE n.to = u /\ clients[u].is_syncing
  <2> DEFINE p == clients[u].pending_messages
  <2>1. clients[u] \in ClientSession /\ p \in Seq(Envelope)
    BY <1>0, <1>5, RegisteredType
  <2>2. UNCHANGED wire /\ clients'[u].pending_messages = p \o one
    <3>1. Append(p, Wrap(n)) = p \o one
      BY <1>0, <2>1, AppendIsConcat
    <3>2. QED
      BY <1>0, <1>5, <2>1, <3>1
         DEF NotifyShared, NotifyExclusive, NotifierTypeOK, ClientSession
  <2>3. Carried(p \o one) = Carried(p) \cup {n}
    BY <1>0, <2>1, CarriedConcat
  <2>4. Before(p \o one, h, m)
    BY <1>0, <1>2, <2>1, BeforeConcat DEF Ordered
  <2>5. h \in Carried(p \o one) => h \in Carried(p)
    BY <1>0, <2>3
  <2>6. Pooled(m)' \/ req'[m] \in {"validate", "insert"} =>
          Pooled(m) \/ req[m] \in {"validate", "insert"}
    BY <1>1
  <2>7. QED
    BY <1>1, <2>2, <2>4, <2>5, <2>6 DEF Ordered
<1>6. QED
  BY <1>3, <1>4, <1>5

(* A pop of rows of a pool puts h ahead of m or leaves it behind for good. *)
LEMMA OrderedByPop ==
  ASSUME RelayInv, NEW c \in Conns, SyncHandshakes(c) \/ SyncMessages(c),
         NEW u \in UserIds, NEW m \in Msgs, NEW h \in Prior[m], h \in Msgs,
         IsHandshake(h), h.to = m.to, h # m, Ordered(u, h, m)
  PROVE  Ordered(u, h, m)'
<1>0. TypeOK
  BY DEF RelayInv
<1>1. UNCHANGED <<clients, wire, req>>
  BY DEF SyncHandshakes, SyncMessages, notifierVars
<1>2. CASE UserOf[c] # u
  <2>1. /\ \A d \in Conns \ {c} : sync'[d] = sync[d]
        /\ handshakes_pool' \subseteq handshakes_pool
        /\ messages_pool' \subseteq messages_pool
    BY <1>0 DEF SyncHandshakes, SyncMessages, PopHandshakeSignals,
                PopEncryptedMessages, Resume, TypeOK
  <2>2. (InHandshakes(h)' => InHandshakes(h)) /\ (Pooled(m)' => Pooled(m))
    BY <2>1 DEF Pooled, InHandshakes, InMessages
  <2>3. QED
    BY <1>1, <1>2, <2>1, <2>2, OrderedShrink
<1>3. CASE UserOf[c] = u /\ SyncHandshakes(c)
  <2> DEFINE S == RowsFor(handshakes_pool, u)
  <2>1. PICK rows \in SetToSeqs(S) : Resume(c, "messages", rows)
    BY <1>3 DEF SyncHandshakes
  <2>2. S \in SUBSET Envelope
    BY <1>0 DEF RowsFor, TypeOK, PoolsTypeOK
  <2>3. Carried(rows) = {row.msg : row \in S}
    BY <2>2, PoppedRows
  <2>4. /\ \A d \in Conns \ {c} : sync'[d] = sync[d]
        /\ sync'[c].offline = rows /\ sync'[c].pc = "messages"
        /\ handshakes_pool' \subseteq handshakes_pool
        /\ UNCHANGED messages_pool
        /\ sync[c].pc = "handshakes"
    BY <1>0, <1>3, <2>1 DEF SyncHandshakes, PopHandshakeSignals, Resume, TypeOK
  <2>5. h \in Carried(rows) => InHandshakes(h)
    BY <2>3 DEF RowsFor, InHandshakes
  <2>6. m \in Carried(rows) => InHandshakes(m)
    BY <2>3 DEF RowsFor, InHandshakes
  <2>7. ~(InHandshakes(h) /\ InHandshakes(m))
    <3>1. SamePair(h, m)
      BY RelayAssumption DEF SamePair
    <3>2. QED
      BY <3>1 DEF InHandshakes, RelayInv, RowsUnique
  <2>8. Before(rows, h, m)
    BY <2>5, <2>6, <2>7, BeforeAbsent
  <2>9. m \in Carried(rows) => h \notin Carried(clients[u].pending_messages)
    BY <2>6 DEF Ordered, Pooled
  <2>10. m \in Carried(wire[c]) => h \notin Carried(rows)
    BY <1>3, <2>4, <2>5 DEF Ordered
  <2>11. (InHandshakes(h)' => InHandshakes(h)) /\ (Pooled(m)' => Pooled(m))
    BY <2>4 DEF Pooled, InHandshakes, InMessages
  <2>12. QED
    BY <1>1, <1>3, <2>4, <2>8, <2>9, <2>10, <2>11 DEF Ordered
<1>4. CASE UserOf[c] = u /\ SyncMessages(c)
  <2> DEFINE S == RowsFor(messages_pool, u)
  <2> DEFINE old == sync[c].offline
  <2>1. PICK rows \in SetToSeqs(S) : Resume(c, "finish", old \o rows)
    BY <1>4 DEF SyncMessages
  <2>2. S \in SUBSET Envelope /\ old \in Seq(Envelope)
    BY <1>0 DEF RowsFor, TypeOK, PoolsTypeOK, Sync
  <2>3. rows \in Seq(Envelope) /\ Carried(rows) = {row.msg : row \in S}
    BY <2>2, PoppedRows
  <2>4. /\ \A d \in Conns \ {c} : sync'[d] = sync[d]
        /\ sync'[c].offline = old \o rows /\ sync'[c].pc = "finish"
        /\ messages_pool' \subseteq messages_pool
        /\ UNCHANGED handshakes_pool
    BY <1>0, <1>4, <2>1 DEF SyncMessages, PopEncryptedMessages, Resume, TypeOK
  <2>5. h \notin Carried(rows)
    BY <2>3 DEF RowsFor, RelayInv, RowsUnique
  <2>6. m \in Carried(rows) => Pooled(m)
    BY <2>3 DEF RowsFor, InMessages, Pooled
  <2>7. Before(old \o rows, h, m)
    <3>1. Before(old, h, m) /\ Before(rows, h, m)
      BY <1>4, <2>5, BeforeAbsent DEF Ordered
    <3>2. QED
      BY <2>2, <2>3, <2>5, <3>1, BeforeConcat
  <2>8. Carried(old \o rows) = Carried(old) \cup Carried(rows)
    BY <2>2, <2>3, CarriedConcat
  <2>9. m \in Carried(old \o rows) => h \notin Carried(clients[u].pending_messages)
    BY <1>4, <2>6, <2>8 DEF Ordered
  <2>10. m \in Carried(wire[c]) => h \notin Carried(old \o rows)
    BY <1>4, <2>5, <2>8 DEF Ordered
  <2>11. (InHandshakes(h)' => InHandshakes(h)) /\ (Pooled(m)' => Pooled(m))
    BY <2>4 DEF Pooled, InHandshakes, InMessages
  <2>12. QED
    BY <1>1, <1>4, <2>4, <2>7, <2>9, <2>10, <2>11 DEF Ordered
<1>5. QED
  BY <1>2, <1>3, <1>4

-----------------------------------------------------------------------------

(* finishSync sends first what was stored, then what came in meanwhile. *)
LEMMA OrderedByFinish ==
  ASSUME TypeOK, AddressInv, SessionInv, OfflineWhilePopping, NEW c \in Conns,
         SyncFinish(c), NEW u \in UserIds, ~Disturbed(u), NEW m, NEW h,
         Ordered(u, h, m)
  PROVE  Ordered(u, h, m)'
<1>0. /\ UNCHANGED <<req, handshakes_pool, messages_pool>>
      /\ \A d \in Conns \ {c} : sync'[d] = sync[d]
      /\ sync[c].pc = "finish" /\ sync'[c].pc = "done" /\ sync'[c].offline = <<>>
      /\ FinishSync(UserOf[c], sync[c].offline)
      /\ sync[c].offline \in Seq(Envelope)
      /\ NotifierTypeOK
      /\ UserOf[c] \in UserIds
  BY ConnsAssumption, MsgsAssumption
     DEF SyncFinish, Resume, TypeOK, poolVars, Sync
<1>1. /\ InHandshakes(h)' = InHandshakes(h)
      /\ Pooled(m)' \/ req'[m] \in {"validate", "insert"} =>
           Pooled(m) \/ req[m] \in {"validate", "insert"}
  BY <1>0 DEF Pooled, InHandshakes, InMessages
<1>2. CASE UserOf[c] # u
  <2>1. clients'[u] = clients[u]
    BY <1>0, <1>2, FinishWrites
  <2>2. ASSUME NEW d \in Conns, UserOf[d] = u PROVE wire'[d] = wire[d]
    <3>1. Registered(UserOf[c]) => UserOf[clients[UserOf[c]].connection] = UserOf[c]
      BY <1>0 DEF AddressInv
    <3>2. QED
      BY <1>0, <1>2, <2>2, <3>1 DEF FinishSync, Send, NotifierTypeOK
  <2>3. QED
    BY <1>0, <1>1, <1>2, <2>1, <2>2, OrderedShrink
<1>3. CASE UserOf[c] = u
  <2> DEFINE p == clients[u].pending_messages
  <2> DEFINE old == sync[c].offline
  <2>1. conn[c] = "open"
    <3>1. conn[c] \in ConnStates \ {"idle"}
      BY <1>0 DEF SessionInv, NoSync, NotifierTypeOK
    <3>2. QED
      BY <1>3, <3>1 DEF ConnStates, Disturbed
  <2>2. clients[u].connection = c /\ Registered(u)
    BY <1>3, <2>1, ConnsAssumption DEF SessionInv, OwnSession, Registered, NoSession
  <2>3. clients[u] \in ClientSession /\ p \in Seq(Envelope)
    BY <1>0, <2>2, RegisteredType
  <2>4. /\ wire'[c] = wire[c] \o (old \o p)
        /\ \A d \in Conns \ {c} : wire'[d] = wire[d]
        /\ clients'[u].pending_messages = <<>>
    <3>1. /\ Send(c, old \o p)
          /\ clients' = [clients EXCEPT ![u].pending_messages = <<>>,
                                       ![u].is_syncing = FALSE]
      BY <1>0, <1>3, <2>2 DEF FinishSync
    <3>2. clients'[u].pending_messages = <<>>
      BY <2>3, <3>1, <1>0, <1>3 DEF NotifierTypeOK, ClientSession
    <3>3. QED
      BY <1>0, <2>1, <3>1, <3>2 DEF Send, NotifierTypeOK
  <2>5. /\ Before(wire[c], h, m) /\ Before(old, h, m) /\ Before(p, h, m)
        /\ m \in Carried(old) => h \notin Carried(p)
        /\ m \in Carried(wire[c]) => h \notin Carried(old) /\ h \notin Carried(p)
    BY <1>3 DEF Ordered
  <2>6. Before(old \o p, h, m)
    BY <1>0, <2>3, <2>5, BeforeConcat
  <2>7. /\ old \o p \in Seq(Envelope) /\ wire[c] \in Seq(Envelope)
        /\ Carried(old \o p) = Carried(old) \cup Carried(p)
    BY <1>0, <2>3, CarriedConcat DEF NotifierTypeOK
  <2>8. Before(wire[c] \o (old \o p), h, m)
    BY <2>5, <2>6, <2>7, BeforeConcat
  <2>9. QED
    BY <1>0, <1>1, <1>3, <2>4, <2>8, BeforeNone, CarriedNone DEF Ordered
<1>4. QED
  BY <1>2, <1>3

(* A client posts a message once its handshakes have been answered. *)
LEMMA PriorStep ==
  ASSUME TypeOK, OrderInv, [Next]_vars
  PROVE  \A m \in Msgs : req'[m] # "unsent" =>
           \A p \in Prior[m] : p # m /\ req[p] = "ok" /\ req'[p] = "ok"
<1> SUFFICES ASSUME NEW m \in Msgs, req'[m] # "unsent", NEW p \in Prior[m]
             PROVE  p # m /\ req[p] = "ok" /\ req'[p] = "ok"
  OBVIOUS
<1>0. p \in Msgs
  BY RelayAssumption
<1>1. CASE req[m] # "unsent"
  BY <1>0, <1>1, OkStable DEF OrderInv
<1>2. CASE req[m] = "unsent"
  <2>1. MayPost(m)
    <3>1. ASSUME NEW n \in Msgs, Request(n) PROVE MayPost(m)
      <4>1. \/ MayPost(n)
            \/ req[n] # "unsent"
        BY <3>1 DEF Request, RejectInit, Post, Notify, Validate, Insert,
                    SaveFails, Step
      <4>2. n = m
        BY <1>2, <3>1 DEF Request, RejectInit, Post, Notify, Validate, Insert,
                          SaveFails, Step, Answer, TypeOK
      <4>3. QED
        BY <1>2, <4>1, <4>2
    <3>2. ASSUME NEW c \in Conns, Synchronise(c) \/ Connection(c)
          PROVE  UNCHANGED req
      BY <3>2 DEF Synchronise, SyncHandshakes, SyncMessages, SyncFails, SyncFinish,
                  SyncRecover, Connection, HandleNewConnection, ConnectionLost,
                  HandleConnectionClosed, processVars
    <3>3. CASE Background
      BY <1>2, <3>3 DEF Background, CleanHandshakes, CleanMessages, CleanFails, Age,
                        Crash, RunningReq, processVars
    <3>4. CASE UNCHANGED vars
      BY <1>2, <3>4 DEF vars, processVars
    <3>5. QED
      BY <1>2, <3>1, <3>2, <3>3, <3>4 DEF Next
  <2>2. p # m /\ req[p] = "ok"
    BY <1>2, <2>1 DEF MayPost
  <2>3. QED
    BY <1>0, <2>2, OkStable
<1>3. QED
  BY <1>1, <1>2

(* Nothing is sent on a connection that was not opened. *)
LEMMA IdleStep ==
  ASSUME TypeOK, OrderInv, [Next]_vars, NEW c \in Conns, conn'[c] = "idle"
  PROVE  wire'[c] = <<>>
<1>0. NotifierTypeOK /\ (wire[c] = <<>> \/ conn[c] # "idle")
  BY DEF OrderInv, TypeOK
<1>1. ASSUME NEW n \in Msgs, Request(n) PROVE wire'[c] = <<>>
  BY <1>0, <1>1 DEF Request, RejectInit, Post, Notify, Validate, Insert, SaveFails,
                    NotifyShared, NotifyExclusive, Send, notifierVars, TypeOK,
                    NotifierTypeOK
<1>2. ASSUME NEW d \in Conns, Synchronise(d) PROVE wire'[c] = <<>>
  BY <1>0, <1>2 DEF Synchronise, SyncHandshakes, SyncMessages, SyncFails,
                    SyncFinish, SyncRecover, FinishSync, Send, notifierVars, TypeOK,
                    NotifierTypeOK
<1>3. ASSUME NEW d \in Conns, Connection(d) PROVE wire'[c] = <<>>
  BY <1>0, <1>3 DEF Connection, HandleNewConnection, ConnectionLost, GoDown,
                    HandleConnectionClosed, TypeOK, NotifierTypeOK
<1>4. CASE Background \/ UNCHANGED vars
  BY <1>0, <1>4 DEF Background, CleanHandshakes, CleanMessages, CleanFails, Age,
                    Crash, Shutdown, notifierVars, vars, TypeOK, NotifierTypeOK
<1>5. QED
  BY <1>1, <1>2, <1>3, <1>4 DEF Next

(* The order survives every step; one case per action. *)
LEMMA OrderedStep ==
  ASSUME RelayInv, RelayInv', AddressInv, SessionInv, BufferGetsFlushed, OrderInv,
         [Next]_vars, NEW u \in UserIds, ~Disturbed(u)', NEW m \in Msgs,
         NEW h \in Prior[m], IsHandshake(h), h.to = u, m.to = u
  PROVE  Ordered(u, h, m)'
<1>0. /\ TypeOK /\ OfflineWhilePopping /\ NotifierTypeOK
      /\ h \in Msgs /\ ~Disturbed(u)
      /\ Ordered(u, h, m)
      /\ Held(m)' \/ Delivered(m)' => req'[m] = "ok"
      /\ UserOf \in [Conns -> UserIds]
  BY DisturbedStable, RelayAssumption, ConnsAssumption, MsgsAssumption
     DEF RelayInv, OrderInv, OnePlace, TypeOK
<1>1. CASE req'[m] = "unsent"
  BY <1>0, <1>1, OrderedIfAbsent
<1>2. CASE req'[m] # "unsent"
  <2>1. h # m /\ req[h] = "ok"
    BY <1>0, <1>2, PriorStep
  <2>2. ASSUME \A c \in Conns : UserOf[c] = u =>
                 /\ wire'[c] = wire[c]
                 /\ sync'[c].offline \in {sync[c].offline, <<>>}
                 /\ sync'[c].pc = "handshakes" => \/ sync[c].pc = "handshakes"
                                                  \/ wire[c] = <<>>,
               clients'[u].pending_messages
                 \in {clients[u].pending_messages, <<>>},
               handshakes_pool' \subseteq handshakes_pool,
               messages_pool' \subseteq messages_pool,
               req'[m] \in {"validate", "insert"}
                 => req[m] \in {"validate", "insert"}
        PROVE  Ordered(u, h, m)'
    <3>1. (InHandshakes(h)' => InHandshakes(h)) /\ (Pooled(m)' => Pooled(m))
      BY <2>2 DEF Pooled, InHandshakes, InMessages
    <3>2. QED
      BY <1>0, <2>2, <3>1, OrderedShrink
  <2>3. ASSUME NEW n \in Msgs, Request(n) PROVE Ordered(u, h, m)'
    <3>1. UNCHANGED sync
      BY <2>3 DEF Request, RejectInit, Post, Notify, Validate, Insert, SaveFails
    <3>2. CASE /\ NotifyShared(n.to, Wrap(n)) \/ NotifyExclusive(n.to, Wrap(n))
               /\ req[n] # "ok" /\ Answer(n, "ok") /\ UNCHANGED <<poolVars, sync>>
      BY <1>0, <2>1, <3>2, OrderedByNotify
    <3>3. CASE Insert(n)
      <4>1. /\ UNCHANGED <<clients, wire>> /\ req[n] = "insert" /\ n # h
            /\ \A k \in Msgs \ {n} : req'[k] = req[k]
            /\ req'[n] = "ok"
            /\ handshakes_pool \in SUBSET Envelope /\ Wrap(n).msg = n
        BY <1>0, <2>1, <3>3, WrapType
           DEF Insert, Step, Answer, notifierVars, TypeOK, PoolsTypeOK
      <4>2. ASSUME NEW row \in handshakes_pool' \cup messages_pool', row.msg # n
            PROVE  /\ row \in handshakes_pool' => row \in handshakes_pool
                   /\ row \in messages_pool' => row \in messages_pool
        BY <3>3, <4>1, <4>2
           DEF Insert, SaveHandshakeSignal, SaveEncryptedMessage, Envelope
      <4>3. /\ InHandshakes(h)' => InHandshakes(h)
            /\ Pooled(m)' => Pooled(m) \/ m = n
        BY <4>1, <4>2 DEF Pooled, InHandshakes, InMessages
      <4>4. QED
        BY <1>0, <3>1, <4>1, <4>3, OrderedShrink
    <3>4. CASE UNCHANGED <<notifierVars, poolVars>>
      <4>1. CASE req'[m] \in {"validate", "insert"}
                   => req[m] \in {"validate", "insert"}
        BY <2>2, <3>1, <3>4, <4>1 DEF notifierVars, poolVars
      <4>2. CASE /\ req'[m] \in {"validate", "insert"}
                 /\ req[m] \notin {"validate", "insert"}
        <5>1. ~Registered(u)
          BY <1>0, <2>3, <3>4, <4>2
             DEF Request, RejectInit, Post, Notify, Validate, Insert, SaveFails,
                 Step, Answer, NotifyExclusive, TypeOK, notifierVars, poolVars
        <5>2. clients'[u].pending_messages = <<>>
          BY <3>4, <5>1 DEF Registered, NoSession, notifierVars
        <5>3. InHandshakes(h)' => InHandshakes(h)
          BY <3>4 DEF InHandshakes, poolVars
        <5>4. QED
          BY <1>0, <3>1, <3>4, <5>2, <5>3, OrderedShrink, CarriedNone
             DEF notifierVars
      <4>3. QED
        BY <4>1, <4>2
    <3>5. QED
      BY <2>3, <3>2, <3>3, <3>4 DEF Request, RejectInit, Post, MayPost, Notify,
                                    Validate, SaveFails, Step
  <2>4. ASSUME NEW c \in Conns, Synchronise(c) PROVE Ordered(u, h, m)'
    <3>1. UNCHANGED req /\ \A d \in Conns \ {c} : sync'[d] = sync[d]
      BY <1>0, <2>4 DEF Synchronise, SyncHandshakes, SyncMessages, SyncFails,
                        SyncFinish, SyncRecover, Resume, TypeOK
    <3>2. CASE SyncHandshakes(c) \/ SyncMessages(c)
      BY <1>0, <2>1, <3>2, OrderedByPop
    <3>3. CASE SyncFails(c)
      <4>1. /\ UNCHANGED <<handshakes_pool, messages_pool, clients, wire>>
            /\ sync'[c].pc = "recover"
        BY <1>0, <3>3 DEF SyncFails, Resume, notifierVars, poolVars, TypeOK
      <4>2. UserOf[c] # u
        BY <4>1 DEF Disturbed
      <4>3. QED
        BY <2>2, <3>1, <4>1, <4>2
    <3>4. CASE SyncFinish(c)
      BY <1>0, <3>4, OrderedByFinish
    <3>5. CASE SyncRecover(c)
      <4>1. /\ UNCHANGED <<handshakes_pool, messages_pool>>
            /\ FinishSync(UserOf[c], <<>>) /\ UserOf[c] # u
        BY <1>0, <3>5 DEF SyncRecover, Disturbed, poolVars
      <4>2. clients'[u] = clients[u]
        BY <1>0, <4>1 DEF FinishSync, NotifierTypeOK
      <4>3. ASSUME NEW d \in Conns, UserOf[d] = u PROVE wire'[d] = wire[d]
        <5>1. Registered(UserOf[c])
                => UserOf[clients[UserOf[c]].connection] = UserOf[c]
          BY <1>0 DEF AddressInv
        <5>2. QED
          BY <1>0, <4>1, <4>3, <5>1 DEF FinishSync, Send, NotifierTypeOK
      <4>4. QED
        BY <2>2, <3>1, <4>1, <4>2, <4>3
    <3>6. QED
      BY <2>4, <3>2, <3>3, <3>4, <3>5 DEF Synchronise
  <2>5. ASSUME NEW c \in Conns, HandleNewConnection(c) PROVE Ordered(u, h, m)'
    <3>1. /\ UNCHANGED <<handshakes_pool, messages_pool, req, wire>>
          /\ \A d \in Conns \ {c} : sync'[d] = sync[d]
          /\ sync'[c].offline = <<>>
          /\ wire[c] = <<>>
      BY <1>0, <2>5 DEF HandleNewConnection, Resume, poolVars, TypeOK, OrderInv
    <3>2. clients'[u].pending_messages \in {clients[u].pending_messages, <<>>}
      BY <1>0, <2>5 DEF HandleNewConnection, AddConnection, NotifierTypeOK
    <3>3. QED
      BY <2>2, <3>1, <3>2
  <2>6. ASSUME NEW c \in Conns, ConnectionLost(c) \/ HandleConnectionClosed(c)
        PROVE  Ordered(u, h, m)'
    <3>1. UNCHANGED <<handshakes_pool, messages_pool, req, wire, sync>>
      BY <2>6 DEF ConnectionLost, GoDown, HandleConnectionClosed, poolVars,
                  processVars
    <3>2. clients'[u].pending_messages \in {clients[u].pending_messages, <<>>}
      BY <1>0, <2>6 DEF ConnectionLost, GoDown, HandleConnectionClosed,
                        RemoveConnection, NoSession, NotifierTypeOK
    <3>3. QED
      BY <2>2, <3>1, <3>2
  <2>7. CASE CleanHandshakes \/ CleanMessages \/ CleanFails \/ Age \/ UNCHANGED vars
    <3>1. /\ UNCHANGED <<req, wire, sync, clients>>
          /\ handshakes_pool' \subseteq handshakes_pool
          /\ messages_pool' \subseteq messages_pool
      BY <2>7 DEF CleanHandshakes, RemoveStaleHandshakes, CleanMessages,
                  RemoveStaleMessages, CleanFails, Age, RowAges, vars, notifierVars,
                  poolVars, processVars
    <3>2. QED
      BY <2>2, <3>1
  <2>8. CASE Crash
    <3>1. /\ UNCHANGED <<handshakes_pool, messages_pool, wire>>
          /\ clients'[u].pending_messages = <<>>
          /\ req'[m] \in {"validate", "insert"} => req[m] \in {"validate", "insert"}
      BY <2>8 DEF Crash, Shutdown, NoSession, poolVars, RunningReq
    <3>2. \A c \in Conns :
            /\ sync'[c].offline \in {sync[c].offline, <<>>}
            /\ sync'[c].pc # "handshakes"
      BY <2>8 DEF Crash
    <3>3. QED
      BY <2>2, <3>1, <3>2
  <2>9. QED
    BY <2>3, <2>4, <2>5, <2>6, <2>7, <2>8 DEF Next, Connection, Background
<1>3. QED
  BY <1>1, <1>2

(* On the only connection of a user, the key arrives before what it        *)
(* decrypts: for any number of messages, senders and pools' contents.      *)
THEOREM HandshakesComeFirst == Spec => []HandshakeFirst
<1>1. Init => OrderInv
  <2> SUFFICES ASSUME Init
               PROVE  OrderInv
    OBVIOUS
  <2>1. \A u \in UserIds, h, m \in Msgs : Ordered(u, h, m)
    BY BeforeNone, CarriedNone
       DEF Init, NotifierInit, PoolsInit, NoSession, NoSync, Ordered, Pooled,
           InHandshakes, InMessages
  <2>2. QED
    BY <2>1, RelayAssumption DEF Init, NotifierInit, OrderInv
<1>2. /\ RelayInv /\ RelayInv' /\ AddressInv /\ SessionInv /\ BufferGetsFlushed
      /\ OrderInv /\ [Next]_vars
      => OrderInv'
  <2> SUFFICES ASSUME RelayInv, RelayInv', AddressInv, SessionInv,
                      BufferGetsFlushed, OrderInv, [Next]_vars
               PROVE  OrderInv'
    OBVIOUS
  <2>1. TypeOK
    BY DEF RelayInv
  <2>2. \A m \in Msgs : req'[m] # "unsent" =>
          \A p \in Prior[m] : p # m /\ req'[p] = "ok"
    BY <2>1, PriorStep
  <2>3. \A c \in Conns : conn'[c] = "idle" => wire'[c] = <<>>
    BY <2>1, IdleStep
  <2>4. \A u \in UserIds : ~Disturbed(u)' =>
          \A m \in Msgs : \A h \in Prior[m] :
            IsHandshake(h) /\ h.to = u /\ m.to = u => Ordered(u, h, m)'
    BY OrderedStep
  <2>5. QED
    BY <2>2, <2>3, <2>4 DEF OrderInv
<1>3. RelayInv /\ AddressInv /\ OrderInv => HandshakeFirst
  <2> SUFFICES ASSUME RelayInv, AddressInv, OrderInv, NEW c \in Conns,
                      NEW i \in DOMAIN wire[c], NEW j \in DOMAIN wire[c],
                      wire[c][i].msg \in Prior[wire[c][j].msg],
                      IsHandshake(wire[c][i].msg), ~Disturbed(UserOf[c])
               PROVE  i < j
    BY DEF HandshakeFirst
  <2> DEFINE h == wire[c][i].msg
  <2> DEFINE m == wire[c][j].msg
  <2>1. h \in Carried(wire[c]) /\ m \in Carried(wire[c])
    BY DEF Carried
  <2>2. UserOf[c] \in UserIds /\ h.to = UserOf[c] /\ m.to = UserOf[c]
    BY <2>1, ConnsAssumption, MsgsAssumption DEF AddressInv, Addressed
  <2>3. m \in Msgs
    <3>1. wire[c] \in Seq(Envelope)
      BY DEF RelayInv, TypeOK, NotifierTypeOK
    <3>2. wire[c][j] \in Envelope
      BY <3>1
    <3>3. QED
      BY <3>2 DEF Envelope
  <2>4. Ordered(UserOf[c], h, m)
    BY <2>2, <2>3 DEF OrderInv
  <2>5. Before(wire[c], h, m)
    BY <2>4 DEF Ordered
  <2>6. QED
    BY <2>5 DEF Before
<1>4. QED
  BY <1>1, <1>2, <1>3, Invariance, AddressInvariance, SessionInvariance,
     BuffersGetFlushed, PTL DEF Spec
=============================================================================
