---------------------------- MODULE SecretRelay -----------------------------
(***************************************************************************)
(* The relay of secret chats on the server: SecretChatsService over the    *)
(* notifier and the two pools, and the websocket controller that           *)
(* synchronises a user who connects.                                       *)
(*                                                                         *)
(* A posted message is pushed to its acceptor if a session is registered,  *)
(* and stored for the next connection otherwise.  Requests, close          *)
(* handlers and synchronisations are coroutines and callbacks on 64 IO     *)
(* threads; they interleave at every lock and every co_await, so the       *)
(* program counters below stop exactly there.                              *)
(***************************************************************************)
EXTENDS SequencesExt, ClientNotifier, SecretPools

CONSTANTS
  Prior,       \* requests whose answer a client awaits before it posts m
  MaxFaults,   \* bound on failed SQL statements
  MaxCrashes   \* bound on stops of the server process

ASSUME RelayAssumption ==
  /\ Prior \in [Msgs -> SUBSET Msgs]
  /\ \A m \in Msgs : \A p \in Prior[m] : p.from = m.from
  /\ MaxFaults \in Nat
  /\ MaxCrashes \in Nat

VARIABLES
  req,       \* where the request coroutine of each message stands
  sync,      \* the synchronisation coroutine started by each connection
  cleaner,   \* the background removal of stale rows
  faults,    \* failed SQL statements so far
  crashes    \* stops of the process so far

processVars == <<req, sync, cleaner>>
envVars == <<faults, crashes>>
vars == <<notifierVars, poolVars, processVars, envVars>>

(***************************************************************************)
(* unsent -> notify (between the two locks of notifyClient) -> validate -> *)
(* insert -> ok.  ok is a message taken in, and error one that is not,     *)
(* whether it was answered so or the process stopped before it answered.   *)
(***************************************************************************)
ReqStates == {"unsent", "notify", "validate", "insert", "ok", "error"}

RunningReq(m) == req[m] \in {"notify", "validate", "insert"}

(* recover: the catch block of the coroutine, about to flush the buffer    *)
SyncStates ==
  {"none", "handshakes", "messages", "finish", "recover", "done", "failed"}

Sync == [pc : SyncStates, offline : Seq(Envelope)]

NoSync == [pc |-> "none", offline |-> <<>>]

TypeOK ==
  /\ NotifierTypeOK
  /\ PoolsTypeOK
  /\ req \in [Msgs -> ReqStates]
  /\ sync \in [Conns -> Sync]
  /\ cleaner \in {"idle", "messages"}
  /\ faults \in 0 .. MaxFaults
  /\ crashes \in 0 .. MaxCrashes

Init ==
  /\ NotifierInit
  /\ PoolsInit
  /\ req = [m \in Msgs |-> "unsent"]
  /\ sync = [c \in Conns |-> NoSync]
  /\ cleaner = "idle"
  /\ faults = 0
  /\ crashes = 0

-----------------------------------------------------------------------------
(* Requests: chatInit, chatAccept, deleteChat, sendMessage, readMessage *)

Answer(m, result) == req' = [req EXCEPT ![m] = result]

Step(m, from, to) == req[m] = from /\ Answer(m, to)

(* A client posts m once the requests it awaited have succeeded *)
MayPost(m) == req[m] = "unsent" /\ \A p \in Prior[m] : req[p] = "ok"

(* chatInit refuses a secret chat with oneself *)
WithOneself(m) == m.type = "REQUEST" /\ m.from = m.to

RejectInit(m) ==
  /\ MayPost(m)
  /\ WithOneself(m)
  /\ Answer(m, "error")
  /\ UNCHANGED <<notifierVars, poolVars, sync, cleaner, envVars>>

(* Up to the release of the shared lock *)
Post(m) ==
  /\ MayPost(m)
  /\ ~WithOneself(m)
  /\ \/ /\ NotifyShared(m.to, Wrap(m))
        /\ Answer(m, "ok")
     \/ /\ ~(Registered(m.to) /\ ~clients[m.to].is_syncing)
        /\ Answer(m, "notify")
        /\ UNCHANGED notifierVars
  /\ UNCHANGED <<poolVars, sync, cleaner, envVars>>

(* Mutant: TRUE is not returned, and what was pushed is stored as well *)
NotifyAndStore(m) ==
  /\ req[m] = "notify"
  /\ Answer(m, "validate")
  /\ \/ NotifyExclusive(m.to, Wrap(m))
     \/ ~Registered(m.to) /\ UNCHANGED notifierVars
  /\ UNCHANGED <<poolVars, sync, cleaner, envVars>>

(* Under the exclusive lock; FALSE sends the request to the repository *)
Notify(m) ==
  /\ req[m] = "notify"
  /\ \/ /\ NotifyExclusive(m.to, Wrap(m))
        /\ Answer(m, "ok")
     \/ /\ ~Registered(m.to)
        /\ Answer(m, "validate")
        /\ UNCHANGED notifierVars
  /\ UNCHANGED <<poolVars, sync, cleaner, envVars>>

(* First statement of both save functions *)
Validate(m) ==
  /\ Step(m, "validate", IF BothUsersExist(m) THEN "insert" ELSE "error")
  /\ UNCHANGED <<notifierVars, poolVars, sync, cleaner, envVars>>

(* Second statement of both *)
Insert(m) ==
  /\ Step(m, "insert", "ok")
  /\ IF IsHandshake(m) THEN SaveHandshakeSignal(m) ELSE SaveEncryptedMessage(m)
  /\ UNCHANGED <<notifierVars, sync, cleaner, envVars>>

(* A statement that fails is rolled back by Postgres: it changes nothing *)
Fault == faults < MaxFaults /\ faults' = faults + 1

SaveFails(m) ==
  /\ Fault
  /\ req[m] \in {"validate", "insert"}
  /\ Answer(m, "error")
  /\ UNCHANGED <<notifierVars, poolVars, sync, cleaner, crashes>>

-----------------------------------------------------------------------------
(* Connections: handleNewConnection with its coroutine, and the closing *)

Resume(c, pc, offline) ==
  sync' = [sync EXCEPT ![c] = [pc |-> pc, offline |-> offline]]

HandleNewConnection(c) ==
  /\ conn[c] = "idle"
  /\ conn' = [conn EXCEPT ![c] = "open"]
  /\ AddConnection(UserOf[c], c)
  /\ Resume(c, "handshakes", <<>>)
  /\ UNCHANGED <<wire, poolVars, req, cleaner, envVars>>

(* syncOfflineData; SQL gives the returned rows no order *)
SyncHandshakes(c) ==
  /\ sync[c].pc = "handshakes"
  /\ PopHandshakeSignals(UserOf[c])
  /\ \E rows \in SetToSeqs(RowsFor(handshakes_pool, UserOf[c])) :
       Resume(c, "messages", rows)
  /\ UNCHANGED <<notifierVars, req, cleaner, envVars>>

SyncMessages(c) ==
  /\ sync[c].pc = "messages"
  /\ PopEncryptedMessages(UserOf[c])
  /\ \E rows \in SetToSeqs(RowsFor(messages_pool, UserOf[c])) :
       Resume(c, "finish", sync[c].offline \o rows)
  /\ UNCHANGED <<notifierVars, req, cleaner, envVars>>

(* The exception destroys offline_data, popped handshakes included *)
SyncFails(c) ==
  /\ Fault
  /\ sync[c].pc \in {"handshakes", "messages"}
  /\ Resume(c, "recover", <<>>)
  /\ UNCHANGED <<notifierVars, poolVars, req, cleaner, crashes>>

SyncFinish(c) ==
  /\ sync[c].pc = "finish"
  /\ FinishSync(UserOf[c], sync[c].offline)
  /\ Resume(c, "done", <<>>)
  /\ UNCHANGED <<poolVars, req, cleaner, envVars>>

(* Mutant: the catch block only logs *)
SyncRecoverOnlyLogs(c) ==
  /\ sync[c].pc = "recover"
  /\ Resume(c, "failed", <<>>)
  /\ UNCHANGED <<notifierVars, poolVars, req, cleaner, envVars>>

SyncRecover(c) ==
  /\ sync[c].pc = "recover"
  /\ FinishSync(UserOf[c], <<>>)
  /\ Resume(c, "failed", <<>>)
  /\ UNCHANGED <<poolVars, req, cleaner, envVars>>

ConnectionLost(c) ==
  /\ GoDown(c)
  /\ UNCHANGED <<poolVars, processVars, envVars>>

HandleConnectionClosed(c) ==
  /\ conn[c] = "down"
  /\ conn' = [conn EXCEPT ![c] = "closed"]
  /\ RemoveConnection(UserOf[c])
  /\ UNCHANGED <<wire, poolVars, processVars, envVars>>

-----------------------------------------------------------------------------
(* The 24 hour timer, and the process *)

CleanHandshakes ==
  /\ cleaner = "idle"
  /\ RemoveStaleHandshakes
  /\ cleaner' = "messages"
  /\ UNCHANGED <<notifierVars, req, sync, envVars>>

CleanMessages ==
  /\ cleaner = "messages"
  /\ RemoveStaleMessages
  /\ cleaner' = "idle"
  /\ UNCHANGED <<notifierVars, req, sync, envVars>>

(* Caught in the repository: the run ends, the next one starts afresh *)
CleanFails ==
  /\ Fault
  /\ cleaner' = "idle"
  /\ UNCHANGED <<notifierVars, poolVars, req, sync, crashes>>

Age ==
  /\ \E row \in handshakes_pool \cup messages_pool : RowAges(row)
  /\ UNCHANGED <<notifierVars, processVars, envVars>>

(***************************************************************************)
(* Everything in memory is gone, and open requests get no answer.  Of the  *)
(* INSERTs under way some have reached Postgres, which goes on with them.  *)
(***************************************************************************)
Crash ==
  /\ crashes < MaxCrashes
  /\ crashes' = crashes + 1
  /\ Shutdown
  /\ \E reached \in SUBSET {m \in Msgs : req[m] = "insert"} :
       req' = [m \in Msgs |->
         IF RunningReq(m) /\ m \notin reached THEN "error" ELSE req[m]]
  /\ sync' = [c \in Conns |->
       IF sync[c].pc \in {"none", "done", "failed"} THEN sync[c]
       ELSE [pc |-> "failed", offline |-> <<>>]]
  /\ cleaner' = "idle"
  /\ UNCHANGED <<poolVars, faults>>

-----------------------------------------------------------------------------
Request(m) ==
  RejectInit(m) \/ Post(m) \/ Notify(m) \/ Validate(m) \/ Insert(m)
    \/ SaveFails(m)

Synchronise(c) ==
  SyncHandshakes(c) \/ SyncMessages(c) \/ SyncFails(c) \/ SyncFinish(c)
    \/ SyncRecover(c)

Connection(c) ==
  HandleNewConnection(c) \/ ConnectionLost(c) \/ HandleConnectionClosed(c)

Background == CleanHandshakes \/ CleanMessages \/ CleanFails \/ Age \/ Crash

Next ==
  \/ \E m \in Msgs : Request(m)
  \/ \E c \in Conns : Synchronise(c) \/ Connection(c)
  \/ Background

(***************************************************************************)
(* Coroutines that are running go on, and drogon runs the close handler of *)
(* a dead connection.  Nobody has to post, connect, age or fail.           *)
(***************************************************************************)
Fairness ==
  /\ \A m \in Msgs : WF_vars(Notify(m) \/ Validate(m) \/ Insert(m))
  /\ \A c \in Conns : /\ WF_vars(Synchronise(c))
                      /\ WF_vars(HandleConnectionClosed(c))

Spec == Init /\ [][Next]_vars

FairSpec == Spec /\ Fairness

-----------------------------------------------------------------------------
(* Where a message is.  A request that runs holds its message itself. *)

Carried(envelopes) == {envelopes[i].msg : i \in DOMAIN envelopes}

InHandshakes(m) == \E row \in handshakes_pool : row.msg = m

InMessages(m) == \E row \in messages_pool : row.msg = m

Pooled(m) == InHandshakes(m) \/ InMessages(m)

Popped(m) == \E c \in Conns : m \in Carried(sync[c].offline)

Buffered(m) == \E u \in UserIds : m \in Carried(clients[u].pending_messages)

Delivered(m) == \E c \in Conns : m \in Carried(wire[c])

Held(m) == Pooled(m) \/ Popped(m) \/ Buffered(m)

(***************************************************************************)
(* A user is undisturbed while all that happened is one connection, still  *)
(* open, whose synchronisation has met no database failure.                *)
(***************************************************************************)
Disturbed(u) ==
  \/ \E c \in Conns : UserOf[c] = u
       /\ (conn[c] \in {"down", "closed"} \/ sync[c].pc \in {"recover", "failed"})
  \/ \E c, d \in Conns : c # d /\ UserOf[c] = u /\ UserOf[d] = u
       /\ conn[c] # "idle" /\ conn[d] # "idle"

(* A later handshake of the same pair took the row of m *)
Superseded(m) ==
  IsHandshake(m) /\ \E n \in Msgs : n # m /\ IsHandshake(n) /\ SamePair(m, n)
                                      /\ req[n] = "ok"

-----------------------------------------------------------------------------
(* The server never relays a message twice: not on one connection, not on  *)
(* two, whatever overlaps, closes, fails or restarts in between.           *)
AtMostOnce ==
  \A c, d \in Conns : \A i \in DOMAIN wire[c], j \in DOMAIN wire[d] :
    wire[c][i].msg = wire[d][j].msg => c = d /\ i = j

(* A message is nowhere until its request succeeds, and then in one kind   *)
(* of place: what was delivered cannot come back from a pool or a buffer.  *)
OnePlace ==
  \A m \in Msgs :
    /\ Held(m) \/ Delivered(m) => req[m] = "ok"
    /\ Pooled(m) => ~Popped(m) /\ ~Buffered(m) /\ ~Delivered(m)
    /\ Popped(m) => ~Buffered(m) /\ ~Delivered(m)
    /\ Buffered(m) => ~Delivered(m)

(* The inductive strengthening of the two: rows are sorted by kind, one    *)
(* per pair or message; lists repeat no message and share none with their  *)
(* like; only a coroutine between its first pop and its end carries rows.  *)
RowsUnique ==
  /\ \A row \in handshakes_pool : IsHandshake(row.msg)
  /\ \A row \in messages_pool : ~IsHandshake(row.msg)
  /\ \A r, s \in handshakes_pool : SamePair(r.msg, s.msg) => r = s
  /\ \A r, s \in messages_pool : r.msg = s.msg => r = s

NoRepeats(envelopes) ==
  \A i, j \in DOMAIN envelopes : envelopes[i].msg = envelopes[j].msg => i = j

ListsUnique ==
  /\ \A c \in Conns : NoRepeats(wire[c]) /\ NoRepeats(sync[c].offline)
  /\ \A u \in UserIds : NoRepeats(clients[u].pending_messages)

ListsDisjoint ==
  \A m \in Msgs :
    /\ \A c, d \in Conns :
         /\ m \in Carried(wire[c]) /\ m \in Carried(wire[d]) => c = d
         /\ m \in Carried(sync[c].offline) /\ m \in Carried(sync[d].offline)
              => c = d
    /\ \A u, v \in UserIds :
         /\ m \in Carried(clients[u].pending_messages)
         /\ m \in Carried(clients[v].pending_messages)
         => u = v

OfflineWhilePopping ==
  \A c \in Conns :
    sync[c].pc \notin {"messages", "finish"} => sync[c].offline = <<>>

RelayInv ==
  /\ TypeOK
  /\ RowsUnique
  /\ ListsUnique
  /\ ListsDisjoint
  /\ OnePlace
  /\ OfflineWhilePopping

(* Nothing waits in the buffer of a session that no coroutine will flush:  *)
(* the buffer of a synced session is empty, and a session that is syncing  *)
(* has a coroutine of its user still to call finishSync.                   *)
BufferGetsFlushed ==
  \A u \in UserIds :
    /\ ~clients[u].is_syncing => clients[u].pending_messages = <<>>
    /\ clients[u].is_syncing =>
         \E c \in Conns : UserOf[c] = u
           /\ sync[c].pc \in {"handshakes", "messages", "finish", "recover"}

(* Messages reach only connections of the user they are addressed to.      *)
OnlyToAcceptor ==
  \A c \in Conns : \A m \in Carried(wire[c]) : m.to = UserOf[c]

(* The sender hears "error" only of a message the server does not have: a  *)
(* client deletes its local copy then, so the peer must never get one.     *)
ErrorMeansNotRelayed ==
  \A m \in Msgs : req[m] = "error" => ~Held(m) /\ ~Delivered(m)

(* An accepted message for an undisturbed user is stored, on its way or    *)
(* delivered, unless a later handshake took its row or it waited 30 days.  *)
NothingLost ==
  \A m \in Msgs :
    req[m] = "ok" => \/ Held(m) \/ Delivered(m) \/ Superseded(m)
                     \/ m \in aged \/ Disturbed(m.to)

(* The only connection of a user gets a message after the handshake its    *)
(* client waited for: the key arrives before what it decrypts.             *)
HandshakeFirst ==
  \A c \in Conns : \A i, j \in DOMAIN wire[c] :
    LET h == wire[c][i].msg  m == wire[c][j].msg
    IN h \in Prior[m] /\ IsHandshake(h) /\ ~Disturbed(UserOf[c]) => i < j

(* A chat id other than the sender's is that of an earlier handshake of    *)
(* the same pair, whose row the upsert reused.                             *)
ForeignChatIdOnlyByUpsert ==
  \A c \in Conns : \A i \in DOMAIN wire[c] :
    LET e == wire[c][i]
    IN e.chat # e.msg.chat =>
         \E n \in Msgs :
           /\ n # e.msg /\ n.from = e.msg.from /\ n.to = e.msg.to
           /\ n.chat = e.chat
           /\ IsHandshake(n) /\ req[n] = "ok"

-----------------------------------------------------------------------------
(* A session that is syncing stops to: it is synced, replaced or removed.  *)
SyncEnds ==
  \A c \in Conns : LET s == clients[UserOf[c]]
    IN s.connection = c /\ s.is_syncing
         ~> ~(s.connection = c /\ s.is_syncing)

(* On its way: buffered, popped, or stored when the acceptor connected.    *)
OnItsWay(m) ==
  \/ Buffered(m) \/ Popped(m)
  \/ \E c \in Conns : UserOf[c] = m.to
       /\ \/ sync[c].pc = "handshakes" /\ Pooled(m)
          \/ sync[c].pc = "messages" /\ InMessages(m)

(* What is on its way to an undisturbed user arrives.                      *)
OnItsWayArrives ==
  \A m \in Msgs : OnItsWay(m)
    ~> Delivered(m) \/ Disturbed(m.to) \/ Superseded(m) \/ m \in aged

-----------------------------------------------------------------------------
(* After the handshake of a websocket its user receives the notifications  *)
(* of events: an open connection stays registered until another one of the *)
(* user takes its place.                                                   *)
OpenConnectionStaysRegistered ==
  [][\A c \in Conns : LET u == UserOf[c]
       IN clients[u].connection = c /\ conn[c] = "open" /\ conn'[c] = "open"
            => clients'[u].connection \in {d \in Conns : UserOf[d] = u}]_vars
=============================================================================
