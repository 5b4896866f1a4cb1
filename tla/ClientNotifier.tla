--------------------------- MODULE ClientNotifier ---------------------------
(***************************************************************************)
(* The WebsocketClientNotifier plugin (server/services/ClientNotifier.cpp) *)
(* and the websocket connections it writes to.  clients_ is one mutable    *)
(* map shared by 64 IO threads behind a shared_mutex; each operation is    *)
(* one critical section, so each is one action.  Only notifyClient has two *)
(* critical sections (a shared one, then an exclusive one) and is split.   *)
(***************************************************************************)
EXTENDS Sequences, SecretMessages

CONSTANTS
  Conns,      \* websocket connections, each opened at most once
  NoConn,     \* the connection of an absent session
  UserOf      \* the user whose token opened a connection

ASSUME ConnsAssumption ==
  /\ NoConn \notin Conns
  /\ UserOf \in [Conns -> Users]

VARIABLES
  conn,       \* life of each connection, as the server's event loop sees it
  clients,    \* clients_: user id -> ClientSession
  wire        \* what was handed to each connection while it was open

notifierVars == <<conn, clients, wire>>

(***************************************************************************)
(* A connection is "down" from the moment the peer or the network is gone  *)
(* until drogon runs its close handler; sends in between are discarded.    *)
(***************************************************************************)
ConnStates == {"idle", "open", "down", "closed"}

ClientSession ==
  [connection : Conns, is_syncing : BOOLEAN, pending_messages : Seq(Envelope)]

NoSession ==
  [connection |-> NoConn, is_syncing |-> FALSE, pending_messages |-> <<>>]

NotifierTypeOK ==
  /\ conn \in [Conns -> ConnStates]
  /\ clients \in [UserIds -> ClientSession \cup {NoSession}]
  /\ wire \in [Conns -> Seq(Envelope)]

NotifierInit ==
  /\ conn = [c \in Conns |-> "idle"]
  /\ clients = [u \in UserIds |-> NoSession]
  /\ wire = [c \in Conns |-> <<>>]

(* clients_.find(user_id) != clients_.end() *)
Registered(u) == clients[u] # NoSession

(* connection->send of a list of messages, in order *)
Send(c, msgs) ==
  wire' = IF conn[c] = "open" THEN [wire EXCEPT ![c] = @ \o msgs] ELSE wire

(* notifyClient, first critical section: TRUE only for a synced session *)
NotifyShared(u, p) ==
  /\ Registered(u)
  /\ ~clients[u].is_syncing
  /\ Send(clients[u].connection, <<p>>)
  /\ UNCHANGED <<conn, clients>>

(* notifyClient, second critical section: the lookup is done again *)
NotifyExclusive(u, p) ==
  /\ Registered(u)
  /\ IF clients[u].is_syncing
       THEN /\ clients' = [clients EXCEPT ![u].pending_messages = Append(@, p)]
            /\ UNCHANGED wire
       ELSE /\ Send(clients[u].connection, <<p>>)
            /\ UNCHANGED clients
  /\ UNCHANGED conn

(* addConnection: the previous session of the user, if any, is overwritten *)
AddConnection(u, c) ==
  clients' = [clients EXCEPT ![u] =
    [connection |-> c, is_syncing |-> TRUE, pending_messages |-> <<>>]]

(* removeConnection: erases by user id, whichever connection is registered *)
RemoveConnection(u) ==
  clients' = [clients EXCEPT ![u] = NoSession]

(* Mutant: pending_messages is not cleared *)
FinishSyncKeepsBuffer(u, offline_messages) ==
  /\ UNCHANGED conn
  /\ IF Registered(u)
       THEN /\ Send(clients[u].connection,
                    offline_messages \o clients[u].pending_messages)
            /\ clients' = [clients EXCEPT ![u].is_syncing = FALSE]
       ELSE UNCHANGED <<clients, wire>>

(* Mutant: the buffer is sent ahead of the offline messages *)
FinishSyncBufferFirst(u, offline_messages) ==
  /\ UNCHANGED conn
  /\ IF Registered(u)
       THEN /\ Send(clients[u].connection,
                    clients[u].pending_messages \o offline_messages)
            /\ clients' = [clients EXCEPT ![u].pending_messages = <<>>,
                                          ![u].is_syncing = FALSE]
       ELSE UNCHANGED <<clients, wire>>

(* Mutant: the buffer is cleared but not sent *)
FinishSyncDropsBuffer(u, offline_messages) ==
  /\ UNCHANGED conn
  /\ IF Registered(u)
       THEN /\ Send(clients[u].connection, offline_messages)
            /\ clients' = [clients EXCEPT ![u].pending_messages = <<>>,
                                          ![u].is_syncing = FALSE]
       ELSE UNCHANGED <<clients, wire>>

(* finishSync: offline messages, then the buffer, to the session's socket  *)
FinishSync(u, offline_messages) ==
  /\ UNCHANGED conn
  /\ IF Registered(u)
       THEN /\ Send(clients[u].connection,
                    offline_messages \o clients[u].pending_messages)
            /\ clients' = [clients EXCEPT ![u].pending_messages = <<>>,
                                          ![u].is_syncing = FALSE]
       ELSE UNCHANGED <<clients, wire>>

(* The connection is lost; the server has not noticed yet *)
GoDown(c) ==
  /\ conn[c] = "open"
  /\ conn' = [conn EXCEPT ![c] = "down"]
  /\ UNCHANGED <<clients, wire>>

(* A stop of the process, planned (shutdown) or not: the map is gone *)
Shutdown ==
  /\ clients' = [u \in UserIds |-> NoSession]
  /\ conn' = [c \in Conns |-> IF conn[c] = "idle" THEN "idle" ELSE "closed"]
  /\ UNCHANGED wire
=============================================================================
