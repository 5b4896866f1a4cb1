---------------------------- MODULE SecretChats -----------------------------
(***************************************************************************)
(* Secret chats between the clients: SecretChatManager over                *)
(* SecretDatabaseManager, one device a user.  A client is one Qt event     *)
(* loop: each callback runs to its end, and a call to the server has three *)
(* moments of its own, the posting, the server's step and the callback of  *)
(* the reply.  Between the clients lies the relay, here a mailbox that     *)
(* takes packets in, may merge handshakes and hands packets on.            *)
(***************************************************************************)
EXTENDS Naturals, FiniteSets

CONSTANTS
  Users,
  Chats,       \* secret chats: the id one client draws, its user, the other
  Texts,       \* messages: the id its sender draws, the chat, files or none
  MaxUnderway, \* bound on the calls and packets under way when a user acts
  MaxFaults,   \* bound on failed requests, lost replies and lost packets
  MaxRestarts  \* bound on restarts and new devices

Chat == [id : Nat, by : Users, with : Users]
Text == [id : Nat, by : Users, chat : Chats, files : BOOLEAN]

ASSUME ChatsAssumption ==
  /\ Chats \subseteq Chat
  /\ \A c \in Chats : c.by # c.with
  /\ Texts \subseteq Text
  /\ \A t \in Texts : t.by \in {t.chat.by, t.chat.with}
  /\ Chats \cap Texts = {}
  /\ MaxUnderway \in Nat
  /\ MaxFaults \in Nat
  /\ MaxRestarts \in Nat

VARIABLES
  identity,  \* key pair of each client, counted from 0
  status,    \* of each row in secret_chats; "none" is no row
  secret,    \* its shared_secret; {} is the empty byte array
  saved,     \* rows in secret_messages
  read,      \* those with is_read = 1
  used,      \* ids drawn so far
  calls,     \* HTTP calls under way, each with what its callbacks captured
  mailbox,   \* packets the relay has taken in
  merged,    \* history: chats whose handshake it gave the id of another's
  unheard,   \* history: messages it took in whose sender got no reply
  faults,
  restarts

tables == <<status, secret, saved, read>>
counters == <<faults, restarts>>
past == <<merged, unheard>>
vars == <<identity, tables, used, calls, mailbox, past, counters>>

Keys == [user : Users, pair : Nat]

Key(u) == [user |-> u, pair |-> identity[u]]

Kinds == {"REQUEST", "ACCEPT", "NEW_MESSAGE", "READ", "DELETE"}

Handshakes == {"REQUEST", "ACCEPT", "DELETE"}

(***************************************************************************)
(* check: GET of the peer.  upload: files on their way to S3.  posted: not *)
(* yet at the server.  ok, error: the reply is on its way.  orphan: posted *)
(* by a client that has stopped since.                                     *)
(***************************************************************************)
Stages == {"check", "upload", "posted", "ok", "error", "orphan"}

(* key: the public key, or the shared secret a payload is encrypted with.  *)
(* other: the key of the peer whose request a call accepts.                *)
Packet == [from : Users, to : Users, kind : Kinds, chat : Chats,
           key : SUBSET Keys, texts : SUBSET Texts]

Call == [stage : Stages, other : SUBSET Keys, packet : Packet]

TypeOK ==
  /\ identity \in [Users -> Nat]
  /\ status \in [Users -> [Chats -> {"none", "pending", "active"}]]
  /\ secret \in [Users -> [Chats -> SUBSET Keys]]
  /\ saved \in [Users -> SUBSET Texts]
  /\ read \in [Users -> SUBSET Texts]
  /\ used \in SUBSET (Chats \cup Texts)
  /\ calls \in SUBSET Call
  /\ mailbox \in SUBSET Packet
  /\ merged \in SUBSET Chats
  /\ unheard \in SUBSET Texts
  /\ faults \in 0 .. MaxFaults
  /\ restarts \in 0 .. MaxRestarts

Init ==
  /\ identity = [u \in Users |-> 0]
  /\ status = [u \in Users |-> [c \in Chats |-> "none"]]
  /\ secret = [u \in Users |-> [c \in Chats |-> {}]]
  /\ saved = [u \in Users |-> {}]
  /\ read = [u \in Users |-> {}]
  /\ used = {}
  /\ calls = {}
  /\ mailbox = {}
  /\ merged = {}
  /\ unheard = {}
  /\ faults = 0
  /\ restarts = 0

Fault == faults < MaxFaults /\ faults' = faults + 1

Peer(u, c) == IF u = c.by THEN c.with ELSE c.by

Exists(u, c) == status[u][c] # "none"

TextsOf(c) == {t \in Texts : t.chat = c}

-----------------------------------------------------------------------------
(* SecretDatabaseManager, one statement each *)

(* INSERT OR IGNORE *)
CreateChat(u, c) ==
  /\ status' = [status EXCEPT ![u][c] = IF @ = "none" THEN "pending" ELSE @]
  /\ UNCHANGED <<secret, saved, read>>

(* DELETE, with the messages of the chat by ON DELETE CASCADE *)
DeleteChat(u, c) ==
  /\ status' = [status EXCEPT ![u][c] = "none"]
  /\ secret' = [secret EXCEPT ![u][c] = {}]
  /\ saved' = [saved EXCEPT ![u] = @ \ TextsOf(c)]
  /\ read' = [read EXCEPT ![u] = @ \ TextsOf(c)]

(* Mutant: INSERT OR REPLACE where the chat may be gone *)
InitAnyChat(u, c, other) ==
  /\ status' = [status EXCEPT ![u][c] = "active"]
  /\ secret' = [secret EXCEPT ![u][c] = {Key(u)} \cup other]
  /\ UNCHANGED <<saved, read>>

(* initSecretChat: UPDATE, of the row if there is one *)
InitSecretChat(u, c, other) ==
  /\ IF Exists(u, c)
       THEN /\ status' = [status EXCEPT ![u][c] = "active"]
            /\ secret' = [secret EXCEPT ![u][c] = {Key(u)} \cup other]
       ELSE UNCHANGED <<status, secret>>
  /\ UNCHANGED <<saved, read>>

(* Refused if the chat has no row or the id is taken *)
SaveMessage(u, t) ==
  /\ saved' = [saved EXCEPT ![u] = IF Exists(u, t.chat) THEN @ \cup {t} ELSE @]
  /\ UNCHANGED <<status, secret, read>>

DeleteMessage(u, t) ==
  /\ saved' = [saved EXCEPT ![u] = @ \ {t}]
  /\ read' = [read EXCEPT ![u] = @ \ {t}]
  /\ UNCHANGED <<status, secret>>

SetRead(u, texts) ==
  /\ read' = [read EXCEPT ![u] = @ \cup texts]
  /\ UNCHANGED <<status, secret, saved>>

-----------------------------------------------------------------------------
(* What the user of a client does *)

Outgoing(u, kind, c, key, texts) ==
  [from |-> u, to |-> Peer(u, c), kind |-> kind, chat |-> c, key |-> key,
   texts |-> texts]

Start(stage, other, packet) ==
  calls' = calls \cup {[stage |-> stage, other |-> other, packet |-> packet]}

CreateSecretChatRequest(c) ==
  /\ c \notin used
  /\ used' = used \cup {c}
  /\ Start("check", {}, Outgoing(c.by, "REQUEST", c, {}, {}))
  /\ UNCHANGED <<identity, tables, mailbox, past, counters>>

SendSecretMessage(t) ==
  LET shared_secret == secret[t.by][t.chat] IN
  /\ t \notin used
  /\ shared_secret # {}
  /\ used' = used \cup {t}
  /\ SaveMessage(t.by, t)
  /\ Start(IF t.files THEN "upload" ELSE "posted", {},
           Outgoing(t.by, "NEW_MESSAGE", t.chat, shared_secret, {t}))
  /\ UNCHANGED <<identity, mailbox, past, counters>>

MarkChatAsRead(u, c) ==
  LET unread == {t \in saved[u] \ read[u] : t.chat = c /\ t.by # u} IN
  /\ unread # {}
  /\ SetRead(u, unread)
  /\ Start("posted", {}, Outgoing(u, "READ", c, secret[u][c], unread))
  /\ UNCHANGED <<identity, used, mailbox, past, counters>>

DeleteSecretChat(u, c) ==
  /\ Exists(u, c)
  /\ DeleteChat(u, c)
  /\ Start("posted", {}, Outgoing(u, "DELETE", c, {}, {}))
  /\ UNCHANGED <<identity, used, mailbox, past, counters>>

-----------------------------------------------------------------------------
(* Callbacks of calls *)

Finish(q) == calls' = calls \ {q}

Advance(q, next) == calls' = (calls \ {q}) \cup {next}

CheckAnswered(q) ==
  LET u == q.packet.from IN
  /\ q.stage = "check"
  /\ CreateChat(u, q.packet.chat)
  /\ Advance(q, [q EXCEPT !.stage = "posted", !.packet.key = {Key(u)}])
  /\ UNCHANGED <<identity, used, mailbox, past, counters>>

(* The peer cannot be looked up, or the database does not take the chat *)
CheckFails(q) ==
  /\ Fault
  /\ q.stage = "check"
  /\ Finish(q)
  /\ UNCHANGED <<identity, tables, used, mailbox, past, restarts>>

(* The payload is encrypted and posted if the chat is still there *)
UploadEnds(q) ==
  /\ q.stage = "upload"
  /\ IF Exists(q.packet.from, q.packet.chat)
       THEN Advance(q, [q EXCEPT !.stage = "posted"])
       ELSE Finish(q)
  /\ UNCHANGED <<identity, tables, used, mailbox, past, counters>>

(* An attachment that cannot be saved is never counted as finished *)
UploadStalls(q) ==
  /\ Fault
  /\ q.stage = "upload"
  /\ Finish(q)
  /\ UNCHANGED <<identity, tables, used, mailbox, past, restarts>>

(* Mutant: the acceptor forgets initSecretChat *)
HandshakeAnsweredNoInit(q) ==
  /\ q.packet.kind \in {"REQUEST", "ACCEPT"}
  /\ \/ q.stage = "error" /\ DeleteChat(q.packet.from, q.packet.chat)
     \/ q.stage = "ok" /\ UNCHANGED tables
  /\ Finish(q)
  /\ UNCHANGED <<identity, used, mailbox, past, counters>>

(* An invitation, or its acceptance, that failed takes its chat with it *)
HandshakeAnswered(q) ==
  LET u == q.packet.from  c == q.packet.chat IN
  /\ q.packet.kind \in {"REQUEST", "ACCEPT"}
  /\ \/ q.stage = "error" /\ DeleteChat(u, c)
     \/ q.stage = "ok" /\ q.packet.kind = "ACCEPT" /\ InitSecretChat(u, c, q.other)
     \/ q.stage = "ok" /\ q.packet.kind = "REQUEST" /\ UNCHANGED tables
  /\ Finish(q)
  /\ UNCHANGED <<identity, used, mailbox, past, counters>>

(* Mutant: the message is deleted whatever the answer *)
MessageAnsweredGone(q) ==
  /\ q.packet.kind = "NEW_MESSAGE"
  /\ q.stage \in {"ok", "error"}
  /\ \E t \in q.packet.texts : DeleteMessage(q.packet.from, t)
  /\ Finish(q)
  /\ UNCHANGED <<identity, used, mailbox, past, counters>>

MessageAnswered(q) ==
  /\ q.packet.kind = "NEW_MESSAGE"
  /\ \/ /\ q.stage = "error"
        /\ \E t \in q.packet.texts : DeleteMessage(q.packet.from, t)
     \/ q.stage = "ok" /\ UNCHANGED tables
  /\ Finish(q)
  /\ UNCHANGED <<identity, used, mailbox, past, counters>>

(* The replies to a receipt and to a deletion are only logged *)
InfoAnswered(q) ==
  /\ q.packet.kind \in {"READ", "DELETE"}
  /\ q.stage \in {"ok", "error"}
  /\ Finish(q)
  /\ UNCHANGED <<identity, tables, used, mailbox, past, counters>>

-----------------------------------------------------------------------------
(* The relay *)

Replied(q, answers) ==
  \E answer \in answers :
    calls' = (calls \ {q}) \cup
      (IF q.stage = "orphan" THEN {} ELSE {[q EXCEPT !.stage = answer]})

(***************************************************************************)
(* A packet is pushed or stored as it is; or a stored handshake of the     *)
(* same two users is replaced by it and lends it its chat id.              *)
(***************************************************************************)
TakeIn(p) ==
  \/ mailbox' = mailbox \cup {p} /\ UNCHANGED merged
  \/ /\ p.kind \in Handshakes
     /\ \E old \in mailbox :
          /\ old.kind \in Handshakes /\ old.from = p.from /\ old.to = p.to
          /\ mailbox' = (mailbox \ {old}) \cup {[p EXCEPT !.chat = old.chat]}
          /\ merged' = IF old.chat = p.chat THEN merged
                       ELSE merged \cup {old.chat, p.chat}

Taken(q) ==
  /\ q.stage \in {"posted", "orphan"}
  /\ TakeIn(q.packet)
  /\ Replied(q, {"ok"})
  /\ UNCHANGED <<identity, tables, used, unheard, counters>>

(* The reply is lost, and the client hears of an error *)
TakenUnheard(q) ==
  /\ Fault
  /\ q.stage = "posted"
  /\ TakeIn(q.packet)
  /\ Replied(q, {"error"})
  /\ unheard' = unheard \cup
       (IF q.packet.kind = "NEW_MESSAGE" THEN q.packet.texts ELSE {})
  /\ UNCHANGED <<identity, tables, used, restarts>>

Refused(q) ==
  /\ Fault
  /\ q.stage \in {"posted", "orphan"}
  /\ Replied(q, {"error"})
  /\ UNCHANGED <<identity, tables, used, mailbox, past, restarts>>

(* A connection breaks, or a row waits for 30 days *)
PacketLost(p) ==
  /\ Fault
  /\ mailbox' = mailbox \ {p}
  /\ UNCHANGED <<identity, tables, used, calls, past, restarts>>

-----------------------------------------------------------------------------
(* processIncomingSecretPayload *)

(* In any order: a handshake can wait in a pool while messages are pushed  *)
Deliver(p) == mailbox' = mailbox \ {p} /\ UNCHANGED past

ReceiveRequest(p) ==
  /\ p.kind = "REQUEST"
  /\ Deliver(p)
  /\ Start("check", p.key, Outgoing(p.to, "ACCEPT", p.chat, {}, {}))
  /\ UNCHANGED <<identity, tables, used, counters>>

ReceiveAccept(p) ==
  /\ p.kind = "ACCEPT"
  /\ Deliver(p)
  /\ InitSecretChat(p.to, p.chat, p.key)
  /\ UNCHANGED <<identity, used, calls, counters>>

(* A payload is encoded in base64 once; a receipt is decoded twice *)
Decodings(kind) == IF kind = "READ" THEN 2 ELSE 1

Opens(p) ==
  LET shared_secret == secret[p.to][p.chat] IN
  shared_secret # {} /\ shared_secret = p.key /\ Decodings(p.kind) = 1

ReceiveMessage(p) ==
  /\ p.kind = "NEW_MESSAGE"
  /\ Deliver(p)
  /\ IF Opens(p) THEN \E t \in p.texts : SaveMessage(p.to, t)
                 ELSE UNCHANGED tables
  /\ UNCHANGED <<identity, used, calls, counters>>

ReceiveRead(p) ==
  /\ p.kind = "READ"
  /\ Deliver(p)
  /\ IF Opens(p)
       THEN SetRead(p.to, {t \in saved[p.to] : t.chat = p.chat /\ t.by # p.from})
       ELSE UNCHANGED tables
  /\ UNCHANGED <<identity, used, calls, counters>>

ReceiveDelete(p) ==
  /\ p.kind = "DELETE"
  /\ Deliver(p)
  /\ DeleteChat(p.to, p.chat)
  /\ UNCHANGED <<identity, used, calls, counters>>

-----------------------------------------------------------------------------
(* The callbacks of a stopped client are gone; what it posted may arrive *)
Forget(u) ==
  calls' = {q \in calls : q.packet.from # u \/ q.stage = "orphan"} \cup
    {[q EXCEPT !.stage = "orphan"] : q \in {r \in calls :
       r.packet.from = u /\ r.stage = "posted"}}

Stop(u) == restarts < MaxRestarts /\ restarts' = restarts + 1 /\ Forget(u)

Restart(u) == Stop(u) /\ UNCHANGED <<identity, tables, used, mailbox, past, faults>>

(* initSession finds no database: empty tables and a new pair of keys *)
NewDevice(u) ==
  /\ Stop(u)
  /\ identity' = [identity EXCEPT ![u] = @ + 1]
  /\ status' = [status EXCEPT ![u] = [c \in Chats |-> "none"]]
  /\ secret' = [secret EXCEPT ![u] = [c \in Chats |-> {}]]
  /\ saved' = [saved EXCEPT ![u] = {}]
  /\ read' = [read EXCEPT ![u] = {}]
  /\ UNCHANGED <<used, mailbox, past, faults>>

-----------------------------------------------------------------------------
UserActs(u) ==
  \/ /\ Cardinality(calls) + Cardinality(mailbox) < MaxUnderway
     /\ \/ \E c \in Chats : c.by = u /\ CreateSecretChatRequest(c)
        \/ \E t \in Texts : t.by = u /\ SendSecretMessage(t)
        \/ \E c \in Chats : MarkChatAsRead(u, c) \/ DeleteSecretChat(u, c)
  \/ Restart(u) \/ NewDevice(u)

Callback(q) ==
  CheckAnswered(q) \/ CheckFails(q) \/ UploadEnds(q) \/ UploadStalls(q)
    \/ HandshakeAnswered(q) \/ MessageAnswered(q) \/ InfoAnswered(q)

Serve(q) == Taken(q) \/ TakenUnheard(q) \/ Refused(q)

Receive(p) ==
  ReceiveRequest(p) \/ ReceiveAccept(p) \/ ReceiveMessage(p) \/ ReceiveRead(p)
    \/ ReceiveDelete(p)

Next ==
  \/ \E u \in Users : UserActs(u)
  \/ \E q \in calls : Callback(q) \/ Serve(q)
  \/ \E p \in mailbox : Receive(p) \/ PacketLost(p)

Spec == Init /\ [][Next]_vars

-----------------------------------------------------------------------------
(* Chats that keep their own handshake.  The code lets a user invite one   *)
(* and the same peer twice, and two users each other: of the handshakes    *)
(* that then wait at the relay the later takes the id of the earlier.      *)
Unmerged == Chats \ merged

(* Two clients that both hold a chat active hold the same secret for it,   *)
(* whatever keys they had when the invitation and its answer were sent, if *)
(* the relay has not mixed its handshake with another chat's.              *)
KeysAgree ==
  \A c \in Unmerged :
    status[c.by][c] = "active" /\ status[c.with][c] = "active"
      => secret[c.by][c] = secret[c.with][c]

(***************************************************************************)
(* Why: a handshake has one carrier at a time, first a call of the creator *)
(* and the invitation, then a call of the other user and the acceptance;   *)
(* nobody can be active, or answer, before the carrier has come that far;  *)
(* and as long as a user keeps the row of a chat, every key and secret on  *)
(* its way for that chat is under the keys the user has now.               *)
(***************************************************************************)
OfHandshake(p, c) == p.kind \in {"REQUEST", "ACCEPT"} /\ p.chat = c

Carries(q, c) ==
  OfHandshake(q.packet, c) /\ q.stage \in {"check", "posted", "orphan"}

Accepts(q, c) == q.packet.kind = "ACCEPT" /\ q.packet.chat = c

Routed(p) ==
  p.kind \in Handshakes /\ p.chat \notin merged =>
    /\ p.from \in {p.chat.by, p.chat.with}
    /\ p.to = Peer(p.from, p.chat)
    /\ p.kind = "REQUEST" => p.from = p.chat.by
    /\ p.kind = "ACCEPT" => p.from = p.chat.with

BetweenPairs ==
  /\ \A q \in calls :
       /\ Routed(q.packet)
       /\ q.stage = "upload" => q.packet.kind = "NEW_MESSAGE"
       /\ q.stage = "check" => q.packet.kind \in {"REQUEST", "ACCEPT"}
  /\ \A p \in mailbox : Routed(p)
  /\ \A u \in Users, c \in Unmerged : Exists(u, c) => u \in {c.by, c.with}

OneCarrier(c) ==
  /\ \A q, r \in calls : Carries(q, c) /\ Carries(r, c) => q = r
  /\ \A p, r \in mailbox : OfHandshake(p, c) /\ OfHandshake(r, c) => p = r
  /\ \A q \in calls, p \in mailbox : ~(Carries(q, c) /\ OfHandshake(p, c))
  /\ c \notin used =>
       /\ \A q \in calls : ~OfHandshake(q.packet, c)
       /\ \A p \in mailbox : ~OfHandshake(p, c)

(* The other user has not looked up the creator yet *)
Early(c) ==
  \/ c \notin used
  \/ \E q \in calls : Carries(q, c) /\ (Accepts(q, c) => q.stage = "check")
  \/ \E p \in mailbox : p.kind = "REQUEST" /\ p.chat = c

NobodyActive(c) ==
  Early(c) =>
    /\ status[c.by][c] # "active"
    /\ status[c.with][c] = "none"
    /\ \A q \in calls : Accepts(q, c) => q.stage = "check"

CurrentAtCreator(c) ==
  Exists(c.by, c) =>
    /\ \A q \in calls :
         /\ Carries(q, c) /\ ~Accepts(q, c) /\ q.stage # "check"
              => q.packet.key = {Key(c.by)}
         /\ Accepts(q, c) => q.other = {Key(c.by)}
    /\ \A p \in mailbox :
         p.kind = "REQUEST" /\ p.chat = c => p.key = {Key(c.by)}
    /\ status[c.with][c] = "active"
         => secret[c.with][c] = {Key(c.by), Key(c.with)}

CurrentAtOther(c) ==
  Exists(c.with, c) =>
    /\ \A q \in calls :
         Carries(q, c) /\ Accepts(q, c) /\ q.stage # "check"
           => q.packet.key = {Key(c.with)}
    /\ \A p \in mailbox :
         p.kind = "ACCEPT" /\ p.chat = c => p.key = {Key(c.with)}
    /\ status[c.by][c] = "active"
         => secret[c.by][c] = {Key(c.by), Key(c.with)}

KeysInv ==
  /\ TypeOK
  /\ BetweenPairs
  /\ \A c \in Unmerged :
       /\ OneCarrier(c)
       /\ NobodyActive(c)
       /\ CurrentAtCreator(c)
       /\ CurrentAtOther(c)

(* A message on its way opens at a peer that holds the chat active, also   *)
(* when one of the two has got new keys since; merged handshakes excepted. *)
Readable ==
  \A p \in mailbox :
    p.kind = "NEW_MESSAGE" /\ p.chat \notin merged /\ status[p.to][p.chat] = "active"
      => secret[p.to][p.chat] = p.key

(* A chat that is gone at the user who created it stays gone, for every    *)
(* reply, acceptance or message that comes late.                           *)
DeletedStaysDeleted ==
  [][\A c \in Chats :
       /\ c \in used /\ ~Exists(c.by, c)
       /\ ~\E q \in calls :
            q.stage = "check" /\ q.packet.from = c.by /\ q.packet.chat = c
       => status'[c.by][c] = "none"]_vars

(***************************************************************************)
(* A message that anybody holds is held by its sender too, unless he has   *)
(* dropped the chat: whatever is refused, lost or restarted.  The one      *)
(* exception is a message the relay took in and whose reply got lost.      *)
(***************************************************************************)
NoGhost ==
  \A u \in Users : \A t \in saved[u] :
    t.chat \notin merged /\ t \notin unheard
      => t \in saved[t.by] \/ ~Exists(t.by, t.chat)

Undisturbed == faults = 0 /\ restarts = 0

(* When nothing is under way any more, no invitation is left hanging but   *)
(* those of which the relay made one.                                      *)
NoInvitationHangs ==
  Undisturbed /\ calls = {} /\ mailbox = {} =>
    \A u \in Users, c \in Unmerged : status[u][c] # "pending"

(***************************************************************************)
(* Why these hold.  A secret belongs to an active chat.  No message goes   *)
(* out, so no id of one is used, before the other user has looked up the   *)
(* creator.  A message opens at a peer that is active, and at one that     *)
(* will be: with the key an acceptance under way will give it.             *)
(***************************************************************************)
Underway == {q.packet : q \in calls} \cup mailbox

Sent == {p \in Underway : p.kind = "NEW_MESSAGE"}

Fits(p) ==
  LET c == p.chat IN
  /\ p.from \in {c.by, c.with} /\ p.to = Peer(p.from, c)
  /\ status[p.to][c] = "active" => secret[p.to][c] = p.key
  /\ p.to = c.with /\ Exists(c.with, c) =>
       \A q \in calls : Accepts(q, c) => p.key = {Key(c.with)} \cup q.other
  /\ p.to = c.by /\ Exists(c.by, c) =>
       /\ \A q \in calls : Accepts(q, c) /\ q.stage \in {"posted", "orphan"}
            => p.key = {Key(c.by)} \cup q.packet.key
       /\ \A a \in mailbox : a.kind = "ACCEPT" /\ a.chat = c
            => p.key = {Key(c.by)} \cup a.key

OfOneMessage(p) ==
  \E t \in Texts \cap used : p.texts = {t} /\ p.from = t.by /\ p.chat = t.chat

MessagesInv ==
  /\ \A u \in Users, c \in Chats : secret[u][c] # {} => status[u][c] = "active"
  /\ \A p \in Sent : OfOneMessage(p) /\ (p.chat \notin merged => Fits(p))
  /\ \A u \in Users : saved[u] \subseteq used
  /\ \A t \in Texts \cap used : t.chat \notin merged => ~Early(t.chat)

(***************************************************************************)
(* A message has one call, and until that has ended well nobody but its    *)
(* sender has it: so nobody ever has if he hears of an error and drops it. *)
(***************************************************************************)
Holds(p, t) == p.kind = "NEW_MESSAGE" /\ t \in p.texts

Unsent(t) ==
  /\ \A p \in mailbox : ~Holds(p, t)
  /\ \A u \in Users : t \in saved[u] => u = t.by

Kept(t) ==
  \/ t \in saved[t.by]
  \/ ~Exists(t.by, t.chat)
  \/ Unsent(t) /\ \A q \in calls : ~Holds(q.packet, t)

SendersKeep ==
  \A t \in Texts :
    /\ \A q, r \in calls : Holds(q.packet, t) /\ Holds(r.packet, t) => q = r
    /\ t \notin unheard =>
         /\ \A q \in calls : Holds(q.packet, t) /\ q.stage # "ok" => Unsent(t)
         /\ t \in used /\ t.chat \notin merged => Kept(t)

(* An invitation is looked up once, before its creator has a row and before *)
(* he can delete it.                                                       *)
Deletes(p, c) == p.kind = "DELETE" /\ p.chat = c

CreatedOnce(c) ==
  LET deleted == \E q \in calls : Deletes(q.packet, c) /\ q.packet.from = c.by IN
  /\ Exists(c.by, c) => c \in used /\ ~deleted
  /\ deleted => c \in used
  /\ \A q \in calls : Carries(q, c) /\ q.stage = "check" /\ ~Accepts(q, c)
       => ~Exists(c.by, c) /\ ~deleted

(* What moves a pending row on: at its creator the handshake or a deletion *)
(* that has taken the place of the acceptance, at the other user the reply *)
(* to the acceptance.                                                      *)
WillMove(c) ==
  /\ status[c.by][c] = "pending" =>
       \/ \E q \in calls : Carries(q, c)
       \/ \E p \in mailbox : OfHandshake(p, c)
       \/ \E p \in mailbox : Deletes(p, c) /\ p.to = c.by
  /\ status[c.with][c] = "pending" =>
       \E q \in calls : Accepts(q, c) /\ q.stage \in {"posted", "ok"}

HangInv ==
  /\ \A c \in Unmerged : CreatedOnce(c)
  /\ Undisturbed =>
       /\ \A q \in calls : q.stage \notin {"error", "orphan"}
       /\ \A c \in Unmerged : WillMove(c)

(* SecretChatManager.cpp:671: an active chat is "ready for messaging"; a   *)
(* message sent in one is saved by a peer that holds the chat.             *)
ReadyForMessaging ==
  [][\A p \in mailbox \ mailbox' :
       p.kind = "NEW_MESSAGE" /\ Exists(p.to, p.chat) /\ faults' = faults
         => p.texts \subseteq saved'[p.to]]_vars
=============================================================================
