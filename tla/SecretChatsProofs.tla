------------------------- MODULE SecretChatsProofs --------------------------
(***************************************************************************)
(* Theorems about secret chats, for any number of users, chats, messages,  *)
(* faults and restarts.                                                    *)
(***************************************************************************)
EXTENDS SecretChats, TLAPS

LEMMA ChatTypes ==
  /\ \A c \in Chats : c.by \in Users /\ c.with \in Users /\ c.by # c.with
  /\ \A t \in Texts : t.by \in Users /\ t.chat \in Chats
  /\ \A u, c : c \in Chats => Peer(u, c) \in Users
  BY ChatsAssumption DEF Chat, Text, Peer

LEMMA KeyType == ASSUME TypeOK, NEW u \in Users PROVE Key(u) \in Keys
  BY DEF TypeOK, Key, Keys

LEMMA OutgoingType ==
  ASSUME NEW u \in Users, NEW kind \in Kinds, NEW c \in Chats,
         NEW key \in SUBSET Keys, NEW texts \in SUBSET Texts
  PROVE  Outgoing(u, kind, c, key, texts) \in Packet
  BY ChatTypes DEF Outgoing, Packet

LEMMA StartType ==
  ASSUME TypeOK, NEW stage \in Stages, NEW other \in SUBSET Keys,
         NEW p \in Packet, Start(stage, other, p)
  PROVE  calls' \in SUBSET Call
  BY DEF Start, TypeOK, Call

(* Each operation on the database keeps the types of the tables *)
TablesType ==
  /\ status' \in [Users -> [Chats -> {"none", "pending", "active"}]]
  /\ secret' \in [Users -> [Chats -> SUBSET Keys]]
  /\ saved' \in [Users -> SUBSET Texts]
  /\ read' \in [Users -> SUBSET Texts]

LEMMA TablesTyped ==
  ASSUME TypeOK, NEW u \in Users
  PROVE  /\ \A c \in Chats : CreateChat(u, c) \/ DeleteChat(u, c) => TablesType
         /\ \A c \in Chats, other \in SUBSET Keys :
              InitSecretChat(u, c, other) => TablesType
         /\ \A t \in Texts : SaveMessage(u, t) \/ DeleteMessage(u, t) => TablesType
         /\ \A texts \in SUBSET Texts : SetRead(u, texts) => TablesType
         /\ UNCHANGED tables => TablesType
<1>1. \A c \in Chats : CreateChat(u, c) => TablesType
  BY DEF TypeOK, CreateChat, TablesType
<1>2. \A c \in Chats : DeleteChat(u, c) => TablesType
  BY DEF TypeOK, DeleteChat, TablesType
<1>3. \A c \in Chats, other \in SUBSET Keys : InitSecretChat(u, c, other) => TablesType
  <2> SUFFICES ASSUME NEW c \in Chats, NEW other \in SUBSET Keys,
                      InitSecretChat(u, c, other)
               PROVE  TablesType
    OBVIOUS
  <2> DEFINE new == {Key(u)} \cup other
  <2>1. new \in SUBSET Keys
    BY KeyType
  <2> HIDE DEF new
  <2>2. (status' = [status EXCEPT ![u][c] = "active"]
           /\ secret' = [secret EXCEPT ![u][c] = new]) \/ UNCHANGED <<status, secret>>
    BY DEF InitSecretChat, new
  <2>3. UNCHANGED <<saved, read>>
    BY DEF InitSecretChat
  <2>4. status' \in [Users -> [Chats -> {"none", "pending", "active"}]]
    <3>1. status' = [status EXCEPT ![u][c] = "active"] \/ status' = status
      BY <2>2
    <3>2. status \in [Users -> [Chats -> {"none", "pending", "active"}]]
      BY DEF TypeOK
    <3> QED
      BY <3>1, <3>2
  <2>5. secret' \in [Users -> [Chats -> SUBSET Keys]]
    <3>1. secret[u] \in [Chats -> SUBSET Keys]
      BY DEF TypeOK
    <3>2. [secret[u] EXCEPT ![c] = new] \in [Chats -> SUBSET Keys]
      BY <2>1, <3>1
    <3>3. [secret EXCEPT ![u][c] = new] = [secret EXCEPT ![u] = [secret[u] EXCEPT ![c] = new]]
      BY DEF TypeOK
    <3> QED
      BY <2>2, <3>2, <3>3 DEF TypeOK
  <2> QED
    BY <2>3, <2>4, <2>5 DEF TypeOK, TablesType
<1>4. \A t \in Texts : SaveMessage(u, t) \/ DeleteMessage(u, t) => TablesType
  <2> SUFFICES ASSUME NEW t \in Texts, SaveMessage(u, t) \/ DeleteMessage(u, t)
               PROVE  TablesType
    OBVIOUS
  <2>1. CASE SaveMessage(u, t)
    <3>1. (IF Exists(u, t.chat) THEN saved[u] \cup {t} ELSE saved[u]) \in SUBSET Texts
      BY DEF TypeOK
    <3> QED
      BY <2>1, <3>1 DEF TypeOK, SaveMessage, TablesType
  <2>2. CASE DeleteMessage(u, t)
    BY <2>2 DEF TypeOK, DeleteMessage, TablesType
  <2> QED
    BY <2>1, <2>2
<1>5. \A texts \in SUBSET Texts : SetRead(u, texts) => TablesType
  BY DEF TypeOK, SetRead, TablesType
<1>6. UNCHANGED tables => TablesType
  BY DEF TypeOK, tables, TablesType
<1> QED
  BY <1>1, <1>2, <1>3, <1>4, <1>5, <1>6

LEMMA TakeInType ==
  ASSUME TypeOK, NEW p \in Packet, TakeIn(p)
  PROVE  mailbox' \in SUBSET Packet /\ merged' \in SUBSET Chats
<1>1. ASSUME NEW old \in mailbox
      PROVE  /\ [p EXCEPT !.chat = old.chat] \in Packet
             /\ old.chat \in Chats /\ p.chat \in Chats
  BY DEF TypeOK, Packet
<1>2. mailbox' \in SUBSET Packet
  BY <1>1 DEF TypeOK, TakeIn
<1>3. merged' \in SUBSET Chats
  BY <1>1 DEF TypeOK, TakeIn
<1> QED
  BY <1>2, <1>3

LEMMA RepliedType ==
  ASSUME TypeOK, NEW q \in calls, NEW answers \in SUBSET Stages, Replied(q, answers)
  PROVE  calls' \in SUBSET Call
  BY DEF TypeOK, Replied, Call

LEMMA TypeStep == TypeOK /\ [Next]_vars => TypeOK'
<1> SUFFICES ASSUME TypeOK, [Next]_vars PROVE TypeOK'
  OBVIOUS
<1> USE ChatsAssumption
<1>1. ASSUME NEW c \in Chats, CreateSecretChatRequest(c) PROVE TypeOK'
  <2>1. Outgoing(c.by, "REQUEST", c, {}, {}) \in Packet
    BY OutgoingType, ChatTypes DEF Kinds
  <2>2. calls' \in SUBSET Call
    BY <1>1, <2>1, StartType DEF CreateSecretChatRequest, Stages
  <2> QED
    BY <1>1, <2>2, TablesTyped, ChatTypes
    DEF CreateSecretChatRequest, TypeOK, TablesType, past, counters, tables
<1>2. ASSUME NEW t \in Texts, SendSecretMessage(t) PROVE TypeOK'
  <2>0. t.by \in Users /\ t.chat \in Chats /\ secret[t.by][t.chat] \in SUBSET Keys
    BY ChatTypes DEF TypeOK
  <2>1. Outgoing(t.by, "NEW_MESSAGE", t.chat, secret[t.by][t.chat], {t}) \in Packet
    BY <2>0, OutgoingType DEF Kinds
  <2>2. calls' \in SUBSET Call
    BY <1>2, <2>1, StartType DEF SendSecretMessage, Stages
  <2>3. TablesType
    BY <1>2, TablesTyped, ChatTypes DEF SendSecretMessage
  <2> QED
    BY <1>2, <2>2, <2>3 DEF SendSecretMessage, TypeOK, TablesType, past, counters
<1>3. ASSUME NEW u \in Users, NEW c \in Chats, MarkChatAsRead(u, c) PROVE TypeOK'
  <2> DEFINE unread == {t \in saved[u] \ read[u] : t.chat = c /\ t.by # u}
  <2>1. unread \in SUBSET Texts
    BY DEF TypeOK
  <2>2. Outgoing(u, "READ", c, secret[u][c], unread) \in Packet
    BY <2>1, OutgoingType DEF Kinds, TypeOK
  <2>3. calls' \in SUBSET Call
    BY <1>3, <2>2, StartType DEF MarkChatAsRead, Stages
  <2>4. TablesType
    BY <1>3, <2>1, TablesTyped DEF MarkChatAsRead
  <2> QED
    BY <1>3, <2>3, <2>4 DEF MarkChatAsRead, TypeOK, TablesType, past, counters
<1>4. ASSUME NEW u \in Users, NEW c \in Chats, DeleteSecretChat(u, c) PROVE TypeOK'
  <2>1. Outgoing(u, "DELETE", c, {}, {}) \in Packet
    BY OutgoingType DEF Kinds
  <2>2. calls' \in SUBSET Call
    BY <1>4, <2>1, StartType DEF DeleteSecretChat, Stages
  <2> QED
    BY <1>4, <2>2, TablesTyped DEF DeleteSecretChat, TypeOK, TablesType, past, counters
<1>5. ASSUME NEW u \in Users, Restart(u) \/ NewDevice(u) PROVE TypeOK'
  <2>1. calls' \in SUBSET Call
    <3>1. ASSUME NEW q \in calls PROVE [q EXCEPT !.stage = "orphan"] \in Call
      BY DEF TypeOK, Call, Stages
    <3> QED
      BY <1>5, <3>1 DEF Restart, NewDevice, Stop, Forget, TypeOK
  <2>2. restarts' \in 0 .. MaxRestarts
    BY <1>5 DEF Restart, NewDevice, Stop, TypeOK
  <2>3. CASE Restart(u)
    BY <2>1, <2>2, <2>3 DEF Restart, TypeOK, tables, past
  <2>4. CASE NewDevice(u)
    <3>1. identity' \in [Users -> Nat]
      BY <2>4 DEF NewDevice, TypeOK
    <3>2. TablesType
      BY <2>4 DEF NewDevice, TypeOK, TablesType
    <3> QED
      BY <2>1, <2>2, <2>4, <3>1, <3>2 DEF NewDevice, TypeOK, TablesType, past
  <2> QED
    BY <1>5, <2>3, <2>4
<1>6. ASSUME NEW q \in calls, Callback(q) PROVE TypeOK'
  <2>1. q \in Call /\ q.packet \in Packet /\ q.packet.from \in Users
        /\ q.packet.chat \in Chats
    BY DEF TypeOK, Call, Packet
  <2>2. calls' \in SUBSET Call
    <3>1. [q EXCEPT !.stage = "posted"] \in Call
      BY <2>1 DEF Call, Stages
    <3>2. [q EXCEPT !.stage = "posted", !.packet.key = {Key(q.packet.from)}] \in Call
      <4>1. {Key(q.packet.from)} \in SUBSET Keys
        BY <2>1, KeyType
      <4> QED
        BY <2>1, <4>1 DEF Call, Packet, Stages
    <3> QED
      BY <1>6, <3>1, <3>2
      DEF Callback, CheckAnswered, CheckFails, UploadEnds, UploadStalls,
          HandshakeAnswered, MessageAnswered, InfoAnswered, Finish, Advance, TypeOK
  <2>3. TablesType
    BY <1>6, <2>1, TablesTyped
    DEF Callback, CheckAnswered, CheckFails, UploadEnds, UploadStalls,
        HandshakeAnswered, MessageAnswered, InfoAnswered, Call, Packet
  <2> QED
    BY <1>6, <2>2, <2>3
    DEF Callback, CheckAnswered, CheckFails, UploadEnds, UploadStalls,
        HandshakeAnswered, MessageAnswered, InfoAnswered, Fault, TypeOK,
        TablesType, past, counters
<1>7. ASSUME NEW q \in calls, Serve(q) PROVE TypeOK'
  <2>1. q \in Call /\ q.packet \in Packet
    BY DEF TypeOK, Call
  <2>2. calls' \in SUBSET Call
    BY <1>7, RepliedType DEF Serve, Taken, TakenUnheard, Refused, Stages
  <2>3. mailbox' \in SUBSET Packet /\ merged' \in SUBSET Chats
    BY <1>7, <2>1, TakeInType DEF Serve, Taken, TakenUnheard, Refused, TypeOK, past
  <2>4. unheard' \in SUBSET Texts
    BY <1>7, <2>1 DEF Serve, Taken, TakenUnheard, Refused, TypeOK, past, Packet
  <2> QED
    BY <1>7, <2>2, <2>3, <2>4, TablesTyped
    DEF Serve, Taken, TakenUnheard, Refused, Fault, TypeOK, TablesType, past, counters, tables
<1>8. ASSUME NEW p \in mailbox, Receive(p) \/ PacketLost(p) PROVE TypeOK'
  <2>1. p \in Packet /\ p.to \in Users /\ p.chat \in Chats /\ p.key \in SUBSET Keys
        /\ p.texts \in SUBSET Texts
    BY DEF TypeOK, Packet
  <2>2. calls' \in SUBSET Call
    <3>1. Outgoing(p.to, "ACCEPT", p.chat, {}, {}) \in Packet
      BY <2>1, OutgoingType DEF Kinds
    <3>2. ReceiveRequest(p) => calls' \in SUBSET Call
      BY <2>1, <3>1, StartType DEF ReceiveRequest, Stages
    <3> QED
      BY <1>8, <3>2
      DEF Receive, ReceiveAccept, ReceiveMessage, ReceiveRead, ReceiveDelete,
          PacketLost, TypeOK
  <2>3. TablesType
    <3>1. {t \in saved[p.to] : t.chat = p.chat /\ t.by # p.from} \in SUBSET Texts
      BY <2>1 DEF TypeOK
    <3> QED
      BY <1>8, <2>1, <3>1, TablesTyped
      DEF Receive, ReceiveRequest, ReceiveAccept, ReceiveMessage, ReceiveRead,
          ReceiveDelete, PacketLost
  <2> QED
    BY <1>8, <2>2, <2>3
    DEF Receive, ReceiveRequest, ReceiveAccept, ReceiveMessage, ReceiveRead,
        ReceiveDelete, PacketLost, Deliver, Fault, TypeOK, TablesType, past, counters
<1>9. ASSUME UNCHANGED vars PROVE TypeOK'
  BY <1>9 DEF vars, tables, past, counters, TypeOK
<1> QED
  BY <1>1, <1>2, <1>3, <1>4, <1>5, <1>6, <1>7, <1>8, <1>9, ChatTypes DEF Next, UserActs

LEMMA TypeInit == Init => TypeOK
  BY ChatsAssumption DEF Init, TypeOK

(* The tables, calls and packets of the clients keep their types.          *)
THEOREM TypeCorrect == Spec => []TypeOK
  BY TypeInit, TypeStep, PTL DEF Spec

(* What the relay has mixed or left unanswered stays known, and only the   *)
(* relay adds to it.                                                       *)
LEMMA PastGrows ==
  ASSUME [Next]_vars
  PROVE  /\ merged \subseteq merged' /\ unheard \subseteq unheard'
         /\ UNCHANGED past \/ \E q \in calls : Serve(q)
<1>1. ASSUME NEW u \in Users, UserActs(u) PROVE UNCHANGED past
  BY <1>1 DEF UserActs, CreateSecretChatRequest, SendSecretMessage, MarkChatAsRead,
     DeleteSecretChat, Restart, NewDevice
<1>2. ASSUME NEW q \in calls, Callback(q) PROVE UNCHANGED past
  BY <1>2 DEF Callback, CheckAnswered, CheckFails, UploadEnds, UploadStalls,
     HandshakeAnswered, MessageAnswered, InfoAnswered
<1>3. ASSUME NEW q \in calls, Serve(q)
      PROVE  merged \subseteq merged' /\ unheard \subseteq unheard'
  BY <1>3 DEF Serve, Taken, TakenUnheard, Refused, TakeIn, past
<1>4. ASSUME NEW p \in mailbox, Receive(p) \/ PacketLost(p) PROVE UNCHANGED past
  BY <1>4 DEF Receive, ReceiveRequest, ReceiveAccept, ReceiveMessage, ReceiveRead,
     ReceiveDelete, PacketLost, Deliver
<1>5. UNCHANGED past \/ \E q \in calls : Serve(q)
  BY <1>1, <1>2, <1>4 DEF Next, vars
<1>6. UNCHANGED past => merged \subseteq merged' /\ unheard \subseteq unheard'
  BY DEF past
<1> QED
  BY <1>3, <1>5, <1>6

-----------------------------------------------------------------------------
(***************************************************************************)
(* Steps that leave the handshake of chat d where it is, or take it one    *)
(* place further: from a call to the relay.                                *)
(***************************************************************************)
Origin(q, r) ==
  /\ q.packet = r.packet
  /\ q.other = r.other
  /\ \/ q = r
     \/ r.stage \in {"posted", "orphan"} /\ q.stage \in {"ok", "error", "orphan"}

CallsFollow(d) ==
  /\ \A q \in calls' : OfHandshake(q.packet, d) => \E r \in calls : Origin(q, r)
  /\ \A q, r \in calls' : Carries(q, d) /\ Carries(r, d) => q = r

MailFollows(d) ==
  \A p \in mailbox' : OfHandshake(p, d) =>
    \/ p \in mailbox
    \/ /\ \A x \in calls' : ~Carries(x, d)
       /\ \E q \in calls : Carries(q, d) /\ q.stage # "check" /\ p = q.packet

RowKept(u, d) ==
  \/ status'[u][d] = "none"
  \/ /\ status'[u][d] = status[u][d]
     /\ secret'[u][d] = secret[u][d]
     /\ identity'[u] = identity[u]

Follows(d) ==
  /\ CallsFollow(d)
  /\ MailFollows(d)
  /\ RowKept(d.by, d) /\ RowKept(d.with, d)
  /\ d \in used <=> d \in used'

HandshakeInv(c) ==
  OneCarrier(c) /\ NobodyActive(c) /\ CurrentAtCreator(c) /\ CurrentAtOther(c)

LEMMA Carrying ==
  ASSUME NEW d \in Chats, OneCarrier(d), CallsFollow(d), MailFollows(d),
         d \in used <=> d \in used'
  PROVE  OneCarrier(d)' /\ (Early(d)' => Early(d))
<1>1. ASSUME NEW q \in calls', OfHandshake(q.packet, d)
      PROVE  \E r \in calls : Origin(q, r) /\ OfHandshake(r.packet, d)
                                /\ (Carries(q, d) => Carries(r, d))
                                /\ (Accepts(q, d) <=> Accepts(r, d))
  BY <1>1 DEF CallsFollow, Origin, OfHandshake, Carries, Accepts
<1>2. OneCarrier(d)'
  <2>1. \A p, r \in mailbox' : OfHandshake(p, d) /\ OfHandshake(r, d) => p = r
    BY DEF MailFollows, OneCarrier
  <2>2. \A q \in calls', p \in mailbox' : ~(Carries(q, d) /\ OfHandshake(p, d))
    BY <1>1 DEF MailFollows, OneCarrier, Carries
  <2>3. d \notin used' =>
          /\ \A q \in calls' : ~OfHandshake(q.packet, d)
          /\ \A p \in mailbox' : ~OfHandshake(p, d)
    BY <1>1 DEF MailFollows, OneCarrier, Carries
  <2> QED
    BY <2>1, <2>2, <2>3 DEF CallsFollow, OneCarrier
<1>3. Early(d)' => Early(d)
  <2>1. ASSUME NEW q \in calls', Carries(q, d), Accepts(q, d) => q.stage = "check"
        PROVE  Early(d)
    BY <1>1, <2>1 DEF Early, Origin, Carries
  <2>2. ASSUME NEW p \in mailbox', p.kind = "REQUEST", p.chat = d
        PROVE  Early(d)
    BY <2>2 DEF Early, MailFollows, OfHandshake, Accepts
  <2> QED
    BY <2>1, <2>2 DEF Early
<1> QED
  BY <1>2, <1>3

LEMMA Following ==
  ASSUME NEW d \in Chats, HandshakeInv(d), Follows(d)
  PROVE  HandshakeInv(d)'
<1> USE DEF HandshakeInv
<1>1. ASSUME NEW q \in calls', OfHandshake(q.packet, d)
      PROVE  \E r \in calls : Origin(q, r) /\ OfHandshake(r.packet, d)
                                /\ (Carries(q, d) => Carries(r, d))
                                /\ (Accepts(q, d) <=> Accepts(r, d))
  BY <1>1 DEF Follows, CallsFollow, Origin, OfHandshake, Carries, Accepts
<1>2. OneCarrier(d)' /\ (Early(d)' => Early(d))
  BY Carrying DEF Follows
<1>3. NobodyActive(d)'
  <2> SUFFICES ASSUME Early(d)' PROVE
        /\ status'[d.by][d] # "active"
        /\ status'[d.with][d] = "none"
        /\ \A q \in calls' : Accepts(q, d) => q.stage = "check"
    BY DEF NobodyActive
  <2>1. ASSUME NEW q \in calls', Accepts(q, d) PROVE q.stage = "check"
    <3>1. OfHandshake(q.packet, d)
      BY <2>1 DEF Accepts, OfHandshake
    <3> QED
      BY <1>1, <1>2, <2>1, <3>1 DEF NobodyActive, Origin
  <2> QED
    BY <1>2, <2>1 DEF NobodyActive, Follows, RowKept
<1>4. CurrentAtCreator(d)'
  <2> SUFFICES ASSUME status'[d.by][d] # "none" PROVE
         /\ \A q \in calls' :
              /\ Carries(q, d) /\ ~Accepts(q, d) /\ q.stage # "check"
                   => q.packet.key = {[user |-> d.by, pair |-> identity'[d.by]]}
              /\ Accepts(q, d)
                   => q.other = {[user |-> d.by, pair |-> identity'[d.by]]}
         /\ \A p \in mailbox' : p.kind = "REQUEST" /\ p.chat = d
              => p.key = {[user |-> d.by, pair |-> identity'[d.by]]}
         /\ status'[d.with][d] = "active" =>
              secret'[d.with][d] = {[user |-> d.by, pair |-> identity'[d.by]],
                                    [user |-> d.with, pair |-> identity'[d.with]]}
    BY DEF CurrentAtCreator, Exists, Key
  <2>1. status[d.by][d] # "none" /\ identity'[d.by] = identity[d.by]
    BY DEF Follows, RowKept
  <2>2. ASSUME NEW q \in calls'
        PROVE  /\ Carries(q, d) /\ ~Accepts(q, d) /\ q.stage # "check"
                    => q.packet.key = {[user |-> d.by, pair |-> identity'[d.by]]}
               /\ Accepts(q, d)
                    => q.other = {[user |-> d.by, pair |-> identity'[d.by]]}
    <3>1. CASE ~OfHandshake(q.packet, d)
      BY <3>1 DEF Carries, Accepts, OfHandshake
    <3>2. CASE OfHandshake(q.packet, d)
      <4>1. PICK r \in calls : /\ Origin(q, r)
                               /\ Carries(q, d) => Carries(r, d)
                               /\ Accepts(q, d) <=> Accepts(r, d)
        BY <1>1, <3>2
      <4> QED
        BY <2>1, <4>1 DEF CurrentAtCreator, Exists, Key, Origin
    <3> QED
      BY <3>1, <3>2
  <2>3. ASSUME NEW p \in mailbox', p.kind = "REQUEST", p.chat = d
        PROVE  p.key = {[user |-> d.by, pair |-> identity'[d.by]]}
    BY <2>1, <2>3
    DEF Follows, MailFollows, CurrentAtCreator, Exists, Key, OfHandshake, Accepts
  <2>4. status'[d.with][d] = "active" =>
          secret'[d.with][d] = {[user |-> d.by, pair |-> identity'[d.by]],
                                [user |-> d.with, pair |-> identity'[d.with]]}
    BY <2>1 DEF Follows, RowKept, CurrentAtCreator, Exists, Key
  <2> QED
    BY <2>2, <2>3, <2>4
<1>5. CurrentAtOther(d)'
  <2> SUFFICES ASSUME status'[d.with][d] # "none" PROVE
         /\ \A q \in calls' : Carries(q, d) /\ Accepts(q, d) /\ q.stage # "check"
              => q.packet.key = {[user |-> d.with, pair |-> identity'[d.with]]}
         /\ \A p \in mailbox' : p.kind = "ACCEPT" /\ p.chat = d
              => p.key = {[user |-> d.with, pair |-> identity'[d.with]]}
         /\ status'[d.by][d] = "active" =>
              secret'[d.by][d] = {[user |-> d.by, pair |-> identity'[d.by]],
                                  [user |-> d.with, pair |-> identity'[d.with]]}
    BY DEF CurrentAtOther, Exists, Key
  <2>1. status[d.with][d] # "none" /\ identity'[d.with] = identity[d.with]
    BY DEF Follows, RowKept
  <2>2. ASSUME NEW q \in calls', Carries(q, d), Accepts(q, d), q.stage # "check"
        PROVE  q.packet.key = {[user |-> d.with, pair |-> identity'[d.with]]}
    <3>1. PICK r \in calls : /\ Origin(q, r)
                             /\ Carries(q, d) => Carries(r, d)
                             /\ Accepts(q, d) <=> Accepts(r, d)
      BY <1>1, <2>2 DEF Carries
    <3> QED
      BY <2>1, <2>2, <3>1 DEF CurrentAtOther, Exists, Key, Origin
  <2>3. ASSUME NEW p \in mailbox', p.kind = "ACCEPT", p.chat = d
        PROVE  p.key = {[user |-> d.with, pair |-> identity'[d.with]]}
    BY <2>1, <2>3
    DEF Follows, MailFollows, CurrentAtOther, Exists, Key, OfHandshake, Accepts
  <2>4. status'[d.by][d] = "active" =>
          secret'[d.by][d] = {[user |-> d.by, pair |-> identity'[d.by]],
                              [user |-> d.with, pair |-> identity'[d.with]]}
    BY <2>1 DEF Follows, RowKept, CurrentAtOther, Exists, Key
  <2> QED
    BY <2>2, <2>3, <2>4
<1> QED
  BY <1>2, <1>3, <1>4, <1>5

-----------------------------------------------------------------------------
(* Where packets come from and go to *)

LEMMA RoutedKinds ==
  \A u, c, kind, key, texts :
    (kind \in Handshakes /\ c \notin merged =>
       /\ u \in {c.by, c.with}
       /\ kind = "REQUEST" => u = c.by
       /\ kind = "ACCEPT" => u = c.with)
    => Routed(Outgoing(u, kind, c, key, texts))
  BY DEF Routed, Outgoing

(* The upsert of the relay keeps the handshake of a chat it has not mixed  *)
(* with another: a packet takes the place of one of its own chat, from and *)
(* to the same users.                                                      *)
LEMMA TakenInChat ==
  ASSUME NEW p \in Packet, TakeIn(p), NEW d, d \notin merged'
  PROVE  /\ p.chat = d => p \in mailbox'
         /\ \A x \in mailbox' : x.chat = d => x \in mailbox \/ x = p
         /\ \A old \in mailbox : old \notin mailbox' /\ old.chat = d =>
              /\ p.kind \in Handshakes /\ old.kind \in Handshakes
              /\ old.from = p.from /\ old.to = p.to /\ p.chat = d
<1>1. CASE mailbox' = mailbox \cup {p}
  BY <1>1
<1>2. ASSUME NEW old \in mailbox, p.kind \in Handshakes, old.kind \in Handshakes,
             old.from = p.from, old.to = p.to,
             mailbox' = (mailbox \ {old}) \cup {[p EXCEPT !.chat = old.chat]},
             merged' = IF old.chat = p.chat THEN merged ELSE merged \cup {old.chat, p.chat}
      PROVE  /\ p.chat = d => p \in mailbox'
             /\ \A x \in mailbox' : x.chat = d => x \in mailbox \/ x = p
             /\ \A y \in mailbox : y \notin mailbox' /\ y.chat = d =>
                  /\ y = old /\ p.chat = d
  <2> DEFINE new == [p EXCEPT !.chat = old.chat]
  <2>1. new.chat = old.chat
    BY DEF Packet
  <2>2. CASE old.chat = p.chat
    <3>1. new = p
      BY <2>2 DEF Packet
    <3> QED
      BY <1>2, <2>2, <3>1
  <2>3. CASE old.chat # p.chat
    <3>1. old.chat # d /\ p.chat # d
      BY <1>2, <2>3
    <3> HIDE DEF new
    <3>2. mailbox' = (mailbox \ {old}) \cup {new}
      BY <1>2 DEF new
    <3> QED
      BY <2>1, <3>1, <3>2
  <2> QED
    BY <2>2, <2>3
<1> QED
  BY <1>1, <1>2 DEF TakeIn

LEMMA PairsStep ==
  ASSUME TypeOK, BetweenPairs, Next
  PROVE  BetweenPairs'
<1> DEFINE Later(p) == p.kind \in Handshakes /\ p.chat \notin merged' =>
                         /\ p.from \in {p.chat.by, p.chat.with}
                         /\ p.to = Peer(p.from, p.chat)
                         /\ p.kind = "REQUEST" => p.from = p.chat.by
                         /\ p.kind = "ACCEPT" => p.from = p.chat.with
           Good(q) == /\ Later(q.packet)
                      /\ q.stage = "upload" => q.packet.kind = "NEW_MESSAGE"
                      /\ q.stage = "check" => q.packet.kind \in {"REQUEST", "ACCEPT"}
           Calls == \A q \in calls' : Good(q)
           Mail == \A p \in mailbox' : Later(p)
           Rows == \A u \in Users, c \in Chats \ merged' :
                     status'[u][c] # "none" => u \in {c.by, c.with}
           NoNewRow == \A u \in Users, c \in Chats :
                         status'[u][c] # "none" => status[u][c] # "none"
<1>a. Calls /\ Mail /\ Rows => BetweenPairs'
  BY DEF BetweenPairs, Exists, Routed, Unmerged
<1>m. merged \subseteq merged'
  BY PastGrows
<1>r. \A p : Routed(p) => Later(p)
  BY <1>m DEF Routed
<1> HIDE DEF Later
<1>b. \A q \in calls : Good(q)
  BY <1>r DEF BetweenPairs
<1>c. \A p \in mailbox : Later(p)
  BY <1>r DEF BetweenPairs
<1>d. NoNewRow => Rows
  BY <1>m DEF BetweenPairs, Exists, Unmerged
<1>e. status' = status => NoNewRow
  OBVIOUS
<1>f. ASSUME NEW u \in Users, NEW c \in Chats, DeleteChat(u, c) PROVE NoNewRow
  BY <1>f DEF DeleteChat, TypeOK
<1>g. ASSUME NEW u \in Users, NEW c \in Chats, NEW other, InitSecretChat(u, c, other)
      PROVE  NoNewRow
  <2>1. CASE Exists(u, c)
    <3>1. status \in [Users -> [Chats -> {"none", "pending", "active"}]]
      BY DEF TypeOK
    <3>2. status' = [status EXCEPT ![u][c] = "active"] /\ status[u][c] # "none"
      BY <1>g, <2>1 DEF InitSecretChat, Exists
    <3> QED
      BY <3>1, <3>2
  <2>2. CASE ~Exists(u, c)
    BY <1>g, <2>2 DEF InitSecretChat
  <2> QED
    BY <2>1, <2>2
<1>h. ASSUME NEW stage, NEW other, NEW p, Start(stage, other, p),
             Good([stage |-> stage, other |-> other, packet |-> p])
      PROVE  Calls
  BY <1>b, <1>h DEF Start
<1> HIDE DEF Good
<1>1. ASSUME NEW c \in Chats, CreateSecretChatRequest(c) PROVE Calls /\ Mail /\ Rows
  <2>1. Good([stage |-> "check", other |-> {},
              packet |-> Outgoing(c.by, "REQUEST", c, {}, {})])
    BY <1>r, RoutedKinds DEF Good, Outgoing
  <2> QED
    BY <1>1, <2>1, <1>c, <1>d, <1>e, <1>h DEF CreateSecretChatRequest, tables
<1>2. ASSUME NEW t \in Texts, SendSecretMessage(t) PROVE Calls /\ Mail /\ Rows
  <2>1. \A stage \in {"upload", "posted"} :
          Good([stage |-> stage, other |-> {},
                packet |-> Outgoing(t.by, "NEW_MESSAGE", t.chat,
                                    secret[t.by][t.chat], {t})])
    BY <1>r, RoutedKinds DEF Good, Outgoing, Handshakes
  <2> QED
    BY <1>2, <2>1, <1>c, <1>d, <1>e, <1>h DEF SendSecretMessage, SaveMessage
<1>3. ASSUME NEW u \in Users, NEW c \in Chats, MarkChatAsRead(u, c)
      PROVE  Calls /\ Mail /\ Rows
  <2>1. \A texts : Good([stage |-> "posted", other |-> {},
                         packet |-> Outgoing(u, "READ", c, secret[u][c], texts)])
    BY <1>r, RoutedKinds DEF Good, Outgoing, Handshakes
  <2> QED
    BY <1>3, <2>1, <1>c, <1>d, <1>e, <1>h DEF MarkChatAsRead, SetRead
<1>4. ASSUME NEW u \in Users, NEW c \in Chats, DeleteSecretChat(u, c)
      PROVE  Calls /\ Mail /\ Rows
  <2>1. Good([stage |-> "posted", other |-> {},
              packet |-> Outgoing(u, "DELETE", c, {}, {})])
    BY <1>4, <1>r, RoutedKinds
    DEF Good, Outgoing, Handshakes, DeleteSecretChat, BetweenPairs, Unmerged
  <2> QED
    BY <1>4, <2>1, <1>c, <1>d, <1>f, <1>h DEF DeleteSecretChat
<1>5. ASSUME NEW u \in Users, Restart(u) \/ NewDevice(u) PROVE Calls /\ Mail /\ Rows
  <2>1. Calls
    <3>1. \A q \in calls : Good([q EXCEPT !.stage = "orphan"])
      BY <1>b DEF Good, TypeOK, Call
    <3> QED
      BY <1>5, <1>b, <3>1 DEF Restart, NewDevice, Stop, Forget
  <2>2. Rows
    <3>1. CASE Restart(u)
      BY <1>d, <1>e, <3>1 DEF Restart, tables
    <3>2. CASE NewDevice(u)
      <4>1. status \in [Users -> [Chats -> {"none", "pending", "active"}]]
        BY DEF TypeOK
      <4>2. status' = [status EXCEPT ![u] = [c \in Chats |-> "none"]]
        BY <3>2 DEF NewDevice
      <4> QED
        BY <1>d, <4>1, <4>2
    <3> QED
      BY <1>5, <3>1, <3>2
  <2> QED
    BY <1>5, <1>c, <2>1, <2>2 DEF Restart, NewDevice
<1>6. ASSUME NEW q \in calls, Callback(q) PROVE Calls /\ Mail /\ Rows
  <2>1. /\ q \in Call /\ q.packet \in Packet
        /\ q.packet.from \in Users /\ q.packet.chat \in Chats
    BY DEF TypeOK, Call, Packet
  <2>2. CASE CheckAnswered(q)
    <3>1. Good([q EXCEPT !.stage = "posted", !.packet.key = {Key(q.packet.from)}])
      BY <1>b, <2>1 DEF Good, Call, Packet, Later, Peer
    <3>2. q.packet.chat \notin merged' => q.packet.from \in {q.packet.chat.by, q.packet.chat.with}
      BY <1>b, <2>2 DEF Good, CheckAnswered, Later, Handshakes
    <3>3. Rows
      BY <1>m, <2>1, <2>2, <3>2
      DEF CheckAnswered, CreateChat, TypeOK, BetweenPairs, Exists, Unmerged
    <3> QED
      BY <1>b, <1>c, <2>2, <3>1, <3>3 DEF CheckAnswered, Advance
  <2>3. CASE CheckFails(q) \/ UploadStalls(q)
    BY <1>b, <1>c, <1>d, <1>e, <2>3 DEF CheckFails, UploadStalls, Finish, tables
  <2>4. CASE UploadEnds(q)
    <3>1. Good([q EXCEPT !.stage = "posted"])
      BY <1>b, <2>1 DEF Good, Call
    <3> QED
      BY <1>b, <1>c, <1>d, <1>e, <2>4, <3>1 DEF UploadEnds, Finish, Advance, tables
  <2>5. CASE HandshakeAnswered(q)
    <3>1. NoNewRow
      BY <1>e, <1>f, <1>g, <2>1, <2>5 DEF HandshakeAnswered, tables
    <3> QED
      BY <1>b, <1>c, <1>d, <2>5, <3>1 DEF HandshakeAnswered, Finish
  <2>6. CASE MessageAnswered(q)
    BY <1>b, <1>c, <1>d, <1>e, <2>6 DEF MessageAnswered, Finish, DeleteMessage, tables
  <2>7. CASE InfoAnswered(q)
    BY <1>b, <1>c, <1>d, <1>e, <2>7 DEF InfoAnswered, Finish, tables
  <2> QED
    BY <1>6, <2>2, <2>3, <2>4, <2>5, <2>6, <2>7 DEF Callback
<1>7. ASSUME NEW q \in calls, Serve(q) PROVE Calls /\ Mail /\ Rows
  <2>1. q \in Call /\ q.packet \in Packet /\ Later(q.packet)
    BY <1>b DEF TypeOK, Call, Good
  <2>2. \A answer \in {"ok", "error"} : Good([q EXCEPT !.stage = answer])
    BY <1>b, <2>1 DEF Good, Call
  <2>3. Calls
    BY <1>7, <1>b, <2>2 DEF Serve, Taken, TakenUnheard, Refused, Replied
  <2>4. Mail
    <3>1. CASE UNCHANGED mailbox
      BY <1>c, <3>1
    <3>2. CASE TakeIn(q.packet)
      <4> SUFFICES ASSUME NEW x \in mailbox', x.chat \notin merged'
                   PROVE  Later(x)
        BY DEF Later
      <4>1. x \in mailbox \/ x = q.packet
        BY <2>1, <3>2, TakenInChat
      <4> QED
        BY <1>c, <2>1, <4>1
    <3> QED
      BY <1>7, <3>1, <3>2 DEF Serve, Taken, TakenUnheard, Refused
  <2> QED
    BY <1>7, <1>d, <1>e, <2>3, <2>4 DEF Serve, Taken, TakenUnheard, Refused, tables
<1>8. ASSUME NEW p \in mailbox, Receive(p) \/ PacketLost(p) PROVE Calls /\ Mail /\ Rows
  <2>1. p \in Packet /\ p.to \in Users /\ p.chat \in Chats /\ Routed(p)
    BY DEF TypeOK, Packet, BetweenPairs
  <2>2. Mail
    BY <1>8, <1>c
    DEF Receive, ReceiveRequest, ReceiveAccept, ReceiveMessage, ReceiveRead,
        ReceiveDelete, PacketLost, Deliver
  <2>3. CASE ReceiveRequest(p)
    <3>1. p.chat \notin merged => p.to = p.chat.with
      BY <2>1, <2>3 DEF ReceiveRequest, Routed, Peer, Handshakes
    <3>2. Good([stage |-> "check", other |-> p.key,
                packet |-> Outgoing(p.to, "ACCEPT", p.chat, {}, {})])
      BY <1>r, <3>1, RoutedKinds DEF Good, Outgoing
    <3> QED
      BY <1>d, <1>e, <1>h, <2>2, <2>3, <3>2 DEF ReceiveRequest, tables
  <2>4. CASE ReceiveAccept(p) \/ ReceiveDelete(p)
    BY <1>b, <1>d, <1>f, <1>g, <2>1, <2>2, <2>4 DEF ReceiveAccept, ReceiveDelete
  <2>5. CASE ReceiveMessage(p) \/ ReceiveRead(p) \/ PacketLost(p)
    BY <1>b, <1>d, <1>e, <2>2, <2>5
    DEF ReceiveMessage, ReceiveRead, PacketLost, SaveMessage, SetRead, tables
  <2> QED
    BY <1>8, <2>3, <2>4, <2>5 DEF Receive
<1> QED
  BY <1>a, <1>1, <1>2, <1>3, <1>4, <1>5, <1>6, <1>7, <1>8, ChatTypes DEF Next, UserActs


-----------------------------------------------------------------------------
(***************************************************************************)
(* The five steps that take a handshake a place further: the creator       *)
(* starts it, a user has looked up the other, the invitation arrives, the  *)
(* acceptance arrives, the server has answered the acceptance.             *)
(***************************************************************************)
LEMMA Started ==
  ASSUME NEW d \in Chats, HandshakeInv(d), CreateSecretChatRequest(d)
  PROVE  HandshakeInv(d)'
<1> USE DEF HandshakeInv
<1> DEFINE new == [stage |-> "check", other |-> {},
                   packet |-> Outgoing(d.by, "REQUEST", d, {}, {})]
<1>1. /\ d \notin used /\ d \in used'
      /\ calls' = calls \cup {new}
      /\ UNCHANGED <<identity, status, secret, mailbox>>
  BY DEF CreateSecretChatRequest, Start, tables
<1>2. /\ \A q \in calls : ~OfHandshake(q.packet, d)
      /\ \A p \in mailbox : ~OfHandshake(p, d)
  BY <1>1 DEF OneCarrier
<1>3. status[d.by][d] # "active" /\ status[d.with][d] = "none"
  BY <1>1 DEF NobodyActive, Early
<1>4. new.stage = "check" /\ new.packet.kind = "REQUEST" /\ new.packet.chat = d
  BY DEF Outgoing
<1> HIDE DEF new
<1>5. \A q \in calls' : OfHandshake(q.packet, d) => q = new
  BY <1>1, <1>2
<1>6. OneCarrier(d)'
  BY <1>1, <1>2, <1>5 DEF OneCarrier, Carries
<1>7. \A q \in calls' : ~Accepts(q, d)
  BY <1>4, <1>5 DEF Accepts, OfHandshake
<1>8. NobodyActive(d)'
  BY <1>1, <1>3, <1>7 DEF NobodyActive
<1>9. CurrentAtCreator(d)'
  BY <1>1, <1>2, <1>3, <1>4, <1>5, <1>7 DEF CurrentAtCreator, Carries, OfHandshake
<1>10. CurrentAtOther(d)'
  BY <1>1, <1>3 DEF CurrentAtOther, Exists
<1> QED
  BY <1>6, <1>8, <1>9, <1>10

LEMMA LookedUp ==
  ASSUME TypeOK, BetweenPairs, NEW d \in Unmerged, HandshakeInv(d),
         NEW q \in calls, q.packet.chat = d, CheckAnswered(q)
  PROVE  HandshakeInv(d)'
<1> USE DEF HandshakeInv, Unmerged
<1> DEFINE u == q.packet.from
           new == [q EXCEPT !.stage = "posted", !.packet.key = {Key(u)}]
<1>1. /\ q.stage = "check"
      /\ calls' = (calls \ {q}) \cup {new}
      /\ status' = [status EXCEPT ![u][d] = IF @ = "none" THEN "pending" ELSE @]
      /\ UNCHANGED <<identity, secret, used, mailbox>>
  BY DEF CheckAnswered, Advance, CreateChat
<1>2. q \in Call /\ q.packet \in Packet
  BY DEF TypeOK, Call
<1>3. /\ new.stage = "posted" /\ new.other = q.other
      /\ new.packet.kind = q.packet.kind /\ new.packet.chat = d
      /\ new.packet.key = {Key(u)}
  BY <1>2 DEF Call, Packet
<1>4. q.packet.kind \in {"REQUEST", "ACCEPT"} /\ Carries(q, d)
  BY <1>1 DEF BetweenPairs, Carries, OfHandshake
<1>5. u = IF q.packet.kind = "REQUEST" THEN d.by ELSE d.with
  BY <1>4 DEF BetweenPairs, Routed, Handshakes
<1>6. Early(d)
  BY <1>1, <1>4 DEF Early
<1>7. status[d.by][d] # "active" /\ status[d.with][d] = "none"
  BY <1>6 DEF NobodyActive
<1>8. /\ \A r \in calls : Carries(r, d) => r = q
      /\ \A p \in mailbox : ~OfHandshake(p, d)
      /\ d \in used
  BY <1>4 DEF OneCarrier, Carries
<1>9. \A r \in calls : Accepts(r, d) => r = q
  BY <1>6, <1>8 DEF NobodyActive, Accepts, Carries, OfHandshake
<1>10. d.by \in Users /\ d.with \in Users /\ d.by # d.with
  BY ChatTypes
<1>11. /\ status'[d.by][d] # "active"
       /\ status'[d.with][d] # "active"
       /\ q.packet.kind = "REQUEST" => status'[d.with][d] = "none"
       /\ q.packet.kind = "ACCEPT" => status'[d.by][d] = status[d.by][d]
  <2>1. status \in [Users -> [Chats -> {"none", "pending", "active"}]]
    BY DEF TypeOK
  <2> QED
    BY <1>1, <1>4, <1>5, <1>7, <1>10, <2>1
<1> HIDE DEF new, u
<1>12. /\ \A r \in calls' : Carries(r, d) \/ Accepts(r, d) => r = new
       /\ \A p \in mailbox' : ~OfHandshake(p, d)
       /\ d \in used'
  BY <1>1, <1>8, <1>9
<1>13. OneCarrier(d)'
  BY <1>12 DEF OneCarrier
<1>14. NobodyActive(d)'
  <2>1. CASE q.packet.kind = "REQUEST"
    <3>1. \A r \in calls' : ~Accepts(r, d)
      BY <1>3, <1>12, <2>1 DEF Accepts
    <3> QED
      BY <1>11, <2>1, <3>1 DEF NobodyActive
  <2>2. CASE q.packet.kind = "ACCEPT"
    <3>1. ~Early(d)'
      BY <1>3, <1>12, <2>2 DEF Early, Accepts, OfHandshake
    <3> QED
      BY <3>1 DEF NobodyActive
  <2> QED
    BY <1>4, <2>1, <2>2
<1>15. CurrentAtCreator(d)'
  <2> SUFFICES ASSUME status'[d.by][d] # "none"
               PROVE  /\ Carries(new, d) /\ ~Accepts(new, d)
                           => new.packet.key = {Key(d.by)}
                      /\ Accepts(new, d) => new.other = {Key(d.by)}
    BY <1>1, <1>11, <1>12 DEF CurrentAtCreator, Exists, Key, OfHandshake
  <2>1. CASE q.packet.kind = "REQUEST"
    BY <1>3, <1>5, <2>1 DEF Accepts
  <2>2. CASE q.packet.kind = "ACCEPT"
    <3>1. Exists(d.by, d) /\ Accepts(q, d)
      BY <1>11, <2>2 DEF Exists, Accepts
    <3> QED
      BY <1>3, <2>2, <3>1 DEF CurrentAtCreator, Accepts
  <2> QED
    BY <1>4, <2>1, <2>2
<1>16. CurrentAtOther(d)'
  <2> SUFFICES Accepts(new, d) => new.packet.key = {Key(d.with)}
    BY <1>1, <1>11, <1>12 DEF CurrentAtOther, Exists, Key, OfHandshake
  <2> QED
    BY <1>3, <1>5 DEF Accepts
<1> QED
  BY <1>13, <1>14, <1>15, <1>16

LEMMA Invited ==
  ASSUME TypeOK, BetweenPairs, NEW d \in Unmerged, HandshakeInv(d),
         NEW p \in mailbox, p.chat = d, ReceiveRequest(p)
  PROVE  HandshakeInv(d)'
<1> USE DEF HandshakeInv, Unmerged
<1> DEFINE new == [stage |-> "check", other |-> p.key,
                   packet |-> Outgoing(p.to, "ACCEPT", d, {}, {})]
<1>1. /\ p.kind = "REQUEST"
      /\ mailbox' = mailbox \ {p}
      /\ calls' = calls \cup {new}
      /\ UNCHANGED <<identity, status, secret, used>>
  BY DEF ReceiveRequest, Deliver, Start, tables
<1>2. /\ new.stage = "check" /\ new.other = p.key
      /\ new.packet.kind = "ACCEPT" /\ new.packet.chat = d
  BY DEF Outgoing
<1>3. OfHandshake(p, d)
  BY <1>1 DEF OfHandshake
<1>4. Early(d)
  BY <1>1 DEF Early
<1>5. status[d.by][d] # "active" /\ status[d.with][d] = "none"
  BY <1>4 DEF NobodyActive
<1>6. /\ \A q \in calls : ~Carries(q, d)
      /\ \A r \in mailbox : OfHandshake(r, d) => r = p
      /\ d \in used
  BY <1>3 DEF OneCarrier
<1>7. \A q \in calls : ~Accepts(q, d)
  BY <1>4, <1>6 DEF NobodyActive, Accepts, Carries, OfHandshake
<1> HIDE DEF new
<1>8. /\ \A q \in calls' : Carries(q, d) \/ Accepts(q, d) => q = new
      /\ \A r \in mailbox' : ~OfHandshake(r, d)
      /\ d \in used'
  BY <1>1, <1>6, <1>7
<1>9. OneCarrier(d)'
  BY <1>8 DEF OneCarrier
<1>10. NobodyActive(d)'
  BY <1>1, <1>2, <1>5, <1>8 DEF NobodyActive
<1>11. CurrentAtCreator(d)'
  BY <1>1, <1>2, <1>5, <1>8 DEF CurrentAtCreator, Exists, Key, OfHandshake, Accepts
<1>12. CurrentAtOther(d)'
  BY <1>1, <1>5 DEF CurrentAtOther, Exists
<1> QED
  BY <1>9, <1>10, <1>11, <1>12

LEMMA InitKeepsOthers ==
  ASSUME TypeOK, NEW u \in Users, NEW v \in Users, NEW c \in Chats, NEW d \in Chats,
         NEW other, InitSecretChat(u, c, other), u # v \/ c # d
  PROVE  status'[v][d] = status[v][d] /\ secret'[v][d] = secret[v][d]
<1>1. /\ status \in [Users -> [Chats -> {"none", "pending", "active"}]]
      /\ secret \in [Users -> [Chats -> SUBSET Keys]]
  BY DEF TypeOK
<1>2. status' = status \/ status' = [status EXCEPT ![u][c] = "active"]
  BY DEF InitSecretChat
<1>3. secret' = secret \/ secret' = [secret EXCEPT ![u][c] = {Key(u)} \cup other]
  BY DEF InitSecretChat
<1>4. status'[v][d] = status[v][d]
  BY <1>1, <1>2
<1>5. secret'[v][d] = secret[v][d]
  BY <1>1, <1>3
<1> QED
  BY <1>4, <1>5

LEMMA InitOwn ==
  ASSUME TypeOK, NEW u \in Users, NEW c \in Chats, NEW other,
         InitSecretChat(u, c, other), status'[u][c] # "none"
  PROVE  Exists(u, c) /\ secret'[u][c] = {Key(u)} \cup other
<1>1. /\ status \in [Users -> [Chats -> {"none", "pending", "active"}]]
      /\ secret \in [Users -> [Chats -> SUBSET Keys]]
  BY DEF TypeOK
<1>2. Exists(u, c)
  BY DEF InitSecretChat, Exists
<1>3. secret' = [secret EXCEPT ![u][c] = {Key(u)} \cup other]
  BY <1>2 DEF InitSecretChat
<1> QED
  BY <1>1, <1>2, <1>3

(* Once the other user has answered, the invitation is no longer early     *)
LEMMA Accepted ==
  ASSUME TypeOK, BetweenPairs, NEW d \in Unmerged, HandshakeInv(d),
         NEW p \in mailbox, p.chat = d, ReceiveAccept(p)
  PROVE  HandshakeInv(d)'
<1> USE DEF HandshakeInv, Unmerged
<1>1. /\ p.kind = "ACCEPT"
      /\ mailbox' = mailbox \ {p}
      /\ InitSecretChat(d.by, d, p.key)
      /\ UNCHANGED <<identity, calls, used>>
  <2>1. p.kind = "ACCEPT" /\ mailbox' = mailbox \ {p}
        /\ InitSecretChat(p.to, d, p.key) /\ UNCHANGED <<identity, calls, used>>
    BY DEF ReceiveAccept, Deliver
  <2>2. p.to = d.by
    BY <2>1, ChatTypes DEF BetweenPairs, Routed, Handshakes, Peer
  <2> QED
    BY <2>1, <2>2
<1>2. d.by \in Users /\ d.with \in Users /\ d.by # d.with
  BY ChatTypes
<1>3. CallsFollow(d) /\ MailFollows(d)
  BY <1>1 DEF CallsFollow, MailFollows, Origin, OneCarrier
<1>4. OneCarrier(d)' /\ (Early(d)' => Early(d))
  BY <1>1, <1>3, Carrying
<1>5. ~Early(d)
  BY <1>1 DEF Early, OneCarrier, OfHandshake
<1>6. NobodyActive(d)'
  BY <1>4, <1>5 DEF NobodyActive
<1>7. status'[d.with][d] = status[d.with][d] /\ secret'[d.with][d] = secret[d.with][d]
  BY <1>1, <1>2, InitKeepsOthers
<1>8. status'[d.by][d] # "none" =>
        Exists(d.by, d) /\ secret'[d.by][d] = {Key(d.by)} \cup p.key
  BY <1>1, <1>2, InitOwn
<1>9. CurrentAtCreator(d)'
  BY <1>1, <1>7, <1>8 DEF CurrentAtCreator, Exists, Key, Carries, Accepts, OfHandshake
<1>10. CurrentAtOther(d)'
  <2> SUFFICES ASSUME status[d.with][d] # "none", status'[d.by][d] = "active"
               PROVE  secret'[d.by][d] = {Key(d.by), Key(d.with)}
    BY <1>1, <1>7 DEF CurrentAtOther, Exists, Key, Carries, Accepts, OfHandshake
  <2>1. p.key = {Key(d.with)}
    BY <1>1 DEF CurrentAtOther, Exists
  <2> QED
    BY <1>8, <2>1
<1> QED
  BY <1>4, <1>6, <1>9, <1>10

LEMMA AcceptAnswered ==
  ASSUME TypeOK, BetweenPairs, NEW d \in Unmerged, HandshakeInv(d),
         NEW q \in calls, Accepts(q, d), q.stage = "ok", HandshakeAnswered(q)
  PROVE  HandshakeInv(d)'
<1> USE DEF HandshakeInv, Unmerged
<1>1. /\ calls' = calls \ {q}
      /\ InitSecretChat(d.with, d, q.other)
      /\ UNCHANGED <<identity, used, mailbox>>
  <2>1. q.packet.from = d.with
    BY DEF BetweenPairs, Routed, Handshakes, Accepts
  <2> QED
    BY <2>1 DEF HandshakeAnswered, Finish, Accepts
<1>2. d.by \in Users /\ d.with \in Users /\ d.by # d.with
  BY ChatTypes
<1>3. CallsFollow(d) /\ MailFollows(d)
  BY <1>1 DEF CallsFollow, MailFollows, Origin, OneCarrier
<1>4. OneCarrier(d)' /\ (Early(d)' => Early(d))
  BY <1>1, <1>3, Carrying
<1>5. ~Early(d)
  BY DEF NobodyActive
<1>6. NobodyActive(d)'
  BY <1>4, <1>5 DEF NobodyActive
<1>7. status'[d.by][d] = status[d.by][d] /\ secret'[d.by][d] = secret[d.by][d]
  BY <1>1, <1>2, InitKeepsOthers
<1>8. status'[d.with][d] # "none" =>
        Exists(d.with, d) /\ secret'[d.with][d] = {Key(d.with)} \cup q.other
  BY <1>1, <1>2, InitOwn
<1>9. CurrentAtCreator(d)'
  <2> SUFFICES ASSUME status[d.by][d] # "none", status'[d.with][d] = "active"
               PROVE  secret'[d.with][d] = {Key(d.by), Key(d.with)}
    BY <1>1, <1>7 DEF CurrentAtCreator, Exists, Key, Carries, Accepts, OfHandshake
  <2>1. q.other = {Key(d.by)}
    BY DEF CurrentAtCreator, Exists
  <2> QED
    BY <1>8, <2>1
<1>10. CurrentAtOther(d)'
  BY <1>1, <1>7, <1>8 DEF CurrentAtOther, Exists, Key, Carries, Accepts, OfHandshake
<1> QED
  BY <1>4, <1>6, <1>9, <1>10

(***************************************************************************)
(* A step leaves the handshake of chat d where it is, or takes it one      *)
(* place further on: by one of the five actions that move it.              *)
(***************************************************************************)
Advances(d) ==
  \/ CreateSecretChatRequest(d)
  \/ \E q \in calls : q.packet.chat = d /\ CheckAnswered(q)
  \/ \E p \in mailbox : p.chat = d /\ ReceiveRequest(p)
  \/ \E p \in mailbox : p.chat = d /\ ReceiveAccept(p)
  \/ \E q \in calls : Accepts(q, d) /\ q.stage = "ok" /\ HandshakeAnswered(q)

Moves(d) == Follows(d) \/ Advances(d)

LEMMA HandshakeMoves ==
  ASSUME TypeOK, BetweenPairs, [Next]_vars,
         NEW d \in Chats, d \notin merged', HandshakeInv(d)
  PROVE  Moves(d)
<1> DEFINE Rows == RowKept(d.by, d) /\ RowKept(d.with, d)
           OldCalls == \A q \in calls' : OfHandshake(q.packet, d) => q \in calls
<1>d. d.by \in Users /\ d.with \in Users
  BY ChatTypes
<1>t. /\ status \in [Users -> [Chats -> {"none", "pending", "active"}]]
      /\ secret \in [Users -> [Chats -> SUBSET Keys]]
      /\ identity \in [Users -> Nat]
  BY DEF TypeOK
<1>a. OldCalls => CallsFollow(d)
  BY DEF CallsFollow, Origin, HandshakeInv, OneCarrier, Carries
<1>b. mailbox' \subseteq mailbox => MailFollows(d)
  BY DEF MailFollows
<1>c. UNCHANGED <<status, secret, identity>> => Rows
  BY DEF RowKept
<1>e. ASSUME NEW u \in Users, NEW c \in Chats, DeleteChat(u, c), identity' = identity
      PROVE  Rows
  <2>1. \A v \in Users : RowKept(v, d)
    BY <1>e, <1>t DEF DeleteChat, RowKept
  <2> QED
    BY <1>d, <2>1
<1>f. ASSUME NEW u \in Users, NEW c \in Chats, NEW other, InitSecretChat(u, c, other),
             c # d, identity' = identity
      PROVE  Rows
  BY <1>d, <1>f, InitKeepsOthers DEF RowKept
<1>g. CallsFollow(d) /\ MailFollows(d) /\ Rows /\ (d \in used <=> d \in used')
        => Moves(d)
  BY DEF Moves, Follows
<1>h. ASSUME NEW stage, NEW other, NEW p, Start(stage, other, p), ~OfHandshake(p, d)
      PROVE  OldCalls
  BY <1>h DEF Start
<1>i. ASSUME NEW q, Finish(q) PROVE OldCalls
  BY <1>i DEF Finish
<1>j. Chats \cap Texts = {}
  BY ChatsAssumption
<1> HIDE DEF Rows, OldCalls
<1>1. ASSUME NEW c \in Chats, CreateSecretChatRequest(c) PROVE Moves(d)
  <2>1. CASE c = d
    BY <1>1, <2>1 DEF Moves, Advances
  <2>2. CASE c # d
    <3>1. ~OfHandshake(Outgoing(c.by, "REQUEST", c, {}, {}), d)
      BY <2>2 DEF OfHandshake, Outgoing
    <3>2. OldCalls
      BY <1>1, <1>h, <3>1 DEF CreateSecretChatRequest
    <3> QED
      BY <1>1, <1>a, <1>b, <1>c, <1>g, <2>2, <3>2 DEF CreateSecretChatRequest, tables
  <2> QED
    BY <2>1, <2>2
<1>2. ASSUME NEW t \in Texts, SendSecretMessage(t) PROVE Moves(d)
  <2>1. \A key, texts : ~OfHandshake(Outgoing(t.by, "NEW_MESSAGE", t.chat, key, texts), d)
    BY DEF OfHandshake, Outgoing
  <2>2. OldCalls
    BY <1>2, <1>h, <2>1 DEF SendSecretMessage
  <2> QED
    BY <1>2, <1>a, <1>b, <1>c, <1>g, <1>j, <2>2 DEF SendSecretMessage, SaveMessage
<1>3. ASSUME NEW u \in Users, NEW c \in Chats, MarkChatAsRead(u, c)
      PROVE  Moves(d)
  <2>1. \A key, texts : ~OfHandshake(Outgoing(u, "READ", c, key, texts), d)
    BY DEF OfHandshake, Outgoing
  <2>2. OldCalls
    BY <1>3, <1>h, <2>1 DEF MarkChatAsRead
  <2> QED
    BY <1>3, <1>a, <1>b, <1>c, <1>g, <2>2 DEF MarkChatAsRead, SetRead
<1>4. ASSUME NEW u \in Users, NEW c \in Chats, DeleteSecretChat(u, c)
      PROVE  Moves(d)
  <2>1. ~OfHandshake(Outgoing(u, "DELETE", c, {}, {}), d)
    BY DEF OfHandshake, Outgoing
  <2>2. OldCalls
    BY <1>4, <1>h, <2>1 DEF DeleteSecretChat
  <2>3. Rows
    BY <1>4, <1>e DEF DeleteSecretChat
  <2> QED
    BY <1>4, <1>a, <1>b, <1>g, <2>2, <2>3 DEF DeleteSecretChat
<1>5. ASSUME NEW u \in Users, Restart(u) \/ NewDevice(u) PROVE Moves(d)
  <2>1. Forget(u) /\ mailbox' = mailbox /\ used' = used
    BY <1>5 DEF Restart, NewDevice, Stop
  <2>2. ASSUME NEW q \in calls'
        PROVE  \/ q \in calls /\ (q.packet.from # u \/ q.stage = "orphan")
               \/ \E r \in calls : /\ r.packet.from = u /\ r.stage = "posted"
                                   /\ q = [r EXCEPT !.stage = "orphan"]
    BY <2>1 DEF Forget
  <2>3. ASSUME NEW q \in calls' PROVE \E r \in calls : Origin(q, r)
    BY <2>2, <2>3 DEF Origin, TypeOK, Call
  <2>4. CallsFollow(d)
    <3>1. ASSUME NEW q \in calls', NEW r \in calls', Carries(q, d), Carries(r, d)
          PROVE  q = r
      <4>1. PICK a \in calls : \/ q = a /\ (q.packet.from # u \/ q.stage = "orphan")
                               \/ /\ a.packet.from = u /\ a.stage = "posted"
                                  /\ q = [a EXCEPT !.stage = "orphan"]
        BY <2>2
      <4>2. PICK b \in calls : \/ r = b /\ (r.packet.from # u \/ r.stage = "orphan")
                               \/ /\ b.packet.from = u /\ b.stage = "posted"
                                  /\ r = [b EXCEPT !.stage = "orphan"]
        BY <2>2
      <4>3. Carries(a, d) /\ Carries(b, d)
        BY <3>1, <4>1, <4>2 DEF Carries, TypeOK, Call
      <4>4. a = b
        BY <4>3 DEF HandshakeInv, OneCarrier
      <4> QED
        BY <4>1, <4>2, <4>4
    <3> QED
      BY <2>3, <3>1 DEF CallsFollow
  <2>5. Rows
    <3>1. CASE Restart(u)
      BY <1>c, <3>1 DEF Restart, tables
    <3>2. CASE NewDevice(u)
      <4>1. /\ identity' = [identity EXCEPT ![u] = @ + 1]
            /\ status' = [status EXCEPT ![u] = [c \in Chats |-> "none"]]
            /\ secret' = [secret EXCEPT ![u] = [c \in Chats |-> {}]]
        BY <3>2 DEF NewDevice
      <4>2. \A v \in Users : RowKept(v, d)
        BY <1>t, <4>1 DEF RowKept
      <4> QED
        BY <1>d, <4>2 DEF Rows
    <3> QED
      BY <1>5, <3>1, <3>2
  <2> QED
    BY <1>b, <1>g, <2>1, <2>4, <2>5
<1>6. ASSUME NEW q \in calls, Callback(q) PROVE Moves(d)
  <2>1. q.packet.from \in Users /\ q.packet.chat \in Chats
    BY DEF TypeOK, Call, Packet
  <2>2. CASE CheckAnswered(q)
    <3>1. CASE q.packet.chat = d
      BY <2>2, <3>1 DEF Moves, Advances
    <3>2. CASE q.packet.chat # d
      <4>1. OldCalls
        BY <2>2, <3>2 DEF OldCalls, CheckAnswered, Advance, OfHandshake, TypeOK, Call, Packet
      <4>2. Rows
        BY <1>d, <1>t, <2>1, <2>2, <3>2 DEF Rows, CheckAnswered, CreateChat, RowKept
      <4> QED
        BY <1>a, <1>b, <1>g, <2>2, <4>1, <4>2 DEF CheckAnswered
    <3> QED
      BY <3>1, <3>2
  <2>3. CASE CheckFails(q) \/ UploadStalls(q) \/ InfoAnswered(q)
    <3>1. OldCalls
      BY <1>i, <2>3 DEF CheckFails, UploadStalls, InfoAnswered
    <3> QED
      BY <1>a, <1>b, <1>c, <1>g, <2>3, <3>1
      DEF CheckFails, UploadStalls, InfoAnswered, tables
  <2>4. CASE UploadEnds(q)
    <3>1. q.packet.kind = "NEW_MESSAGE"
      BY <2>4 DEF UploadEnds, BetweenPairs
    <3>2. OldCalls
      BY <1>i, <2>4, <3>1
      DEF OldCalls, UploadEnds, Advance, OfHandshake, TypeOK, Call, Packet
    <3> QED
      BY <1>a, <1>b, <1>c, <1>g, <2>4, <3>2 DEF UploadEnds, tables
  <2>5. CASE HandshakeAnswered(q)
    <3>1. CASE Accepts(q, d) /\ q.stage = "ok"
      BY <2>5, <3>1 DEF Moves, Advances
    <3>2. CASE ~(Accepts(q, d) /\ q.stage = "ok")
      <4>1. OldCalls
        BY <1>i, <2>5 DEF HandshakeAnswered
      <4>2. Rows
        BY <1>c, <1>e, <1>f, <2>1, <2>5, <3>2 DEF HandshakeAnswered, Accepts, tables
      <4> QED
        BY <1>a, <1>b, <1>g, <2>5, <4>1, <4>2 DEF HandshakeAnswered
    <3> QED
      BY <3>1, <3>2
  <2>6. CASE MessageAnswered(q)
    <3>1. OldCalls
      BY <1>i, <2>6 DEF MessageAnswered
    <3> QED
      BY <1>a, <1>b, <1>c, <1>g, <2>6, <3>1 DEF MessageAnswered, DeleteMessage, tables
  <2> QED
    BY <1>6, <2>2, <2>3, <2>4, <2>5, <2>6 DEF Callback
<1>7. ASSUME NEW q \in calls, Serve(q) PROVE Moves(d)
  <2>1. /\ q \in Call /\ q.packet \in Packet
        /\ q.stage \in {"posted", "orphan"}
        /\ UNCHANGED <<identity, status, secret, used>>
    BY <1>7 DEF Serve, Taken, TakenUnheard, Refused, tables, TypeOK, Call
  <2>2. ASSUME NEW r \in calls'
        PROVE  \/ r \in calls /\ r # q
               \/ /\ r.packet = q.packet /\ r.other = q.other
                  /\ r.stage \in {"ok", "error"}
    BY <1>7, <2>1, <2>2 DEF Serve, Taken, TakenUnheard, Refused, Replied, Call
  <2>3. CallsFollow(d)
    BY <2>1, <2>2 DEF CallsFollow, Origin, HandshakeInv, OneCarrier, Carries
  <2>4. MailFollows(d)
    <3>1. \A x \in mailbox' : x.chat = d => x \in mailbox \/ x = q.packet
      BY <1>7, <2>1, TakenInChat DEF Serve, Taken, TakenUnheard, Refused
    <3>2. OfHandshake(q.packet, d) =>
            Carries(q, d) /\ \A r \in calls' : ~Carries(r, d)
      BY <2>1, <2>2 DEF HandshakeInv, OneCarrier, Carries
    <3> QED
      BY <2>1, <3>1, <3>2 DEF MailFollows, OfHandshake
  <2> QED
    BY <1>c, <1>g, <2>1, <2>3, <2>4
<1>8. ASSUME NEW p \in mailbox, Receive(p) \/ PacketLost(p) PROVE Moves(d)
  <2>1. p.to \in Users /\ p.chat \in Chats
    BY DEF TypeOK, Packet
  <2>2. CASE ReceiveRequest(p)
    <3>1. CASE p.chat = d
      BY <2>2, <3>1 DEF Moves, Advances
    <3>2. CASE p.chat # d
      <4>1. ~OfHandshake(Outgoing(p.to, "ACCEPT", p.chat, {}, {}), d)
        BY <3>2 DEF OfHandshake, Outgoing
      <4>2. OldCalls
        BY <1>h, <2>2, <4>1 DEF ReceiveRequest
      <4> QED
        BY <1>a, <1>b, <1>c, <1>g, <2>2, <4>2 DEF ReceiveRequest, Deliver, tables
    <3> QED
      BY <3>1, <3>2
  <2>3. CASE ReceiveAccept(p)
    <3>1. CASE p.chat = d
      BY <2>3, <3>1 DEF Moves, Advances
    <3>2. CASE p.chat # d
      <4>1. OldCalls
        BY <2>3 DEF OldCalls, ReceiveAccept
      <4>2. Rows
        BY <1>f, <2>1, <2>3, <3>2 DEF ReceiveAccept
      <4> QED
        BY <1>a, <1>b, <1>g, <2>3, <4>1, <4>2 DEF ReceiveAccept, Deliver
    <3> QED
      BY <3>1, <3>2
  <2>4. CASE ReceiveMessage(p) \/ ReceiveRead(p) \/ PacketLost(p)
    <3>1. OldCalls
      BY <2>4 DEF OldCalls, ReceiveMessage, ReceiveRead, PacketLost
    <3> QED
      BY <1>a, <1>b, <1>c, <1>g, <2>4, <3>1
      DEF ReceiveMessage, ReceiveRead, PacketLost, Deliver, SaveMessage, SetRead, tables
  <2>5. CASE ReceiveDelete(p)
    <3>1. OldCalls /\ Rows
      BY <1>e, <2>1, <2>5 DEF OldCalls, ReceiveDelete
    <3> QED
      BY <1>a, <1>b, <1>g, <2>5, <3>1 DEF ReceiveDelete, Deliver
  <2> QED
    BY <1>8, <2>2, <2>3, <2>4, <2>5 DEF Receive
<1>9. ASSUME UNCHANGED vars PROVE Moves(d)
  <2>1. OldCalls
    BY <1>9 DEF OldCalls, vars
  <2> QED
    BY <1>9, <1>a, <1>b, <1>c, <1>g, <2>1 DEF vars, tables
<1> QED
  BY <1>1, <1>2, <1>3, <1>4, <1>5, <1>6, <1>7, <1>8, <1>9, ChatTypes DEF Next, UserActs

LEMMA HandshakeStep ==
  ASSUME TypeOK, BetweenPairs, [Next]_vars,
         NEW d \in Chats, d \notin merged', HandshakeInv(d)
  PROVE  HandshakeInv(d)'
<1>1. d \in Unmerged
  BY PastGrows DEF Unmerged
<1> QED
  BY <1>1, HandshakeMoves, Following, Started, LookedUp, Invited, Accepted, AcceptAnswered
  DEF Moves, Advances

LEMMA KeysInit == Init => KeysInv
  BY TypeInit, ChatTypes
  DEF Init, KeysInv, BetweenPairs, Exists, OneCarrier, NobodyActive, CurrentAtCreator,
      CurrentAtOther, Unmerged

LEMMA KeysStep == KeysInv /\ [Next]_vars => KeysInv'
<1> SUFFICES ASSUME KeysInv, [Next]_vars PROVE KeysInv'
  OBVIOUS
<1>1. TypeOK'
  BY TypeStep DEF KeysInv
<1>2. BetweenPairs'
  <2>1. CASE Next
    BY <2>1, PairsStep DEF KeysInv
  <2>2. CASE UNCHANGED vars
    BY <2>2 DEF KeysInv, BetweenPairs, Exists, Routed, Unmerged, vars, tables, past
  <2> QED
    BY <2>1, <2>2
<1>3. ASSUME NEW d \in Chats, d \notin merged'
      PROVE  HandshakeInv(d)'
  <2>1. HandshakeInv(d)
    BY <1>3, PastGrows DEF KeysInv, HandshakeInv, Unmerged
  <2> QED
    BY <1>3, <2>1, HandshakeStep DEF KeysInv
<1> QED
  BY <1>1, <1>2, <1>3 DEF KeysInv, HandshakeInv, Unmerged

LEMMA KeysFromInv == KeysInv => KeysAgree
  BY DEF KeysInv, KeysAgree, CurrentAtCreator, CurrentAtOther, Exists

(***************************************************************************)
(* Two clients that both hold a chat active hold the same secret for it:   *)
(* however calls fail, packets are lost, and devices are replaced, and     *)
(* whatever other chats the two have, unless the relay has given one of    *)
(* the handshakes the id of the other.                                     *)
(***************************************************************************)
THEOREM SecretsAgree == Spec => []KeysAgree
  BY KeysInit, KeysStep, KeysFromInv, PTL DEF Spec

-----------------------------------------------------------------------------
(* Rows of chats *)

(* What a statement on the database does to the row of a chat. *)
LEMMA StatementRows ==
  ASSUME TypeOK, NEW u \in Users, NEW v \in Users, NEW d \in Chats
  PROVE  /\ \A c \in Chats : CreateChat(u, c) =>
              /\ secret'[v][d] = secret[v][d]
              /\ IF u = v /\ c = d /\ status[v][d] = "none"
                   THEN status'[v][d] = "pending"
                   ELSE status'[v][d] = status[v][d]
         /\ \A c \in Chats : DeleteChat(u, c) =>
              IF u = v /\ c = d
                THEN status'[v][d] = "none" /\ secret'[v][d] = {}
                ELSE status'[v][d] = status[v][d] /\ secret'[v][d] = secret[v][d]
         /\ \A other : \A c \in Chats : InitSecretChat(u, c, other) =>
              IF u = v /\ c = d /\ Exists(v, d)
                THEN status'[v][d] = "active" /\ secret'[v][d] = {Key(v)} \cup other
                ELSE status'[v][d] = status[v][d] /\ secret'[v][d] = secret[v][d]
<1>1. /\ status \in [Users -> [Chats -> {"none", "pending", "active"}]]
      /\ secret \in [Users -> [Chats -> SUBSET Keys]]
  BY DEF TypeOK
<1>2. ASSUME NEW c \in Chats, CreateChat(u, c)
      PROVE  /\ secret'[v][d] = secret[v][d]
             /\ IF u = v /\ c = d /\ status[v][d] = "none"
                  THEN status'[v][d] = "pending"
                  ELSE status'[v][d] = status[v][d]
  BY <1>1, <1>2 DEF CreateChat
<1>3. ASSUME NEW c \in Chats, DeleteChat(u, c)
      PROVE  IF u = v /\ c = d
               THEN status'[v][d] = "none" /\ secret'[v][d] = {}
               ELSE status'[v][d] = status[v][d] /\ secret'[v][d] = secret[v][d]
  BY <1>1, <1>3 DEF DeleteChat
<1>4. ASSUME NEW c \in Chats, NEW other, InitSecretChat(u, c, other)
      PROVE  IF u = v /\ c = d /\ Exists(v, d)
               THEN status'[v][d] = "active" /\ secret'[v][d] = {Key(v)} \cup other
               ELSE status'[v][d] = status[v][d] /\ secret'[v][d] = secret[v][d]
  <2>1. CASE u # v \/ c # d
    BY <1>4, <2>1, InitKeepsOthers
  <2>2. CASE u = v /\ c = d /\ ~Exists(v, d)
    BY <1>4, <2>2 DEF InitSecretChat
  <2>3. CASE u = v /\ c = d /\ Exists(v, d)
    <3>1. status' = [status EXCEPT ![v][d] = "active"]
      BY <1>4, <2>3 DEF InitSecretChat
    <3>2. status'[v][d] = "active"
      BY <1>1, <3>1
    <3>3. secret'[v][d] = {Key(v)} \cup other
      BY <1>4, <2>3, <3>2, InitOwn
    <3>4. QED
      BY <2>3, <3>2, <3>3
  <2>4. QED
    BY <2>1, <2>2, <2>3
<1>5. QED
  BY <1>2, <1>3, <1>4

(***************************************************************************)
(* What a step does to the row of a chat: it stays, with the keys of its   *)
(* user; it goes; it becomes active; or a look-up has just created it.     *)
(***************************************************************************)
RowStays(u, d) ==
  /\ status'[u][d] = status[u][d]
  /\ secret'[u][d] = secret[u][d]
  /\ identity'[u] = identity[u]

RowGoes(u, d) == status'[u][d] = "none" /\ secret'[u][d] = {}

RowActivated(u, d) ==
  /\ Exists(u, d) /\ status'[u][d] = "active" /\ identity'[u] = identity[u]
  /\ \/ \E q \in calls : /\ q.packet.from = u /\ Accepts(q, d)
                         /\ q.stage = "ok" /\ HandshakeAnswered(q)
                         /\ secret'[u][d] = {Key(u)} \cup q.other
     \/ \E p \in mailbox : /\ p.to = u /\ p.chat = d /\ ReceiveAccept(p)
                           /\ secret'[u][d] = {Key(u)} \cup p.key

RowAppears(u, d) ==
  /\ status[u][d] = "none" /\ status'[u][d] = "pending"
  /\ secret'[u][d] = secret[u][d] /\ identity'[u] = identity[u]
  /\ \E q \in calls : q.packet.from = u /\ q.packet.chat = d /\ CheckAnswered(q)

LEMMA RowSteps ==
  ASSUME TypeOK, [Next]_vars, NEW u \in Users, NEW d \in Chats
  PROVE  RowStays(u, d) \/ RowGoes(u, d) \/ RowActivated(u, d) \/ RowAppears(u, d)
<1> DEFINE Result == RowStays(u, d) \/ RowGoes(u, d) \/ RowActivated(u, d) \/ RowAppears(u, d)
<1>1. ASSUME UNCHANGED <<status, secret, identity>> PROVE Result
  BY <1>1 DEF RowStays
<1>2. ASSUME NEW v \in Users, NEW c \in Chats, DeleteChat(v, c), identity' = identity
      PROVE  Result
  BY <1>2, StatementRows DEF RowStays, RowGoes
<1>3. ASSUME NEW c \in Chats, CreateSecretChatRequest(c) PROVE Result
  BY <1>1, <1>3 DEF CreateSecretChatRequest, tables
<1>4. ASSUME NEW t \in Texts, SendSecretMessage(t) PROVE Result
  BY <1>1, <1>4 DEF SendSecretMessage, SaveMessage
<1>5. ASSUME NEW v \in Users, NEW c \in Chats, MarkChatAsRead(v, c) \/ DeleteSecretChat(v, c)
      PROVE  Result
  BY <1>1, <1>2, <1>5 DEF MarkChatAsRead, DeleteSecretChat, SetRead
<1>6. ASSUME NEW v \in Users, Restart(v) \/ NewDevice(v) PROVE Result
  <2>1. CASE Restart(v)
    BY <1>1, <2>1 DEF Restart, tables
  <2>2. CASE NewDevice(v)
    <3>1. /\ identity' = [identity EXCEPT ![v] = @ + 1]
          /\ status' = [status EXCEPT ![v] = [c \in Chats |-> "none"]]
          /\ secret' = [secret EXCEPT ![v] = [c \in Chats |-> {}]]
      BY <2>2 DEF NewDevice
    <3>2. QED
      BY <3>1 DEF TypeOK, RowStays, RowGoes
  <2>3. QED
    BY <1>6, <2>1, <2>2
<1>7. ASSUME NEW q \in calls, Callback(q) PROVE Result
  <2>1. q.packet.from \in Users /\ q.packet.chat \in Chats
    BY DEF TypeOK, Call, Packet
  <2>2. CASE CheckAnswered(q)
    <3>1. CreateChat(q.packet.from, q.packet.chat) /\ identity' = identity
      BY <2>2 DEF CheckAnswered
    <3>2. QED
      BY <2>1, <2>2, <3>1, StatementRows DEF RowStays, RowAppears
  <2>3. CASE CheckFails(q) \/ UploadStalls(q) \/ InfoAnswered(q) \/ UploadEnds(q)
    BY <1>1, <2>3 DEF CheckFails, UploadStalls, InfoAnswered, UploadEnds, tables
  <2>4. CASE MessageAnswered(q)
    BY <1>1, <2>4 DEF MessageAnswered, DeleteMessage, tables
  <2>5. CASE HandshakeAnswered(q)
    <3>1. identity' = identity
      BY <2>5 DEF HandshakeAnswered
    <3>2. CASE q.stage = "error" /\ DeleteChat(q.packet.from, q.packet.chat)
      BY <1>2, <2>1, <3>1, <3>2
    <3>3. CASE UNCHANGED tables
      BY <1>1, <3>1, <3>3 DEF tables
    <3>4. CASE /\ q.stage = "ok" /\ q.packet.kind = "ACCEPT"
               /\ InitSecretChat(q.packet.from, q.packet.chat, q.other)
      BY <2>1, <2>5, <3>1, <3>4, StatementRows DEF RowStays, RowActivated, Accepts
    <3>5. QED
      BY <2>5, <3>2, <3>3, <3>4 DEF HandshakeAnswered
  <2>6. QED
    BY <1>7, <2>2, <2>3, <2>4, <2>5 DEF Callback
<1>8. ASSUME NEW q \in calls, Serve(q) PROVE Result
  BY <1>1, <1>8 DEF Serve, Taken, TakenUnheard, Refused, tables
<1>9. ASSUME NEW p \in mailbox, Receive(p) \/ PacketLost(p) PROVE Result
  <2>1. p.to \in Users /\ p.chat \in Chats
    BY DEF TypeOK, Packet
  <2>2. CASE ReceiveAccept(p)
    <3>1. InitSecretChat(p.to, p.chat, p.key) /\ identity' = identity
      BY <2>2 DEF ReceiveAccept
    <3>2. QED
      BY <2>1, <2>2, <3>1, StatementRows DEF RowStays, RowActivated
  <2>3. CASE ReceiveDelete(p)
    BY <1>2, <2>1, <2>3 DEF ReceiveDelete
  <2>4. CASE ReceiveRequest(p) \/ ReceiveMessage(p) \/ ReceiveRead(p) \/ PacketLost(p)
    BY <1>1, <2>4
    DEF ReceiveRequest, ReceiveMessage, ReceiveRead, PacketLost, SaveMessage, SetRead, tables
  <2>5. QED
    BY <1>9, <2>2, <2>3, <2>4 DEF Receive
<1>10. ASSUME UNCHANGED vars PROVE Result
  BY <1>1, <1>10 DEF vars, tables
<1> HIDE DEF Result
<1>11. Result
  BY <1>3, <1>4, <1>5, <1>6, <1>7, <1>8, <1>9, <1>10, ChatTypes DEF Next, UserActs
<1>12. QED
  BY <1>11 DEF Result

(***************************************************************************)
(* A chat that is gone at the user who created it stays gone: nothing that *)
(* arrives late gives it a row, except the look-up of the peer.            *)
(***************************************************************************)
THEOREM DeletedChatsStayDeleted == Spec => DeletedStaysDeleted
<1>1. TypeOK /\ [Next]_vars =>
        [\A c \in Chats :
           /\ c \in used /\ ~Exists(c.by, c)
           /\ ~\E q \in calls :
                q.stage = "check" /\ q.packet.from = c.by /\ q.packet.chat = c
           => status'[c.by][c] = "none"]_vars
  <2> SUFFICES ASSUME TypeOK, Next, NEW c \in Chats, ~Exists(c.by, c),
                      ~\E q \in calls : /\ q.stage = "check"
                                         /\ q.packet.from = c.by /\ q.packet.chat = c
               PROVE  status'[c.by][c] = "none"
    OBVIOUS
  <2>1. c.by \in Users /\ status[c.by][c] = "none"
    BY ChatTypes DEF Exists
  <2>2. ~RowAppears(c.by, c)
    BY DEF RowAppears, CheckAnswered
  <2>3. QED
    BY <2>1, <2>2, RowSteps DEF RowStays, RowGoes, RowActivated, Exists
<1>2. QED
  BY <1>1, TypeCorrect, PTL DEF Spec, DeletedStaysDeleted

-----------------------------------------------------------------------------
(* Messages *)

(* An id once drawn is drawn. *)
LEMMA UsedSteps ==
  ASSUME [Next]_vars, NEW x
  PROVE  /\ x \in used => x \in used'
         /\ x \in used' =>
              \/ x \in used
              \/ x \in Chats /\ CreateSecretChatRequest(x)
              \/ x \in Texts /\ SendSecretMessage(x)
<1> DEFINE Result ==
      /\ x \in used => x \in used'
      /\ x \in used' =>
           \/ x \in used
           \/ x \in Chats /\ CreateSecretChatRequest(x)
           \/ x \in Texts /\ SendSecretMessage(x)
<1>1. ASSUME UNCHANGED used PROVE Result
  BY <1>1
<1>2. ASSUME NEW c \in Chats, CreateSecretChatRequest(c) PROVE Result
  <2>1. used' = used \cup {c}
    BY <1>2 DEF CreateSecretChatRequest
  <2>2. QED
    BY <1>2, <2>1
<1>3. ASSUME NEW t \in Texts, SendSecretMessage(t) PROVE Result
  <2>1. used' = used \cup {t}
    BY <1>3 DEF SendSecretMessage
  <2>2. QED
    BY <1>3, <2>1
<1>4. ASSUME NEW u \in Users, NEW c \in Chats,
             MarkChatAsRead(u, c) \/ DeleteSecretChat(u, c) \/ Restart(u) \/ NewDevice(u)
      PROVE  UNCHANGED used
  BY <1>4 DEF MarkChatAsRead, DeleteSecretChat, Restart, NewDevice
<1>5. ASSUME NEW q \in calls, Callback(q) \/ Serve(q)
      PROVE  UNCHANGED used
  BY <1>5 DEF Callback, CheckAnswered, CheckFails, UploadEnds, UploadStalls,
     HandshakeAnswered, MessageAnswered, InfoAnswered, Serve, Taken, TakenUnheard, Refused
<1>6. ASSUME NEW p \in mailbox, Receive(p) \/ PacketLost(p)
      PROVE  UNCHANGED used
  BY <1>6 DEF Receive, ReceiveRequest, ReceiveAccept, ReceiveMessage, ReceiveRead,
     ReceiveDelete, PacketLost
<1>7. ASSUME UNCHANGED vars PROVE UNCHANGED used
  BY <1>7 DEF vars
<1>8. ASSUME NEW u \in Users, Restart(u) \/ NewDevice(u) PROVE UNCHANGED used
  BY <1>8 DEF Restart, NewDevice
<1> HIDE DEF Result
<1>9. Result
  BY <1>1, <1>2, <1>3, <1>4, <1>5, <1>6, <1>7, <1>8 DEF Next, UserActs
<1>10. QED
  BY <1>9 DEF Result

(***************************************************************************)
(* Once the other user has looked up the creator, the handshake of a chat  *)
(* only goes on from where it is; so nobody is early again.                *)
(***************************************************************************)
LEMMA LateMoves ==
  ASSUME KeysInv, [Next]_vars, NEW d \in Chats, d \notin merged', ~Early(d)
  PROVE  CallsFollow(d) /\ MailFollows(d)
<1>0. TypeOK /\ BetweenPairs /\ HandshakeInv(d)
  BY PastGrows DEF KeysInv, HandshakeInv, Unmerged
<1>1. ~CreateSecretChatRequest(d)
  BY DEF CreateSecretChatRequest, Early
<1>2. \A q \in calls : q.packet.chat = d => ~CheckAnswered(q)
  BY <1>0 DEF CheckAnswered, Early, BetweenPairs, Carries, OfHandshake
<1>3. \A p \in mailbox : p.chat = d => ~ReceiveRequest(p)
  BY DEF ReceiveRequest, Early
<1>4. ASSUME calls' \subseteq calls, mailbox' \subseteq mailbox
      PROVE  CallsFollow(d) /\ MailFollows(d)
  BY <1>0, <1>4 DEF CallsFollow, MailFollows, Origin, HandshakeInv, OneCarrier
<1>5. ASSUME NEW p \in mailbox, ReceiveAccept(p)
      PROVE  calls' \subseteq calls /\ mailbox' \subseteq mailbox
  BY <1>5 DEF ReceiveAccept, Deliver
<1>6. ASSUME NEW q \in calls, HandshakeAnswered(q)
      PROVE  calls' \subseteq calls /\ mailbox' \subseteq mailbox
  BY <1>6 DEF HandshakeAnswered, Finish
<1>7. Moves(d)
  BY <1>0, HandshakeMoves
<1>8. QED
  BY <1>1, <1>2, <1>3, <1>4, <1>5, <1>6, <1>7 DEF Moves, Follows, Advances

LEMMA EarlyPasses ==
  ASSUME KeysInv, [Next]_vars, NEW d \in Chats, d \notin merged', Early(d)'
  PROVE  Early(d)
<1>1. SUFFICES ASSUME ~Early(d)
               PROVE  FALSE
  OBVIOUS
<1>2. CallsFollow(d) /\ MailFollows(d) /\ OneCarrier(d)
  BY <1>1, LateMoves, PastGrows DEF KeysInv, Unmerged
<1>3. d \in used /\ d \in used'
  BY <1>1, UsedSteps DEF Early
<1>4. QED
  BY <1>1, <1>2, <1>3, Carrying

(* What a call posts has been in it since it was made, but for the key of  *)
(* a handshake.                                                            *)
LEMMA CallsKeepPackets ==
  ASSUME TypeOK, BetweenPairs, [Next]_vars, NEW q \in calls'
  PROVE  \/ \E r \in calls : q.packet = r.packet
         \/ q.packet.kind \in {"REQUEST", "ACCEPT", "READ"}
         \/ \E u \in Users, c \in Chats :
              DeleteSecretChat(u, c) /\ q.packet = Outgoing(u, "DELETE", c, {}, {})
         \/ \E t \in Texts : /\ SendSecretMessage(t)
                             /\ q.packet = Outgoing(t.by, "NEW_MESSAGE", t.chat,
                                                    secret[t.by][t.chat], {t})
<1> DEFINE Result ==
      \/ \E r \in calls : q.packet = r.packet
      \/ q.packet.kind \in {"REQUEST", "ACCEPT", "READ"}
      \/ \E u \in Users, c \in Chats :
           DeleteSecretChat(u, c) /\ q.packet = Outgoing(u, "DELETE", c, {}, {})
      \/ \E t \in Texts : /\ SendSecretMessage(t)
                          /\ q.packet = Outgoing(t.by, "NEW_MESSAGE", t.chat,
                                                 secret[t.by][t.chat], {t})
<1>1. ASSUME q \in calls PROVE Result
  BY <1>1
<1>2. ASSUME NEW c \in Chats, CreateSecretChatRequest(c) PROVE Result
  BY <1>1, <1>2 DEF CreateSecretChatRequest, Start, Outgoing
<1>3. ASSUME NEW t \in Texts, SendSecretMessage(t) PROVE Result
  <2>1. CASE q \notin calls
    <3>1. q.packet = Outgoing(t.by, "NEW_MESSAGE", t.chat, secret[t.by][t.chat], {t})
      BY <1>3, <2>1 DEF SendSecretMessage, Start
    <3>2. QED
      BY <1>3, <3>1
  <2>2. QED
    BY <1>1, <2>1
<1>4. ASSUME NEW u \in Users, NEW c \in Chats, MarkChatAsRead(u, c) PROVE Result
  <2>1. PICK texts : Start("posted", {}, Outgoing(u, "READ", c, secret[u][c], texts))
    BY <1>4 DEF MarkChatAsRead
  <2>2. q \in calls \/ q.packet.kind = "READ"
    BY <2>1 DEF Start, Outgoing
  <2>3. QED
    BY <1>1, <2>2
<1>5. ASSUME NEW u \in Users, NEW c \in Chats, DeleteSecretChat(u, c) PROVE Result
  <2>1. q \in calls \/ q.packet = Outgoing(u, "DELETE", c, {}, {})
    BY <1>5 DEF DeleteSecretChat, Start
  <2>2. QED
    BY <1>1, <1>5, <2>1
<1>6. ASSUME NEW u \in Users, Restart(u) \/ NewDevice(u) PROVE Result
  <2>1. q \in calls \/ \E r \in calls : q = [r EXCEPT !.stage = "orphan"]
    BY <1>6 DEF Restart, NewDevice, Stop, Forget
  <2>2. QED
    BY <1>1, <2>1 DEF TypeOK, Call
<1>7. ASSUME NEW r \in calls, Callback(r) PROVE Result
  <2>0. r \in Call /\ r.packet \in Packet
    BY DEF TypeOK, Call
  <2>1. CASE CheckAnswered(r)
    <3>1. r.packet.kind \in {"REQUEST", "ACCEPT"}
      BY <2>1 DEF CheckAnswered, BetweenPairs
    <3>2. q \in calls \/ q.packet.kind = r.packet.kind
      BY <2>0, <2>1 DEF CheckAnswered, Advance, Call, Packet
    <3>3. QED
      BY <1>1, <3>1, <3>2
  <2>2. CASE UploadEnds(r)
    BY <1>1, <2>0, <2>2 DEF UploadEnds, Advance, Finish, Call
  <2>3. CASE CheckFails(r) \/ UploadStalls(r) \/ HandshakeAnswered(r)
               \/ MessageAnswered(r) \/ InfoAnswered(r)
    <3>1. Finish(r)
      BY <2>3 DEF CheckFails, UploadStalls, HandshakeAnswered, MessageAnswered, InfoAnswered
    <3>2. QED
      BY <1>1, <3>1 DEF Finish
  <2>4. QED
    BY <1>7, <2>1, <2>2, <2>3 DEF Callback
<1>8. ASSUME NEW r \in calls, Serve(r) PROVE Result
  <2>0. r \in Call
    BY DEF TypeOK
  <2>1. q \in calls \/ \E answer : q = [r EXCEPT !.stage = answer]
    BY <1>8 DEF Serve, Taken, TakenUnheard, Refused, Replied
  <2>2. QED
    BY <1>1, <2>0, <2>1 DEF Call
<1>9. ASSUME NEW p \in mailbox, Receive(p) \/ PacketLost(p) PROVE Result
  <2>1. CASE ReceiveRequest(p)
    BY <1>1, <2>1 DEF ReceiveRequest, Start, Outgoing
  <2>2. CASE UNCHANGED calls
    BY <1>1, <2>2
  <2>3. QED
    BY <1>9, <2>1, <2>2
    DEF Receive, ReceiveAccept, ReceiveMessage, ReceiveRead, ReceiveDelete, PacketLost
<1>10. ASSUME UNCHANGED vars PROVE Result
  BY <1>1, <1>10 DEF vars
<1> HIDE DEF Result
<1>11. Result
  BY <1>2, <1>3, <1>4, <1>5, <1>6, <1>7, <1>8, <1>9, <1>10, ChatTypes DEF Next, UserActs
<1>12. QED
  BY <1>11 DEF Result

(* The relay holds what has been posted, handshakes under another chat id  *)
(* perhaps.                                                                *)
LEMMA MailComesFromCalls ==
  ASSUME TypeOK, [Next]_vars, NEW p \in mailbox'
  PROVE  \/ p \in mailbox
         \/ \E q \in calls :
              /\ Serve(q) /\ q.stage \in {"posted", "orphan"}
              /\ p = q.packet \/ (p.kind \in Handshakes /\ TakeIn(q.packet))
<1> DEFINE Result ==
      \/ p \in mailbox
      \/ \E q \in calls :
           /\ Serve(q) /\ q.stage \in {"posted", "orphan"}
           /\ p = q.packet \/ (p.kind \in Handshakes /\ TakeIn(q.packet))
<1>1. ASSUME mailbox' \subseteq mailbox PROVE Result
  BY <1>1
<1>2. ASSUME NEW u \in Users, UserActs(u) PROVE Result
  BY <1>1, <1>2 DEF UserActs, CreateSecretChatRequest, SendSecretMessage, MarkChatAsRead,
     DeleteSecretChat, Restart, NewDevice
<1>3. ASSUME NEW q \in calls, Callback(q) PROVE Result
  BY <1>1, <1>3 DEF Callback, CheckAnswered, CheckFails, UploadEnds, UploadStalls,
     HandshakeAnswered, MessageAnswered, InfoAnswered
<1>4. ASSUME NEW q \in calls, Serve(q) PROVE Result
  <2>0. q.packet \in Packet
    BY DEF TypeOK, Call
  <2>1. CASE UNCHANGED mailbox
    BY <1>1, <2>1
  <2>2. CASE TakeIn(q.packet) /\ q.stage \in {"posted", "orphan"}
    <3>1. \/ p \in mailbox
          \/ p = q.packet
          \/ /\ q.packet.kind \in Handshakes
             /\ \E old \in mailbox : p = [q.packet EXCEPT !.chat = old.chat]
      BY <2>2 DEF TakeIn
    <3>2. p \in mailbox \/ p = q.packet \/ p.kind \in Handshakes
      BY <2>0, <3>1 DEF Packet
    <3>3. QED
      BY <1>4, <2>2, <3>2
  <2>3. QED
    BY <1>4, <2>1, <2>2 DEF Serve, Taken, TakenUnheard, Refused
<1>5. ASSUME NEW r \in mailbox, Receive(r) \/ PacketLost(r) PROVE Result
  BY <1>1, <1>5 DEF Receive, ReceiveRequest, ReceiveAccept, ReceiveMessage, ReceiveRead,
     ReceiveDelete, PacketLost, Deliver
<1>6. ASSUME UNCHANGED vars PROVE Result
  BY <1>1, <1>6 DEF vars
<1> HIDE DEF Result
<1>7. Result
  BY <1>2, <1>3, <1>4, <1>5, <1>6 DEF Next
<1>8. QED
  BY <1>7 DEF Result

(* A message on its way was on its way before, or has just been written. *)
LEMMA SentSteps ==
  ASSUME TypeOK, BetweenPairs, [Next]_vars, NEW p \in Sent'
  PROVE  \/ p \in Sent
         \/ \E t \in Texts : /\ SendSecretMessage(t)
                             /\ p = Outgoing(t.by, "NEW_MESSAGE", t.chat,
                                             secret[t.by][t.chat], {t})
<1>0. p.kind = "NEW_MESSAGE"
  BY DEF Sent
<1>1. CASE p \in mailbox'
  <2>1. p \in mailbox \/ \E q \in calls : p = q.packet
    BY <1>0, <1>1, MailComesFromCalls DEF Handshakes
  <2>2. QED
    BY <1>0, <2>1 DEF Sent, Underway
<1>2. ASSUME NEW q \in calls', p = q.packet
      PROVE  \/ p \in Sent
             \/ \E t \in Texts : /\ SendSecretMessage(t)
                                 /\ p = Outgoing(t.by, "NEW_MESSAGE", t.chat,
                                                 secret[t.by][t.chat], {t})
  <2>1. CASE \E r \in calls : q.packet = r.packet
    BY <1>0, <1>2, <2>1 DEF Sent, Underway
  <2>2. \A u, c : Outgoing(u, "DELETE", c, {}, {}).kind # "NEW_MESSAGE"
    BY DEF Outgoing
  <2>3. q.packet.kind = "NEW_MESSAGE"
    BY <1>0, <1>2
  <2>4. \/ \E r \in calls : q.packet = r.packet
        \/ \E t \in Texts : /\ SendSecretMessage(t)
                            /\ q.packet = Outgoing(t.by, "NEW_MESSAGE", t.chat,
                                                   secret[t.by][t.chat], {t})
    BY <2>2, <2>3, CallsKeepPackets
  <2>5. QED
    BY <1>2, <2>1, <2>4
<1>3. p \in mailbox' \/ \E q \in calls' : p = q.packet
  BY DEF Sent, Underway
<1>4. QED
  BY <1>1, <1>2, <1>3

(* A message is saved by who writes it and by whom it reaches, and lost    *)
(* with its chat, or when its sender hears of an error.                    *)
LEMMA SavedSteps ==
  ASSUME TypeOK, [Next]_vars, NEW u \in Users, NEW t \in Texts
  PROVE  /\ t \in saved'[u] =>
              \/ t \in saved[u]
              \/ t.by = u /\ SendSecretMessage(t)
              \/ \E p \in mailbox : /\ p.kind = "NEW_MESSAGE" /\ t \in p.texts
                                    /\ p.to = u /\ ReceiveMessage(p)
         /\ t \in saved[u] =>
              \/ t \in saved'[u]
              \/ status'[u][t.chat] = "none"
              \/ \E q \in calls : /\ q.stage = "error" /\ Holds(q.packet, t)
                                  /\ MessageAnswered(q)
<1> DEFINE Result ==
         /\ t \in saved'[u] =>
              \/ t \in saved[u]
              \/ t.by = u /\ SendSecretMessage(t)
              \/ \E p \in mailbox : /\ p.kind = "NEW_MESSAGE" /\ t \in p.texts
                                    /\ p.to = u /\ ReceiveMessage(p)
         /\ t \in saved[u] =>
              \/ t \in saved'[u]
              \/ status'[u][t.chat] = "none"
              \/ \E q \in calls : /\ q.stage = "error" /\ Holds(q.packet, t)
                                  /\ MessageAnswered(q)
<1>0. /\ saved \in [Users -> SUBSET Texts] /\ t.chat \in Chats
      /\ status \in [Users -> [Chats -> {"none", "pending", "active"}]]
  BY ChatTypes DEF TypeOK
<1>1. ASSUME UNCHANGED saved PROVE Result
  BY <1>1
<1>2. ASSUME NEW v \in Users, NEW c \in Chats, DeleteChat(v, c) PROVE Result
  <2>1. /\ saved' = [saved EXCEPT ![v] = @ \ TextsOf(c)]
        /\ status' = [status EXCEPT ![v][c] = "none"]
    BY <1>2 DEF DeleteChat
  <2>2. t \in saved'[u] => t \in saved[u]
    BY <1>0, <2>1
  <2>3. t \in saved[u] /\ t \notin saved'[u] => u = v /\ t \in TextsOf(c)
    BY <1>0, <2>1
  <2>4. u = v /\ t \in TextsOf(c) => status'[u][t.chat] = "none"
    BY <1>0, <2>1 DEF TextsOf
  <2>5. QED
    BY <2>2, <2>3, <2>4
<1>3. ASSUME NEW v \in Users, NEW x, SaveMessage(v, x)
      PROVE  /\ t \in saved[u] => t \in saved'[u]
             /\ t \in saved'[u] => t \in saved[u] \/ (u = v /\ t = x)
  BY <1>0, <1>3 DEF SaveMessage
<1>4. ASSUME NEW c \in Chats, CreateSecretChatRequest(c) PROVE Result
  BY <1>1, <1>4 DEF CreateSecretChatRequest, tables
<1>5. ASSUME NEW x \in Texts, SendSecretMessage(x) PROVE Result
  <2>1. SaveMessage(x.by, x) /\ x.by \in Users
    BY <1>5, ChatTypes DEF SendSecretMessage
  <2>2. QED
    BY <1>3, <1>5, <2>1
<1>6. ASSUME NEW v \in Users, NEW c \in Chats, MarkChatAsRead(v, c) \/ DeleteSecretChat(v, c)
      PROVE  Result
  BY <1>1, <1>2, <1>6 DEF MarkChatAsRead, DeleteSecretChat, SetRead
<1>7. ASSUME NEW v \in Users, Restart(v) \/ NewDevice(v) PROVE Result
  <2>1. CASE Restart(v)
    BY <1>1, <2>1 DEF Restart, tables
  <2>2. CASE NewDevice(v)
    <3>1. /\ saved' = [saved EXCEPT ![v] = {}]
          /\ status' = [status EXCEPT ![v] = [c \in Chats |-> "none"]]
      BY <2>2 DEF NewDevice
    <3>2. QED
      BY <1>0, <3>1
  <2>3. QED
    BY <1>7, <2>1, <2>2
<1>8. ASSUME NEW q \in calls, Callback(q) PROVE Result
  <2>1. q.packet.from \in Users /\ q.packet.chat \in Chats
    BY DEF TypeOK, Call, Packet
  <2>2. CASE CheckAnswered(q)
    BY <1>1, <2>2 DEF CheckAnswered, CreateChat
  <2>3. CASE CheckFails(q) \/ UploadStalls(q) \/ InfoAnswered(q) \/ UploadEnds(q)
    BY <1>1, <2>3 DEF CheckFails, UploadStalls, InfoAnswered, UploadEnds, tables
  <2>4. CASE MessageAnswered(q)
    <3>1. CASE UNCHANGED tables
      BY <1>1, <3>1 DEF tables
    <3>2. ASSUME q.stage = "error", NEW x \in q.packet.texts,
                 DeleteMessage(q.packet.from, x)
          PROVE  Result
      <4>1. saved' = [saved EXCEPT ![q.packet.from] = @ \ {x}]
        BY <3>2 DEF DeleteMessage
      <4>2. t \in saved'[u] => t \in saved[u]
        BY <1>0, <2>1, <4>1
      <4>3. t \in saved[u] /\ t \notin saved'[u] => t = x
        BY <1>0, <2>1, <4>1
      <4>4. QED
        BY <2>4, <3>2, <4>2, <4>3 DEF MessageAnswered, Holds
    <3>3. QED
      BY <2>4, <3>1, <3>2 DEF MessageAnswered
  <2>5. CASE HandshakeAnswered(q)
    <3>1. CASE DeleteChat(q.packet.from, q.packet.chat)
      BY <1>2, <2>1, <3>1
    <3>2. CASE UNCHANGED saved
      BY <1>1, <3>2
    <3>3. QED
      BY <2>5, <3>1, <3>2 DEF HandshakeAnswered, InitSecretChat, tables
  <2>6. QED
    BY <1>8, <2>2, <2>3, <2>4, <2>5 DEF Callback
<1>9. ASSUME NEW q \in calls, Serve(q) PROVE Result
  BY <1>1, <1>9 DEF Serve, Taken, TakenUnheard, Refused, tables
<1>10. ASSUME NEW p \in mailbox, Receive(p) \/ PacketLost(p) PROVE Result
  <2>1. p.to \in Users /\ p.chat \in Chats
    BY DEF TypeOK, Packet
  <2>2. CASE ReceiveMessage(p)
    <3>1. CASE UNCHANGED tables
      BY <1>1, <3>1 DEF tables
    <3>2. ASSUME NEW x \in p.texts, SaveMessage(p.to, x)
          PROVE  Result
      BY <1>3, <2>1, <2>2, <3>2 DEF ReceiveMessage
    <3>3. QED
      BY <2>2, <3>1, <3>2 DEF ReceiveMessage
  <2>3. CASE ReceiveDelete(p)
    BY <1>2, <2>1, <2>3 DEF ReceiveDelete
  <2>4. CASE ReceiveRequest(p) \/ ReceiveAccept(p) \/ ReceiveRead(p) \/ PacketLost(p)
    BY <1>1, <2>4
    DEF ReceiveRequest, ReceiveAccept, ReceiveRead, PacketLost, InitSecretChat, SetRead, tables
  <2>5. QED
    BY <1>10, <2>2, <2>3, <2>4 DEF Receive
<1>11. ASSUME UNCHANGED vars PROVE Result
  BY <1>1, <1>11 DEF vars, tables
<1> HIDE DEF Result
<1>12. Result
  BY <1>4, <1>5, <1>6, <1>7, <1>8, <1>9, <1>10, <1>11, ChatTypes DEF Next, UserActs
<1>13. QED
  BY <1>12 DEF Result

(* Only an active chat has a secret. *)
SecretsOfActive ==
  \A u \in Users, c \in Chats : secret[u][c] # {} => status[u][c] = "active"

LEMMA SecretsStep ==
  ASSUME TypeOK, [Next]_vars, SecretsOfActive
  PROVE  SecretsOfActive'
<1>1. ASSUME NEW u \in Users, NEW c \in Chats
      PROVE  secret'[u][c] # {} => status'[u][c] = "active"
  <2>1. RowStays(u, c) \/ RowGoes(u, c) \/ RowActivated(u, c) \/ RowAppears(u, c)
    BY RowSteps
  <2>2. QED
    BY <2>1 DEF SecretsOfActive, RowStays, RowGoes, RowActivated, RowAppears
<1>2. QED
  BY <1>1 DEF SecretsOfActive

(* A chat that is active, or has a secret, is past its look-ups. *)
LEMMA ActiveIsLate ==
  ASSUME KeysInv, NEW u \in Users, NEW c \in Unmerged, status[u][c] = "active"
  PROVE  u \in {c.by, c.with} /\ ~Early(c)
<1>1. Exists(u, c)
  BY DEF Exists
<1>2. u \in {c.by, c.with}
  BY <1>1 DEF KeysInv, BetweenPairs
<1>3. QED
  BY <1>2 DEF KeysInv, NobodyActive

(* A new message: what its sender has got opens it at the other user, and  *)
(* so will what the other user has yet to get.                             *)
LEMMA NewFits ==
  ASSUME KeysInv, SecretsOfActive, NEW t \in Texts, SendSecretMessage(t),
         t.chat \notin merged,
         NEW p, p = Outgoing(t.by, "NEW_MESSAGE", t.chat, secret[t.by][t.chat], {t})
  PROVE  Fits(p)'
<1> DEFINE d == t.chat
<1>1. /\ d \in Chats /\ t.by \in {d.by, d.with} /\ t.by \in Users
      /\ d.by \in Users /\ d.with \in Users /\ d.by # d.with
  BY ChatTypes, ChatsAssumption
<1>2. /\ p.from = t.by /\ p.to = Peer(t.by, d) /\ p.kind = "NEW_MESSAGE"
      /\ p.chat = d /\ p.key = secret[t.by][d] /\ p.texts = {t}
  BY DEF Outgoing
<1>3. /\ used' = used \cup {t} /\ secret[t.by][d] # {}
      /\ UNCHANGED <<status, secret, identity, mailbox>>
  BY DEF SendSecretMessage, SaveMessage
<1>4. status[t.by][d] = "active"
  BY <1>1, <1>3 DEF SecretsOfActive
<1>5. \A q \in calls' : Accepts(q, d) => q \in calls
  <2>1. PICK stage : calls' = calls \cup {[stage |-> stage, other |-> {}, packet |-> p]}
    BY DEF SendSecretMessage, Start
  <2>2. QED
    BY <1>2, <2>1 DEF Accepts
<1>6. CurrentAtCreator(d) /\ CurrentAtOther(d)
  BY <1>1 DEF KeysInv, Unmerged
<1> HIDE DEF d
<1>7. CASE t.by = d.by
  <2>1. p.to = d.with /\ Exists(d.by, d)
    BY <1>2, <1>4, <1>7 DEF Peer, Exists
  <2>2. Exists(d.with, d) => p.key = {Key(d.by), Key(d.with)}
    BY <1>2, <1>4, <1>6, <1>7 DEF CurrentAtOther
  <2>3. status'[d.with][d] = "active" => secret'[d.with][d] = p.key
    BY <1>3, <1>6, <2>1, <2>2 DEF CurrentAtCreator, Exists
  <2>4. Exists(d.with, d)' => \A q \in calls' :
          Accepts(q, d) => p.key = {Key(d.with)'} \cup q.other
    BY <1>3, <1>5, <1>6, <2>1, <2>2 DEF CurrentAtCreator, Exists, Key
  <2>5. QED
    BY <1>1, <1>2, <1>7, <2>1, <2>3, <2>4 DEF Fits, d
<1>8. CASE t.by = d.with
  <2>1. p.to = d.by /\ Exists(d.with, d)
    BY <1>1, <1>2, <1>4, <1>8 DEF Peer, Exists
  <2>2. Exists(d.by, d) => p.key = {Key(d.by), Key(d.with)}
    BY <1>2, <1>4, <1>6, <1>8 DEF CurrentAtCreator
  <2>3. status'[d.by][d] = "active" => secret'[d.by][d] = p.key
    BY <1>3, <1>6, <2>1, <2>2 DEF CurrentAtOther, Exists
  <2>4. Exists(d.by, d)' => \A q \in calls' :
          Accepts(q, d) /\ q.stage \in {"posted", "orphan"}
            => p.key = {Key(d.by)'} \cup q.packet.key
    BY <1>3, <1>5, <1>6, <2>1, <2>2
    DEF CurrentAtOther, Exists, Key, Carries, Accepts, OfHandshake
  <2>5. Exists(d.by, d)' => \A a \in mailbox' :
          a.kind = "ACCEPT" /\ a.chat = d => p.key = {Key(d.by)'} \cup a.key
    BY <1>3, <1>6, <2>1, <2>2 DEF CurrentAtOther, Exists, Key
  <2>6. QED
    BY <1>1, <1>2, <1>8, <2>1, <2>3, <2>4, <2>5 DEF Fits, d
<1>9. QED
  BY <1>1, <1>2, <1>7, <1>8 DEF d

(* A message under way goes on to fit, whatever becomes of the two rows.   *)
LEMMA FitsOn ==
  ASSUME KeysInv, [Next]_vars, NEW p, p.chat \in Chats, p.chat \notin merged', Fits(p),
         ~Early(p.chat)
  PROVE  Fits(p)'
<1> DEFINE d == p.chat  v == p.to
<1>0. TypeOK /\ BetweenPairs
  BY DEF KeysInv
<1>1. /\ d \in Chats /\ v \in {d.by, d.with} /\ v \in Users /\ d.by # d.with
  BY ChatTypes DEF Fits, Peer
<1>2. CallsFollow(d) /\ MailFollows(d)
  BY LateMoves
<1>3. d \notin merged
  BY PastGrows
<1>4. ASSUME NEW q \in calls', Accepts(q, d)
      PROVE  \E r \in calls : /\ Accepts(r, d) /\ q.other = r.other /\ q.packet = r.packet
                              /\ q.stage \in {"posted", "orphan"} => r.stage \in {"posted", "orphan"}
  BY <1>2, <1>4 DEF CallsFollow, Origin, Accepts, OfHandshake
<1>5. ASSUME NEW a \in mailbox', a.kind = "ACCEPT", a.chat = d
      PROVE  \/ a \in mailbox
             \/ \E q \in calls : /\ Accepts(q, d) /\ q.stage \in {"posted", "orphan"}
                                 /\ a = q.packet
  BY <1>2, <1>5 DEF MailFollows, OfHandshake, Accepts, Carries
<1>6. CASE RowGoes(v, d)
  <2>1. status'[v][d] = "none"
    BY <1>6 DEF RowGoes
  <2>2. QED
    BY <2>1 DEF Fits, Exists
<1>7. CASE /\ status[v][d] # "none" /\ identity'[v] = identity[v]
           /\ status'[v][d] = "active" => secret'[v][d] = p.key
  <2>1. v = d.with /\ Exists(d.with, d)' => \A q \in calls' :
          Accepts(q, d) => p.key = {Key(d.with)'} \cup q.other
    BY <1>4, <1>7 DEF Fits, Exists, Key
  <2>2. v = d.by /\ Exists(d.by, d)' => \A q \in calls' :
          Accepts(q, d) /\ q.stage \in {"posted", "orphan"}
            => p.key = {Key(d.by)'} \cup q.packet.key
    BY <1>4, <1>7 DEF Fits, Exists, Key
  <2>3. v = d.by /\ Exists(d.by, d)' => \A a \in mailbox' :
          a.kind = "ACCEPT" /\ a.chat = d => p.key = {Key(d.by)'} \cup a.key
    BY <1>5, <1>7 DEF Fits, Exists, Key
  <2>4. QED
    BY <1>7, <2>1, <2>2, <2>3 DEF Fits
<1>8. CASE RowStays(v, d)
  <2>1. CASE status'[v][d] = "none"
    BY <2>1 DEF Fits, Exists
  <2>2. CASE status'[v][d] # "none"
    BY <1>7, <1>8, <2>2 DEF RowStays, Fits
  <2>3. QED
    BY <2>1, <2>2
<1>9. CASE RowActivated(v, d)
  <2>1. ASSUME NEW q \in calls, q.packet.from = v, Accepts(q, d),
               secret'[v][d] = {Key(v)} \cup q.other
        PROVE  secret'[v][d] = p.key
    <3>1. v = d.with
      BY <1>0, <1>3, <2>1 DEF BetweenPairs, Routed, Handshakes, Accepts
    <3>2. QED
      BY <1>9, <2>1, <3>1 DEF RowActivated, Fits
  <2>2. ASSUME NEW a \in mailbox, a.to = v, a.chat = d, ReceiveAccept(a),
               secret'[v][d] = {Key(v)} \cup a.key
        PROVE  secret'[v][d] = p.key
    <3>1. a.kind = "ACCEPT"
      BY <2>2 DEF ReceiveAccept
    <3>2. v = d.by
      BY <1>0, <1>3, <1>1, <2>2, <3>1 DEF BetweenPairs, Routed, Handshakes, Peer
    <3>3. QED
      BY <1>9, <2>2, <3>1, <3>2 DEF RowActivated, Fits
  <2>3. status[v][d] # "none" /\ identity'[v] = identity[v] /\ secret'[v][d] = p.key
    BY <1>9, <2>1, <2>2 DEF RowActivated, Exists
  <2>4. QED
    BY <1>7, <2>3
<1>10. CASE RowAppears(v, d)
  <2>1. PICK q \in calls : q.packet.chat = d /\ CheckAnswered(q)
    BY <1>10 DEF RowAppears
  <2>2. Early(d)
    BY <1>0, <2>1 DEF CheckAnswered, Early, BetweenPairs, Carries, OfHandshake
  <2>3. QED
    BY <2>2
<1> HIDE DEF d, v
<1>11. RowStays(v, d) \/ RowGoes(v, d) \/ RowActivated(v, d) \/ RowAppears(v, d)
  BY <1>0, <1>1, RowSteps
<1>12. QED
  BY <1>6, <1>8, <1>9, <1>10, <1>11

LEMMA MessagesInit == Init => MessagesInv
  BY DEF Init, MessagesInv, Sent, Underway

LEMMA MessagesStep ==
  ASSUME KeysInv, MessagesInv, [Next]_vars
  PROVE  MessagesInv'
<1>0. TypeOK /\ BetweenPairs /\ SecretsOfActive /\ merged \subseteq merged'
  BY PastGrows DEF KeysInv, MessagesInv, SecretsOfActive
<1>1. SecretsOfActive'
  BY <1>0, SecretsStep
<1>2. ASSUME NEW p \in Sent'
      PROVE  OfOneMessage(p)' /\ (p.chat \notin merged' => Fits(p)')
  <2>1. CASE p \in Sent
    <3>1. PICK t \in Texts \cap used : p.texts = {t} /\ p.from = t.by /\ p.chat = t.chat
      BY <2>1 DEF MessagesInv, OfOneMessage
    <3>2. t \in used'
      BY <3>1, UsedSteps
    <3>3. OfOneMessage(p)'
      BY <3>1, <3>2 DEF OfOneMessage
    <3>4. ASSUME p.chat \notin merged' PROVE Fits(p)'
      <4>1. p.chat \in Chats /\ p.chat \notin merged
        BY <1>0, <3>1, <3>4, ChatTypes
      <4>2. Fits(p) /\ ~Early(p.chat)
        BY <2>1, <3>1, <4>1 DEF MessagesInv
      <4> QED
        BY <3>4, <4>1, <4>2, FitsOn
    <3> QED
      BY <3>3, <3>4
  <2>2. ASSUME NEW t \in Texts, SendSecretMessage(t),
               p = Outgoing(t.by, "NEW_MESSAGE", t.chat, secret[t.by][t.chat], {t})
        PROVE  OfOneMessage(p)' /\ (p.chat \notin merged' => Fits(p)')
    <3>1. p.texts = {t} /\ p.from = t.by /\ p.chat = t.chat
      BY <2>2 DEF Outgoing
    <3>2. t \in used'
      BY <2>2 DEF SendSecretMessage
    <3>3. OfOneMessage(p)'
      BY <3>1, <3>2 DEF OfOneMessage
    <3>4. p.chat \notin merged' => Fits(p)'
      BY <1>0, <2>2, <3>1, NewFits
    <3> QED
      BY <3>3, <3>4
  <2>3. QED
    BY <1>0, <2>1, <2>2, SentSteps
<1>3. ASSUME NEW u \in Users, NEW t \in saved'[u]
      PROVE  t \in used'
  <2>0. t \in Texts
    BY <1>0, TypeStep DEF TypeOK
  <2>1. CASE t \in saved[u]
    BY <2>1, UsedSteps DEF MessagesInv
  <2>2. CASE SendSecretMessage(t)
    BY <2>2 DEF SendSecretMessage
  <2>3. ASSUME NEW p \in mailbox, p.kind = "NEW_MESSAGE", t \in p.texts
        PROVE  t \in used'
    <3>1. p \in Sent
      BY <2>3 DEF Sent, Underway
    <3>2. QED
      BY <2>3, <3>1, UsedSteps DEF MessagesInv, OfOneMessage
  <2>4. QED
    BY <1>0, <2>0, <2>1, <2>2, <2>3, SavedSteps
<1>4. ASSUME NEW t \in Texts \cap used', t.chat \notin merged'
      PROVE  ~Early(t.chat)'
  <2>0. t.chat \in Unmerged /\ t.by \in Users /\ t \notin Chats
    BY <1>0, <1>4, ChatTypes, ChatsAssumption DEF Unmerged
  <2>1. ~Early(t.chat)
    <3>1. CASE t \in used
      BY <2>0, <3>1 DEF MessagesInv, Unmerged
    <3>2. CASE SendSecretMessage(t)
      <4>1. status[t.by][t.chat] = "active"
        BY <1>0, <2>0, <3>2 DEF SendSecretMessage, SecretsOfActive, Unmerged
      <4>2. QED
        BY <2>0, <4>1, ActiveIsLate
    <3>3. QED
      BY <2>0, <3>1, <3>2, UsedSteps
  <2>2. QED
    BY <1>4, <2>0, <2>1, EarlyPasses DEF Unmerged
<1>5. \A u \in Users : saved'[u] \subseteq used'
  BY <1>3
<1>6. QED
  BY <1>1, <1>2, <1>4, <1>5 DEF MessagesInv, SecretsOfActive

(***************************************************************************)
(* A message under way opens at a peer that holds its chat active,         *)
(* whichever devices were replaced since it was sent, unless the relay has *)
(* mixed the handshake of the chat with another's.                         *)
(***************************************************************************)
THEOREM MessagesReadable == Spec => []Readable
<1>1. MessagesInv => Readable
  BY DEF MessagesInv, Sent, Underway, Fits, Readable
<1>2. Init => KeysInv /\ MessagesInv
  BY KeysInit, MessagesInit
<1>3. KeysInv /\ MessagesInv /\ [Next]_vars => (KeysInv /\ MessagesInv)'
  BY KeysStep, MessagesStep
<1>4. QED
  BY <1>1, <1>2, <1>3, PTL DEF Spec

-----------------------------------------------------------------------------
(* What the sender of a message keeps *)

(* Only a request that is refused, or whose reply is lost, ends in error. *)
LEMMA ErrorsAreFaults ==
  ASSUME TypeOK, [Next]_vars, NEW q \in calls', q.stage = "error"
  PROVE  faults' # 0 \/ \E r \in calls : r.stage = "error"
<1> DEFINE Result == faults' # 0 \/ \E r \in calls : r.stage = "error"
<1>1. ASSUME q \in calls PROVE Result
  BY <1>1
<1>2. ASSUME Fault PROVE Result
  BY <1>2 DEF Fault, TypeOK
<1>3. ASSUME NEW stage, NEW other, NEW p, Start(stage, other, p), stage # "error"
      PROVE  Result
  BY <1>1, <1>3 DEF Start
<1>4. ASSUME NEW u \in Users, UserActs(u) PROVE Result
  <2>1. CASE Restart(u) \/ NewDevice(u)
    <3>1. q \in calls \/ \E r \in calls : q = [r EXCEPT !.stage = "orphan"]
      BY <2>1 DEF Restart, NewDevice, Stop, Forget
    <3>2. QED
      BY <1>1, <3>1 DEF TypeOK, Call
  <2>2. ASSUME NEW t \in Texts, SendSecretMessage(t) PROVE Result
    BY <1>3, <2>2 DEF SendSecretMessage
  <2>3. ASSUME NEW c \in Chats, CreateSecretChatRequest(c) PROVE Result
    BY <1>3, <2>3 DEF CreateSecretChatRequest
  <2>4. ASSUME NEW c \in Chats, MarkChatAsRead(u, c) \/ DeleteSecretChat(u, c) PROVE Result
    BY <1>3, <2>4 DEF MarkChatAsRead, DeleteSecretChat
  <2>5. QED
    BY <1>4, <2>1, <2>2, <2>3, <2>4 DEF UserActs
<1>5. ASSUME NEW r \in calls, Callback(r) PROVE Result
  <2>0. r \in Call /\ r.packet \in Packet
    BY DEF TypeOK, Call
  <2>1. q \in calls \/ q.stage = "posted"
    BY <1>5, <2>0 DEF Callback, CheckAnswered, CheckFails, UploadEnds, UploadStalls,
       HandshakeAnswered, MessageAnswered, InfoAnswered, Finish, Advance, Call, Packet
  <2>2. QED
    BY <1>1, <2>1
<1>6. ASSUME NEW r \in calls, Serve(r) PROVE Result
  <2>1. CASE Taken(r)
    <3>1. q \in calls \/ q.stage = "ok"
      BY <2>1 DEF Taken, Replied, TypeOK, Call
    <3>2. QED
      BY <1>1, <3>1
  <2>2. QED
    BY <1>2, <1>6, <2>1 DEF Serve, TakenUnheard, Refused
<1>7. ASSUME NEW p \in mailbox, Receive(p) \/ PacketLost(p) PROVE Result
  <2>1. CASE ReceiveRequest(p)
    BY <1>3, <2>1 DEF ReceiveRequest
  <2>2. CASE UNCHANGED calls
    BY <1>1, <2>2
  <2>3. QED
    BY <1>7, <2>1, <2>2
    DEF Receive, ReceiveAccept, ReceiveMessage, ReceiveRead, ReceiveDelete, PacketLost
<1>8. ASSUME UNCHANGED vars PROVE Result
  BY <1>1, <1>8 DEF vars
<1> HIDE DEF Result
<1>9. Result
  BY <1>4, <1>5, <1>6, <1>7, <1>8 DEF Next
<1>10. QED
  BY <1>9 DEF Result

(* Faults are counted, and never forgotten. *)
LEMMA FaultsGrow ==
  ASSUME TypeOK, [Next]_vars, faults' = 0
  PROVE  faults = 0
<1>1. faults' = faults \/ Fault
  BY DEF Next, UserActs, CreateSecretChatRequest, SendSecretMessage, MarkChatAsRead,
     DeleteSecretChat, Restart, NewDevice, Stop, Callback, CheckAnswered, CheckFails,
     UploadEnds, UploadStalls, HandshakeAnswered, MessageAnswered, InfoAnswered, Serve,
     Taken, TakenUnheard, Refused, Receive, ReceiveRequest, ReceiveAccept,
     ReceiveMessage, ReceiveRead, ReceiveDelete, PacketLost, vars, counters
<1>2. QED
  BY <1>1 DEF Fault, TypeOK

(* A message has one call.                                                 *)
OneCall(t) == \A q, r \in calls : Holds(q.packet, t) /\ Holds(r.packet, t) => q = r

LEMMA TextCalls ==
  ASSUME TypeOK, BetweenPairs, [Next]_vars, NEW t \in Texts, OneCall(t),
         ~SendSecretMessage(t)
  PROVE  /\ OneCall(t)'
         /\ \A q \in calls' : Holds(q.packet, t) =>
              \E r \in calls : Holds(r.packet, t) /\ (q.stage # "ok" => r.stage # "ok")
<1> DEFINE Result ==
      /\ \A q, r \in calls' : Holds(q.packet, t) /\ Holds(r.packet, t) => q = r
      /\ \A q \in calls' : Holds(q.packet, t) =>
           \E r \in calls : Holds(r.packet, t) /\ (q.stage # "ok" => r.stage # "ok")
<1>1. ASSUME calls' \subseteq calls PROVE Result
  BY <1>1 DEF OneCall
<1>2. ASSUME NEW stage, NEW other, NEW p, Start(stage, other, p), ~Holds(p, t)
      PROVE  Result
  BY <1>2 DEF Start, OneCall
<1>3. ASSUME NEW q \in calls, NEW next, calls' \subseteq (calls \ {q}) \cup {next},
             Holds(next.packet, t) => next.packet = q.packet, q.stage # "ok"
      PROVE  Result
  BY <1>3 DEF OneCall
<1>4. ASSUME NEW u \in Users, UserActs(u) PROVE Result
  <2>1. CASE Restart(u) \/ NewDevice(u)
    <3> DEFINE Left(q) == q.packet.from # u \/ q.stage = "orphan"
               Orphaned(q, r) == /\ r.packet.from = u /\ r.stage = "posted"
                                 /\ q = [r EXCEPT !.stage = "orphan"]
               From(q, r) == (q = r /\ Left(r)) \/ Orphaned(q, r)
    <3>1. \A q \in calls' : \E r \in calls : From(q, r)
      BY <2>1 DEF Restart, NewDevice, Stop, Forget
    <3>2. ASSUME NEW q \in calls', NEW r \in calls, From(q, r)
          PROVE  q.packet = r.packet /\ (q.stage # "ok" => r.stage # "ok")
      BY <3>2 DEF TypeOK, Call
    <3>3. \A q, x, r : From(q, r) /\ From(x, r) => q = x
      OBVIOUS
    <3> HIDE DEF From
    <3>4. ASSUME NEW q \in calls', NEW x \in calls', Holds(q.packet, t), Holds(x.packet, t)
          PROVE  q = x
      <4>1. PICK r \in calls : From(q, r)
        BY <3>1
      <4>2. PICK y \in calls : From(x, y)
        BY <3>1
      <4>3. r = y
        BY <3>2, <3>4, <4>1, <4>2 DEF OneCall
      <4> QED
        BY <3>3, <4>1, <4>2, <4>3
    <3> QED
      BY <3>1, <3>2, <3>4
  <2>2. ASSUME NEW x \in Texts, SendSecretMessage(x) PROVE Result
    <3>1. ~Holds(Outgoing(x.by, "NEW_MESSAGE", x.chat, secret[x.by][x.chat], {x}), t)
      BY <2>2 DEF Holds, Outgoing
    <3> QED
      BY <1>2, <2>2, <3>1 DEF SendSecretMessage
  <2>3. \A kind \in Kinds : kind # "NEW_MESSAGE" =>
          \A v, c, key, texts : ~Holds(Outgoing(v, kind, c, key, texts), t)
    BY DEF Holds, Outgoing
  <2>4. ASSUME NEW c \in Chats, CreateSecretChatRequest(c) PROVE Result
    BY <1>2, <2>3, <2>4 DEF CreateSecretChatRequest, Kinds
  <2>5. ASSUME NEW c \in Chats, MarkChatAsRead(u, c) PROVE Result
    <3>1. PICK texts : Start("posted", {}, Outgoing(u, "READ", c, secret[u][c], texts))
      BY <2>5 DEF MarkChatAsRead
    <3>2. ~Holds(Outgoing(u, "READ", c, secret[u][c], texts), t)
      BY <2>3 DEF Kinds
    <3> QED
      BY <1>2, <3>1, <3>2
  <2>6. ASSUME NEW c \in Chats, DeleteSecretChat(u, c) PROVE Result
    BY <1>2, <2>3, <2>6 DEF DeleteSecretChat, Kinds
  <2> QED
    BY <1>4, <2>1, <2>2, <2>4, <2>5, <2>6 DEF UserActs
<1>5. ASSUME NEW q \in calls, Callback(q) PROVE Result
  <2>0. q \in Call /\ q.packet \in Packet
    BY DEF TypeOK, Call
  <2>1. CASE CheckAnswered(q)
    <3> DEFINE next == [q EXCEPT !.stage = "posted", !.packet.key = {Key(q.packet.from)}]
    <3>1. q.stage = "check" /\ q.packet.kind # "NEW_MESSAGE"
      BY <2>1 DEF CheckAnswered, BetweenPairs
    <3>2. next.packet.kind = q.packet.kind
      BY <2>0 DEF Call, Packet
    <3>3. calls' = (calls \ {q}) \cup {next}
      BY <2>1 DEF CheckAnswered, Advance
    <3> HIDE DEF next
    <3> QED
      BY <1>3, <3>1, <3>2, <3>3 DEF Holds
  <2>2. CASE UploadEnds(q) /\ ~Finish(q)
    <3>1. q.stage = "upload" /\ calls' = (calls \ {q}) \cup {[q EXCEPT !.stage = "posted"]}
      BY <2>2 DEF UploadEnds, Advance
    <3>2. [q EXCEPT !.stage = "posted"].packet = q.packet
      BY <2>0 DEF Call
    <3> QED
      BY <1>3, <3>1, <3>2
  <2>3. CASE Finish(q)
    BY <1>1, <2>3 DEF Finish
  <2> QED
    BY <1>5, <2>1, <2>2, <2>3 DEF Callback, CheckFails, UploadStalls, HandshakeAnswered,
       MessageAnswered, InfoAnswered
<1>6. ASSUME NEW q \in calls, Serve(q) PROVE Result
  <2>0. q \in Call
    BY DEF TypeOK
  <2>1. PICK answer : calls' \subseteq (calls \ {q}) \cup {[q EXCEPT !.stage = answer]}
    BY <1>6 DEF Serve, Taken, TakenUnheard, Refused, Replied
  <2>2. q.stage # "ok" /\ [q EXCEPT !.stage = answer].packet = q.packet
    BY <1>6, <2>0 DEF Serve, Taken, TakenUnheard, Refused, Call
  <2> QED
    BY <1>3, <2>1, <2>2
<1>7. ASSUME NEW p \in mailbox, Receive(p) \/ PacketLost(p) PROVE Result
  <2>1. CASE ReceiveRequest(p)
    <3>1. ~Holds(Outgoing(p.to, "ACCEPT", p.chat, {}, {}), t)
      BY DEF Holds, Outgoing
    <3> QED
      BY <1>2, <2>1, <3>1 DEF ReceiveRequest
  <2>2. CASE UNCHANGED calls
    BY <1>1, <2>2
  <2> QED
    BY <1>7, <2>1, <2>2
    DEF Receive, ReceiveAccept, ReceiveMessage, ReceiveRead, ReceiveDelete, PacketLost
<1>8. ASSUME UNCHANGED vars PROVE Result
  BY <1>1, <1>8 DEF vars
<1> HIDE DEF Result
<1>9. Result
  BY <1>4, <1>5, <1>6, <1>7, <1>8 DEF Next
<1> QED
  BY <1>9 DEF Result, OneCall

(* Nobody but its sender has a message before the relay has taken it in.   *)
LEMMA UnsentOn ==
  ASSUME TypeOK, [Next]_vars, NEW t \in Texts, Unsent(t)
  PROVE  \/ Unsent(t)'
         \/ \E q \in calls : Holds(q.packet, t) /\ (Taken(q) \/ TakenUnheard(q))
<1> SUFFICES ASSUME ~\E q \in calls : Holds(q.packet, t) /\ (Taken(q) \/ TakenUnheard(q))
             PROVE  Unsent(t)'
  OBVIOUS
<1>1. ASSUME NEW p \in mailbox', Holds(p, t)
      PROVE  FALSE
  <2>1. p \notin mailbox /\ p.kind \notin Handshakes
    BY <1>1 DEF Unsent, Holds, Handshakes
  <2>2. PICK q \in calls : Serve(q) /\ p = q.packet
    BY <2>1, MailComesFromCalls
  <2>3. Refused(q)
    BY <1>1, <2>2 DEF Serve
  <2> QED
    BY <1>1, <2>1, <2>3 DEF Refused
<1>2. ASSUME NEW u \in Users, t \in saved'[u]
      PROVE  u = t.by
  BY <1>2, SavedSteps DEF Unsent, Holds
<1> QED
  BY <1>1, <1>2 DEF Unsent

(* A message that is just being written is nobody's yet.                   *)
LEMMA NewIsUnsent ==
  ASSUME TypeOK, MessagesInv, NEW t \in Texts, t \notin used
  PROVE  Unsent(t) /\ \A q \in calls : ~Holds(q.packet, t)
<1>1. \A p \in Underway : ~Holds(p, t)
  BY DEF MessagesInv, Sent, Holds, OfOneMessage
<1> QED
  BY <1>1 DEF Unsent, Underway, MessagesInv

LEMMA KeepingStep ==
  ASSUME KeysInv, MessagesInv, SendersKeep, [Next]_vars
  PROVE  SendersKeep'
<1>0. /\ TypeOK /\ BetweenPairs /\ SecretsOfActive
      /\ merged \subseteq merged' /\ unheard \subseteq unheard'
  BY PastGrows DEF KeysInv, MessagesInv, SecretsOfActive
<1> DEFINE Pending(t) == \A q \in calls' : Holds(q.packet, t) /\ q.stage # "ok" => Unsent(t)'
           Result(t) == /\ OneCall(t)'
                        /\ t \notin unheard' =>
                             /\ Pending(t)
                             /\ t \in used' /\ t.chat \notin merged' => Kept(t)'
<1>1. ASSUME NEW t \in Texts, SendSecretMessage(t) PROVE Result(t)
  <2>0. t.by \in Users /\ t.chat \in Chats
    BY ChatTypes
  <2>1. Unsent(t) /\ \A q \in calls : ~Holds(q.packet, t)
    BY <1>0, <1>1, NewIsUnsent DEF SendSecretMessage
  <2>2. Unsent(t)'
    BY <1>0, <2>1, UnsentOn
  <2>3. OneCall(t)'
    BY <1>1, <2>1 DEF SendSecretMessage, Start, OneCall
  <2>4. Exists(t.by, t.chat)
    BY <1>0, <1>1, <2>0 DEF SendSecretMessage, SecretsOfActive, Exists
  <2>5. t \in saved'[t.by]
    BY <1>0, <1>1, <2>0, <2>4 DEF SendSecretMessage, SaveMessage, TypeOK
  <2> QED
    BY <2>2, <2>3, <2>5 DEF Kept
<1>2. ASSUME NEW t \in Texts, ~SendSecretMessage(t) PROVE Result(t)
  <2>0. t.by \in Users /\ t.chat \in Chats /\ t \notin Chats
    BY ChatTypes, ChatsAssumption
  <2>1. OneCall(t)
    BY DEF SendersKeep, OneCall
  <2>2. /\ OneCall(t)'
        /\ \A q \in calls' : Holds(q.packet, t) =>
             \E r \in calls : Holds(r.packet, t) /\ (q.stage # "ok" => r.stage # "ok")
    BY <1>0, <1>2, <2>1, TextCalls
  <2>3. ASSUME t \notin unheard', NEW q \in calls, Holds(q.packet, t) PROVE ~TakenUnheard(q)
    BY <2>3 DEF TakenUnheard, Holds
  <2>4. ASSUME t \notin unheard' PROVE Pending(t)
    <3> SUFFICES ASSUME NEW q \in calls', Holds(q.packet, t), q.stage # "ok"
                 PROVE  Unsent(t)'
      OBVIOUS
    <3>1. PICK r \in calls : Holds(r.packet, t) /\ r.stage # "ok"
      BY <2>2
    <3>2. Unsent(t)
      BY <1>0, <2>4, <3>1 DEF SendersKeep
    <3>3. ASSUME NEW x \in calls, Holds(x.packet, t), Taken(x) PROVE FALSE
      <4>1. \A y \in calls' : y \in calls \ {x} \/ y.stage = "ok"
        BY <1>0, <3>3 DEF Taken, Replied, TypeOK, Call
      <4> QED
        BY <2>1, <3>3, <4>1 DEF OneCall
    <3> QED
      BY <1>0, <2>3, <2>4, <3>2, <3>3, UnsentOn
  <2>5. ASSUME t \notin unheard', t \in used', t.chat \notin merged' PROVE Kept(t)'
    <3>0. t \in used /\ t.chat \in Unmerged /\ Kept(t)
      BY <1>0, <1>2, <2>0, <2>5, UsedSteps DEF SendersKeep, Unmerged
    <3>1. CASE t \in saved[t.by]
      <4>1. ASSUME NEW q \in calls, q.stage = "error", Holds(q.packet, t), MessageAnswered(q)
            PROVE  Kept(t)'
        <5>1. Unsent(t)
          BY <1>0, <2>5, <4>1 DEF SendersKeep
        <5>2. ASSUME NEW x \in calls, Holds(x.packet, t) PROVE ~Taken(x) /\ ~TakenUnheard(x)
          BY <2>1, <4>1, <5>2 DEF OneCall, Taken, TakenUnheard
        <5>3. Unsent(t)'
          BY <1>0, <5>1, <5>2, UnsentOn
        <5>4. \A x \in calls' : ~Holds(x.packet, t)
          BY <2>1, <4>1 DEF OneCall, MessageAnswered, Finish
        <5> QED
          BY <5>3, <5>4 DEF Kept
      <4> QED
        BY <1>0, <2>0, <3>1, <4>1, SavedSteps DEF Kept, Exists
    <3>2. CASE ~Exists(t.by, t.chat)
      <4>1. ~Early(t.chat)
        BY <3>0 DEF MessagesInv, Unmerged
      <4>2. ~RowAppears(t.by, t.chat)
        BY <1>0, <4>1 DEF RowAppears, CheckAnswered, Early, BetweenPairs, Carries, OfHandshake
      <4>3. status'[t.by][t.chat] = "none"
        BY <1>0, <2>0, <3>2, <4>2, RowSteps DEF RowStays, RowGoes, RowActivated, Exists
      <4> QED
        BY <4>3 DEF Kept, Exists
    <3>3. CASE Unsent(t) /\ \A q \in calls : ~Holds(q.packet, t)
      BY <1>0, <2>2, <3>3, UnsentOn DEF Kept
    <3> QED
      BY <3>0, <3>1, <3>2, <3>3 DEF Kept
  <2> QED
    BY <2>2, <2>4, <2>5
<1> HIDE DEF Result
<1>3. \A t \in Texts : Result(t)
  BY <1>1, <1>2
<1> QED
  BY <1>3 DEF Result, SendersKeep, OneCall

(***************************************************************************)
(* A message that anybody holds is held by its sender too, unless he has   *)
(* dropped the chat, or the relay took the message in and its reply was    *)
(* lost: whichever calls were refused, packets lost, clients restarted or  *)
(* devices replaced.  The handshakes of chats the relay mixed excepted.    *)
(***************************************************************************)
THEOREM NoGhostMessages == Spec => []NoGhost
<1>1. TypeOK /\ MessagesInv /\ SendersKeep => NoGhost
  BY ChatTypes DEF TypeOK, MessagesInv, SendersKeep, Kept, Unsent, NoGhost
<1>2. Init => KeysInv /\ MessagesInv /\ SendersKeep
  <2>1. Init => SendersKeep
    BY DEF Init, SendersKeep
  <2>2. QED
    BY <2>1, KeysInit, MessagesInit
<1>3. KeysInv /\ MessagesInv /\ SendersKeep /\ [Next]_vars
        => (KeysInv /\ MessagesInv /\ SendersKeep)'
  BY KeysStep, MessagesStep, KeepingStep
<1>4. KeysInv => TypeOK
  BY DEF KeysInv
<1>5. QED
  BY <1>1, <1>2, <1>3, <1>4, PTL DEF Spec

-----------------------------------------------------------------------------
(* Invitations *)

(* Calls that look up a peer are new ones. *)
LEMMA ChecksAreNew ==
  ASSUME TypeOK, [Next]_vars, NEW q \in calls', q.stage = "check"
  PROVE  \/ q \in calls
         \/ q.packet.kind = "ACCEPT"
         \/ q.packet.chat \in Chats /\ CreateSecretChatRequest(q.packet.chat)
<1> DEFINE Result == \/ q \in calls
                     \/ q.packet.kind = "ACCEPT"
                     \/ q.packet.chat \in Chats /\ CreateSecretChatRequest(q.packet.chat)
<1>1. ASSUME q \in calls PROVE Result
  BY <1>1
<1>2. ASSUME NEW stage, NEW other, NEW p, Start(stage, other, p), stage # "check"
      PROVE  Result
  BY <1>1, <1>2 DEF Start
<1>3. ASSUME NEW u \in Users, UserActs(u) PROVE Result
  <2>1. CASE Restart(u) \/ NewDevice(u)
    <3>1. q \in calls \/ \E r \in calls : q = [r EXCEPT !.stage = "orphan"]
      BY <2>1 DEF Restart, NewDevice, Stop, Forget
    <3>2. QED
      BY <1>1, <3>1 DEF TypeOK, Call
  <2>2. ASSUME NEW t \in Texts, SendSecretMessage(t) PROVE Result
    BY <1>2, <2>2 DEF SendSecretMessage
  <2>3. ASSUME NEW c \in Chats, CreateSecretChatRequest(c) PROVE Result
    <3>1. q \in calls \/ q.packet.chat = c
      BY <2>3 DEF CreateSecretChatRequest, Start, Outgoing
    <3>2. QED
      BY <1>1, <2>3, <3>1
  <2>4. ASSUME NEW c \in Chats, MarkChatAsRead(u, c) \/ DeleteSecretChat(u, c) PROVE Result
    BY <1>2, <2>4 DEF MarkChatAsRead, DeleteSecretChat
  <2>5. QED
    BY <1>3, <2>1, <2>2, <2>3, <2>4 DEF UserActs
<1>4. ASSUME NEW r \in calls, Callback(r) PROVE Result
  <2>0. r \in Call /\ r.packet \in Packet
    BY DEF TypeOK, Call
  <2>1. q \in calls \/ q.stage = "posted"
    BY <1>4, <2>0 DEF Callback, CheckAnswered, CheckFails, UploadEnds, UploadStalls,
       HandshakeAnswered, MessageAnswered, InfoAnswered, Finish, Advance, Call, Packet
  <2>2. QED
    BY <1>1, <2>1
<1>5. ASSUME NEW r \in calls, Serve(r) PROVE Result
  <2>1. q \in calls \/ q.stage \in {"ok", "error"}
    BY <1>5 DEF Serve, Taken, TakenUnheard, Refused, Replied, TypeOK, Call
  <2>2. QED
    BY <1>1, <2>1
<1>6. ASSUME NEW p \in mailbox, Receive(p) \/ PacketLost(p) PROVE Result
  <2>1. CASE ReceiveRequest(p)
    BY <1>1, <2>1 DEF ReceiveRequest, Start, Outgoing
  <2>2. CASE UNCHANGED calls
    BY <1>1, <2>2
  <2>3. QED
    BY <1>6, <2>1, <2>2
    DEF Receive, ReceiveAccept, ReceiveMessage, ReceiveRead, ReceiveDelete, PacketLost
<1>7. ASSUME UNCHANGED vars PROVE Result
  BY <1>1, <1>7 DEF vars
<1> HIDE DEF Result
<1>8. Result
  BY <1>3, <1>4, <1>5, <1>6, <1>7 DEF Next
<1>9. QED
  BY <1>8 DEF Result

(* The creator deletes a chat that has a row, and it has none then.        *)
LEMMA DeletionsAreNew ==
  ASSUME TypeOK, BetweenPairs, [Next]_vars, NEW d \in Chats, NEW u \in Users,
         NEW q \in calls', Deletes(q.packet, d), q.packet.from = u
  PROVE  \/ \E r \in calls : Deletes(r.packet, d) /\ r.packet.from = u
         \/ Exists(u, d) /\ status'[u][d] = "none"
<1>1. ASSUME NEW v \in Users, NEW c \in Chats, DeleteSecretChat(v, c),
             q.packet = Outgoing(v, "DELETE", c, {}, {})
      PROVE  Exists(u, d) /\ status'[u][d] = "none"
  <2>1. v = u /\ c = d
    BY <1>1 DEF Outgoing, Deletes
  <2>2. QED
    BY <1>1, <2>1, StatementRows DEF DeleteSecretChat
<1>2. ASSUME NEW t \in Texts, q.packet = Outgoing(t.by, "NEW_MESSAGE", t.chat,
                                                  secret[t.by][t.chat], {t})
      PROVE  FALSE
  BY <1>2 DEF Outgoing, Deletes
<1>3. q.packet.kind = "DELETE"
  BY DEF Deletes
<1>4. QED
  BY <1>1, <1>2, <1>3, CallsKeepPackets

LEMMA CreatedOnceStep ==
  ASSUME KeysInv, [Next]_vars, NEW d \in Unmerged, CreatedOnce(d)
  PROVE  CreatedOnce(d)'
<1> DEFINE Deleted == \E q \in calls : Deletes(q.packet, d) /\ q.packet.from = d.by
           DeletedNext == \E q \in calls' : Deletes(q.packet, d) /\ q.packet.from = d.by
<1> USE DEF Unmerged
<1>0. /\ TypeOK /\ BetweenPairs /\ OneCarrier(d)
      /\ d.by \in Users /\ d.with \in Users /\ d.by # d.with
  BY ChatTypes DEF KeysInv, Unmerged
<1>1. /\ Exists(d.by, d) => d \in used /\ ~Deleted
      /\ Deleted => d \in used
      /\ \A q \in calls : Carries(q, d) /\ q.stage = "check" /\ ~Accepts(q, d)
           => ~Exists(d.by, d) /\ ~Deleted
  BY DEF CreatedOnce
<1>2. DeletedNext => Deleted \/ (Exists(d.by, d) /\ status'[d.by][d] = "none")
  BY <1>0, DeletionsAreNew
<1>3. d \in used => d \in used'
  BY UsedSteps
<1>4. ASSUME RowAppears(d.by, d)
      PROVE  \E q \in calls : /\ Carries(q, d) /\ q.stage = "check" /\ ~Accepts(q, d)
                              /\ q \notin calls'
  <2>1. PICK q \in calls : /\ q.packet.from = d.by /\ q.packet.chat = d
                           /\ CheckAnswered(q)
    BY <1>4 DEF RowAppears
  <2>2. /\ q.stage = "check" /\ q.packet.kind = "REQUEST"
        /\ Carries(q, d) /\ ~Accepts(q, d)
    BY <1>0, <2>1 DEF CheckAnswered, BetweenPairs, Routed, Handshakes, Carries,
       OfHandshake, Accepts
  <2>3. q \notin calls'
    BY <1>0, <2>1, <2>2 DEF CheckAnswered, Advance, TypeOK, Call, Packet
  <2>4. QED
    BY <2>2, <2>3
<1>5. ASSUME status'[d.by][d] # "none"
      PROVE  d \in used' /\ ~DeletedNext
  <2>1. CASE Exists(d.by, d)
    BY <1>1, <1>2, <1>3, <1>5, <2>1
  <2>2. CASE ~Exists(d.by, d)
    <3>1. RowAppears(d.by, d)
      BY <1>0, <1>5, <2>2, RowSteps DEF RowStays, RowGoes, RowActivated, Exists
    <3>2. d \in used
      BY <1>0, <1>4, <3>1 DEF OneCarrier, Carries
    <3>3. QED
      BY <1>1, <1>2, <1>3, <1>4, <2>2, <3>1, <3>2
  <2>3. QED
    BY <2>1, <2>2
<1>6. DeletedNext => d \in used'
  BY <1>1, <1>2, <1>3
<1>7. ASSUME NEW q \in calls', Carries(q, d), q.stage = "check", ~Accepts(q, d)
      PROVE  status'[d.by][d] = "none" /\ ~DeletedNext
  <2>0. q.packet.kind = "REQUEST" /\ q.packet.chat = d
    BY <1>7 DEF Carries, OfHandshake, Accepts
  <2>1. ~Exists(d.by, d) /\ ~Deleted
    <3>1. CASE q \in calls
      BY <1>1, <1>7, <3>1
    <3>2. CASE CreateSecretChatRequest(d)
      BY <1>1, <3>2 DEF CreateSecretChatRequest
    <3>3. QED
      BY <1>0, <1>7, <2>0, <3>1, <3>2, ChecksAreNew
  <2>2. ~RowAppears(d.by, d)
    <3>1. SUFFICES ASSUME RowAppears(d.by, d)
                   PROVE  FALSE
      OBVIOUS
    <3>2. PICK r \in calls : Carries(r, d) /\ r \notin calls' /\ r.stage = "check"
      BY <1>4, <3>1
    <3>3. q \in calls
      <4>1. ~CreateSecretChatRequest(d)
        BY <3>1 DEF RowAppears, CreateSecretChatRequest, tables
      <4>2. QED
        BY <1>0, <1>7, <2>0, <4>1, ChecksAreNew
    <3>4. QED
      BY <1>0, <1>7, <3>2, <3>3 DEF OneCarrier
  <2>3. status'[d.by][d] = "none"
    BY <1>0, <2>1, <2>2, RowSteps DEF RowStays, RowGoes, RowActivated, Exists
  <2>4. QED
    BY <1>2, <2>1, <2>3
<1>8. QED
  BY <1>5, <1>6, <1>7 DEF CreatedOnce, Exists, Carries, Accepts, OfHandshake

(* Restarts and faults are counted, and never forgotten. *)
LEMMA RestartsGrow ==
  ASSUME TypeOK, [Next]_vars
  PROVE  restarts' = restarts \/ (restarts' # 0 /\ \E u \in Users : Stop(u))
<1>1. ASSUME NEW u \in Users, UserActs(u)
      PROVE  restarts' = restarts \/ Stop(u)
  BY <1>1 DEF UserActs, CreateSecretChatRequest, SendSecretMessage, MarkChatAsRead,
     DeleteSecretChat, Restart, NewDevice, counters
<1>2. ASSUME ~\E u \in Users : UserActs(u)
      PROVE  restarts' = restarts
  BY <1>2 DEF Next, Callback, CheckAnswered, CheckFails,
     UploadEnds, UploadStalls, HandshakeAnswered, MessageAnswered, InfoAnswered, Serve,
     Taken, TakenUnheard, Refused, Receive, ReceiveRequest, ReceiveAccept,
     ReceiveMessage, ReceiveRead, ReceiveDelete, PacketLost, vars, counters
<1>3. \A u \in Users : Stop(u) => restarts' # 0
  BY DEF Stop, TypeOK
<1>4. QED
  BY <1>1, <1>2, <1>3

(* A step that is neither a fault nor a restart. *)
Smooth == faults' = 0 /\ restarts' = 0

LEMMA SmoothBefore ==
  ASSUME TypeOK, [Next]_vars, Smooth
  PROVE  /\ Undisturbed /\ ~Fault
         /\ \A u \in Users : ~Restart(u) /\ ~NewDevice(u)
<1>1. faults = 0 /\ ~Fault
  BY FaultsGrow DEF Smooth, Fault, TypeOK
<1>2. \A u \in Users : Stop(u) => restarts' # 0
  BY DEF Stop, TypeOK
<1>3. restarts = 0
  BY RestartsGrow DEF Smooth
<1>4. QED
  BY <1>1, <1>2, <1>3 DEF Smooth, Undisturbed, Restart, NewDevice

(* Calls end in their callbacks or at the server. *)
LEMMA CallsEnd ==
  ASSUME TypeOK, [Next]_vars, Smooth, NEW q \in calls, q \notin calls'
  PROVE  \/ CheckAnswered(q) \/ UploadEnds(q) \/ HandshakeAnswered(q)
         \/ MessageAnswered(q) \/ InfoAnswered(q) \/ Taken(q)
<1>1. ASSUME NEW u \in Users, UserActs(u)
      PROVE  q \in calls'
  BY <1>1, SmoothBefore DEF UserActs, CreateSecretChatRequest, SendSecretMessage,
     MarkChatAsRead, DeleteSecretChat, Start
<1>2. ASSUME NEW r \in calls, Callback(r) \/ Serve(r)
      PROVE  r = q
  BY <1>2 DEF Callback, CheckAnswered, CheckFails, UploadEnds, UploadStalls,
     HandshakeAnswered, MessageAnswered, InfoAnswered, Finish, Advance,
     Serve, Taken, TakenUnheard, Refused, Replied
<1>3. ASSUME NEW p \in mailbox, Receive(p) \/ PacketLost(p)
      PROVE  q \in calls'
  BY <1>3 DEF Receive, ReceiveRequest, ReceiveAccept, ReceiveMessage, ReceiveRead,
     ReceiveDelete, PacketLost, Start
<1>4. ~(UNCHANGED vars)
  BY DEF vars
<1>5. Callback(q) \/ Serve(q)
  BY <1>1, <1>2, <1>3, <1>4 DEF Next
<1>6. QED
  BY <1>5, SmoothBefore DEF Callback, Serve, CheckFails, UploadStalls, TakenUnheard, Refused

(* Packets leave the relay for their user, or make room for another. *)
LEMMA MailLeaves ==
  ASSUME TypeOK, [Next]_vars, Smooth, NEW p \in mailbox, p \notin mailbox'
  PROVE  Receive(p) \/ \E q \in calls : Taken(q)
<1>1. ASSUME NEW u \in Users, UserActs(u)
      PROVE  mailbox' = mailbox
  BY <1>1 DEF UserActs, CreateSecretChatRequest, SendSecretMessage, MarkChatAsRead,
     DeleteSecretChat, Restart, NewDevice
<1>2. ASSUME NEW q \in calls, Callback(q)
      PROVE  mailbox' = mailbox
  BY <1>2 DEF Callback, CheckAnswered, CheckFails, UploadEnds, UploadStalls,
     HandshakeAnswered, MessageAnswered, InfoAnswered
<1>3. ASSUME NEW q \in calls, Serve(q)
      PROVE  Taken(q)
  BY <1>3, SmoothBefore DEF Serve, TakenUnheard, Refused
<1>4. ASSUME NEW r \in mailbox, Receive(r) \/ PacketLost(r)
      PROVE  Receive(r) /\ r = p
  BY <1>4, SmoothBefore DEF Receive, ReceiveRequest, ReceiveAccept, ReceiveMessage,
     ReceiveRead, ReceiveDelete, PacketLost, Deliver
<1>5. ~(UNCHANGED vars)
  BY DEF vars
<1>6. QED
  BY <1>1, <1>2, <1>3, <1>4, <1>5 DEF Next

LEMMA NoOrphans ==
  ASSUME TypeOK, [Next]_vars, Smooth, NEW q \in calls', q.stage = "orphan"
  PROVE  \E r \in calls : r.stage = "orphan"
<1>1. CASE q \in calls
  BY <1>1
<1>2. CASE q \notin calls
  <2>1. ASSUME NEW stage, NEW other, NEW p, Start(stage, other, p)
        PROVE  stage = "orphan"
    BY <1>2, <2>1 DEF Start
  <2>2. ASSUME NEW t \in Texts, SendSecretMessage(t) PROVE FALSE
    BY <2>1, <2>2 DEF SendSecretMessage
  <2>3. ASSUME NEW c \in Chats, CreateSecretChatRequest(c) PROVE FALSE
    BY <2>1, <2>3 DEF CreateSecretChatRequest
  <2>4. ASSUME NEW u \in Users, NEW c \in Chats, MarkChatAsRead(u, c) \/ DeleteSecretChat(u, c)
        PROVE FALSE
    BY <2>1, <2>4 DEF MarkChatAsRead, DeleteSecretChat
  <2>5. ASSUME NEW p \in mailbox, Receive(p) \/ PacketLost(p) PROVE FALSE
    <3>1. ~ReceiveRequest(p)
      BY <2>1 DEF ReceiveRequest
    <3>2. UNCHANGED calls
      BY <2>5, <3>1
      DEF Receive, ReceiveAccept, ReceiveMessage, ReceiveRead, ReceiveDelete, PacketLost
    <3>3. QED
      BY <1>2, <3>2
  <2>6. ASSUME NEW r \in calls, Callback(r) PROVE FALSE
    <3>0. r \in Call /\ r.packet \in Packet
      BY DEF TypeOK, Call
    <3>1. q \in calls \/ q.stage = "posted"
      BY <2>6, <3>0 DEF Callback, CheckAnswered, CheckFails, UploadEnds, UploadStalls,
         HandshakeAnswered, MessageAnswered, InfoAnswered, Finish, Advance, Call, Packet
    <3>2. QED
      BY <1>2, <3>1
  <2>7. ASSUME NEW r \in calls, Serve(r) PROVE FALSE
    <3>1. q \in calls \/ q.stage \in {"ok", "error"}
      BY <2>7 DEF Serve, Taken, TakenUnheard, Refused, Replied, TypeOK, Call
    <3>2. QED
      BY <1>2, <3>1
  <2>8. ~(UNCHANGED vars)
    BY <1>2 DEF vars
  <2>9. FALSE
    BY <2>2, <2>3, <2>4, <2>5, <2>6, <2>7, <2>8, SmoothBefore, ChatTypes DEF Next, UserActs
  <2>10. QED
    BY <2>9
<1>3. QED
  BY <1>1, <1>2

(* A row that is pending after a step was before, or a look-up created it. *)
LEMMA PendingBefore ==
  ASSUME TypeOK, [Next]_vars, NEW u \in Users, NEW d \in Chats,
         status'[u][d] = "pending"
  PROVE  \/ status[u][d] = "pending"
         \/ \E q \in calls : q.packet.from = u /\ q.packet.chat = d /\ CheckAnswered(q)
BY RowSteps DEF RowStays, RowGoes, RowActivated, RowAppears

(* A look-up that is answered posts its handshake. *)
LEMMA Posted ==
  ASSUME TypeOK, BetweenPairs, NEW q \in calls, CheckAnswered(q)
  PROVE  \E r \in calls' : /\ r.stage = "posted" /\ Carries(r, q.packet.chat)
                           /\ \A c : Accepts(q, c) => Accepts(r, c)
<1> DEFINE new == [q EXCEPT !.stage = "posted", !.packet.key = {Key(q.packet.from)}]
<1>1. q \in Call /\ q.packet \in Packet
  BY DEF TypeOK, Call
<1>2. new \in calls' /\ q.packet.kind \in {"REQUEST", "ACCEPT"}
  BY DEF CheckAnswered, Advance, BetweenPairs
<1>3. /\ new.stage = "posted" /\ new.packet.kind = q.packet.kind
      /\ new.packet.chat = q.packet.chat
  BY <1>1 DEF Call, Packet
<1> HIDE DEF new
<1>4. QED
  BY <1>2, <1>3 DEF Carries, OfHandshake, Accepts

(* What a creator whose invitation is pending waits for, after a step *)
CreatorWaits(c) ==
  \/ \E q \in calls : Carries(q, c)
  \/ \E p \in mailbox : OfHandshake(p, c)
  \/ \E p \in mailbox : Deletes(p, c) /\ p.to = c.by

LEMMA CarrierMoves ==
  ASSUME KeysInv, [Next]_vars, Smooth, NEW d \in Chats, d \notin merged',
         NEW q \in calls, Carries(q, d)
  PROVE  CreatorWaits(d)'
<1>0. TypeOK /\ BetweenPairs /\ q.packet \in Packet /\ q.packet.chat = d
  BY DEF KeysInv, TypeOK, Call, Carries, OfHandshake
<1>1. CASE q \in calls'
  BY <1>1 DEF CreatorWaits, Carries, OfHandshake
<1>2. CASE CheckAnswered(q)
  <2>1. \E r \in calls' : Carries(r, d)
    BY <1>0, <1>2, Posted DEF Carries, OfHandshake
  <2>2. QED
    BY <2>1 DEF CreatorWaits, Carries, OfHandshake
<1>3. CASE Taken(q)
  <2>1. q.packet \in mailbox'
    BY <1>0, <1>3, TakenInChat DEF Taken
  <2>2. QED
    BY <2>1 DEF CreatorWaits, Carries, OfHandshake
<1>4. CASE UploadEnds(q) \/ HandshakeAnswered(q) \/ MessageAnswered(q) \/ InfoAnswered(q)
  BY <1>4 DEF UploadEnds, HandshakeAnswered, MessageAnswered, InfoAnswered, Carries,
     OfHandshake
<1>5. QED
  BY <1>0, <1>1, <1>2, <1>3, <1>4, CallsEnd

LEMMA MailMoves ==
  ASSUME KeysInv, [Next]_vars, Smooth, NEW d \in Chats, d \notin merged', CreatedOnce(d),
         status[d.by][d] = "pending", status'[d.by][d] = "pending",
         NEW p \in mailbox, OfHandshake(p, d) \/ (Deletes(p, d) /\ p.to = d.by)
  PROVE  CreatorWaits(d)'
<1>0. /\ TypeOK /\ BetweenPairs /\ Routed(p) /\ d \notin merged
      /\ d.by \in Users /\ d.with \in Users /\ d.by # d.with
      /\ p.chat = d
  BY ChatTypes, PastGrows DEF KeysInv, BetweenPairs, OfHandshake, Deletes
<1>1. CASE p \in mailbox'
  BY <1>1 DEF CreatorWaits, OfHandshake, Deletes
<1>2. CASE ReceiveRequest(p)
  <2>1. p.chat = d
    BY <1>2 DEF ReceiveRequest, OfHandshake, Deletes
  <2> DEFINE new == [stage |-> "check", other |-> p.key,
                     packet |-> Outgoing(p.to, "ACCEPT", d, {}, {})]
  <2>2. new \in calls'
    BY <1>2, <2>1 DEF ReceiveRequest, Start
  <2>3. new.stage = "check" /\ new.packet.kind = "ACCEPT" /\ new.packet.chat = d
    BY DEF Outgoing
  <2> HIDE DEF new
  <2>4. QED
    BY <2>2, <2>3 DEF CreatorWaits, Carries, OfHandshake
<1>3. CASE ReceiveAccept(p)
  <2>1. p.kind = "ACCEPT" /\ p.chat = d
    BY <1>3 DEF ReceiveAccept, OfHandshake, Deletes
  <2>2. p.to = d.by
    BY <1>0, <2>1 DEF Routed, Handshakes, Peer
  <2>3. status'[d.by][d] = "active"
    BY <1>0, <1>3, <2>1, <2>2, StatementRows DEF ReceiveAccept, Exists
  <2>4. QED
    BY <2>3
<1>4. CASE ReceiveDelete(p)
  <2>1. p.chat = d /\ p.to = d.by
    BY <1>4 DEF ReceiveDelete, OfHandshake, Deletes
  <2>2. status'[d.by][d] = "none"
    BY <1>0, <1>4, <2>1, StatementRows DEF ReceiveDelete
  <2>3. QED
    BY <2>2
<1>5. CASE ReceiveMessage(p) \/ ReceiveRead(p)
  BY <1>5 DEF ReceiveMessage, ReceiveRead, OfHandshake, Deletes
<1>6. ASSUME NEW q \in calls, Taken(q), p \notin mailbox'
      PROVE  CreatorWaits(d)'
  <2>1. q.packet \in Packet /\ Routed(q.packet) /\ TakeIn(q.packet)
    BY <1>0, <1>6 DEF TypeOK, Call, BetweenPairs, Taken
  <2>2. /\ q.packet \in mailbox' /\ q.packet.kind \in Handshakes
        /\ p.from = q.packet.from /\ p.to = q.packet.to /\ p.chat = q.packet.chat
    BY <1>0, <1>6, <2>1, TakenInChat
  <2>3. q.packet.chat = d
    BY <1>0, <2>2
  <2>4. CASE q.packet.kind \in {"REQUEST", "ACCEPT"}
    BY <2>2, <2>3, <2>4 DEF CreatorWaits, OfHandshake
  <2>5. CASE q.packet.kind = "DELETE"
    <3>1. q.packet.from # d.by
      BY <2>3, <2>5 DEF CreatedOnce, Exists, Deletes
    <3>2. q.packet.to = d.by
      BY <1>0, <2>1, <2>3, <2>5, <3>1 DEF Routed, Handshakes, Peer
    <3>3. QED
      BY <2>2, <2>3, <2>5, <3>2 DEF CreatorWaits, Deletes
  <2>6. QED
    BY <2>2, <2>4, <2>5 DEF Handshakes
<1>7. QED
  BY <1>0, <1>1, <1>2, <1>3, <1>4, <1>5, <1>6, MailLeaves DEF Receive

LEMMA ReplyComes ==
  ASSUME KeysInv, [Next]_vars, Smooth, NEW d \in Chats, d \notin merged',
         status[d.with][d] = "pending", status'[d.with][d] = "pending",
         NEW q \in calls, Accepts(q, d), q.stage \in {"posted", "ok"}
  PROVE  \E r \in calls' : Accepts(r, d) /\ r.stage \in {"posted", "ok"}
<1>0. /\ TypeOK /\ BetweenPairs /\ q \in Call /\ d.with \in Users
      /\ q.packet.from = d.with
  BY ChatTypes, PastGrows DEF KeysInv, TypeOK, BetweenPairs, Routed, Handshakes, Accepts
<1>1. CASE q \in calls'
  BY <1>1
<1>2. CASE Taken(q)
  <2>1. [q EXCEPT !.stage = "ok"] \in calls'
    BY <1>2 DEF Taken, Replied
  <2>2. Accepts([q EXCEPT !.stage = "ok"], d) /\ [q EXCEPT !.stage = "ok"].stage = "ok"
    BY <1>0 DEF Accepts, Call
  <2>3. QED
    BY <2>1, <2>2
<1>3. CASE HandshakeAnswered(q)
  <2>1. InitSecretChat(d.with, d, q.other)
    BY <1>0, <1>3 DEF HandshakeAnswered, Accepts
  <2>2. status'[d.with][d] = "active"
    BY <1>0, <2>1, StatementRows DEF Exists
  <2>3. QED
    BY <2>2
<1>4. CASE CheckAnswered(q) \/ UploadEnds(q) \/ MessageAnswered(q) \/ InfoAnswered(q)
  BY <1>4 DEF CheckAnswered, UploadEnds, MessageAnswered, InfoAnswered, Accepts
<1>5. QED
  BY <1>0, <1>1, <1>2, <1>3, <1>4, CallsEnd

LEMMA HangInit == Init => HangInv
  BY ChatTypes DEF Init, HangInv, CreatedOnce, WillMove, Exists, Unmerged

LEMMA HangStep ==
  ASSUME KeysInv, HangInv, [Next]_vars
  PROVE  HangInv'
<1>0. TypeOK /\ BetweenPairs
  BY DEF KeysInv
<1>u. \A d \in Unmerged' : d \in Chats /\ d \notin merged' /\ d \in Unmerged
  BY PastGrows DEF Unmerged
<1>1. \A d \in Unmerged' : CreatedOnce(d)'
  BY <1>u, CreatedOnceStep DEF HangInv
<1>2. ASSUME Smooth
      PROVE  /\ \A q \in calls' : q.stage \notin {"error", "orphan"}
             /\ \A d \in Unmerged' : WillMove(d)'
  <2>1. /\ \A q \in calls : q.stage \notin {"error", "orphan"}
        /\ \A d \in Unmerged : WillMove(d)
    BY <1>0, <1>2, SmoothBefore DEF HangInv
  <2>2. \A q \in calls' : q.stage \notin {"error", "orphan"}
    BY <1>0, <1>2, <2>1, ErrorsAreFaults, NoOrphans DEF Smooth
  <2>3. ASSUME NEW d \in Unmerged', status'[d.by][d] = "pending"
        PROVE  CreatorWaits(d)'
    <3>0. d.by \in Users
      BY <1>u, ChatTypes
    <3>1. ASSUME NEW q \in calls, q.packet.chat = d, CheckAnswered(q)
          PROVE  CreatorWaits(d)'
      <4>1. PICK r \in calls' : Carries(r, d)
        BY <1>0, <3>1, Posted
      <4>2. QED
        BY <4>1 DEF CreatorWaits, Carries, OfHandshake
    <3>2. CASE status[d.by][d] = "pending"
      <4>1. CreatorWaits(d) /\ CreatedOnce(d)
        BY <1>u, <2>1, <3>2 DEF WillMove, CreatorWaits, HangInv
      <4>2. QED
        BY <1>2, <1>u, <2>3, <3>2, <4>1, CarrierMoves, MailMoves DEF CreatorWaits
    <3>3. QED
      BY <1>0, <1>u, <2>3, <3>0, <3>1, <3>2, PendingBefore
  <2>4. ASSUME NEW d \in Unmerged', status'[d.with][d] = "pending"
        PROVE  \E q \in calls' : Accepts(q, d) /\ q.stage \in {"posted", "ok"}
    <3>0. d.by \in Users /\ d.with \in Users /\ d.by # d.with
      BY <1>u, ChatTypes
    <3>1. ASSUME NEW q \in calls, q.packet.from = d.with, q.packet.chat = d, CheckAnswered(q)
          PROVE  \E r \in calls' : Accepts(r, d) /\ r.stage \in {"posted", "ok"}
      <4>1. Accepts(q, d)
        BY <1>0, <1>u, <3>0, <3>1
        DEF CheckAnswered, BetweenPairs, Routed, Handshakes, Accepts, Unmerged
      <4>2. QED
        BY <1>0, <3>1, <4>1, Posted
    <3>2. CASE status[d.with][d] = "pending"
      BY <1>2, <1>u, <2>1, <2>4, <3>2, ReplyComes DEF WillMove
    <3>3. QED
      BY <1>0, <1>u, <2>4, <3>0, <3>1, <3>2, PendingBefore
  <2>5. QED
    BY <2>2, <2>3, <2>4
    DEF WillMove, CreatorWaits, Carries, OfHandshake, Deletes, Accepts
<1>3. Undisturbed' <=> Smooth
  BY DEF Undisturbed, Smooth
<1>4. QED
  BY <1>1, <1>2, <1>3 DEF HangInv

(***************************************************************************)
(* As long as nothing has failed or restarted, no invitation is left       *)
(* pending once nothing is under way, also when deletions cross it or take *)
(* its place at the relay; but for those the relay has made one.           *)
(***************************************************************************)
THEOREM InvitationsEnd == Spec => []NoInvitationHangs
<1>1. KeysInv /\ HangInv => NoInvitationHangs
  <2> SUFFICES ASSUME KeysInv, HangInv, Undisturbed, calls = {}, mailbox = {},
                      NEW u \in Users, NEW c \in Unmerged, status[u][c] = "pending"
               PROVE  FALSE
    BY DEF NoInvitationHangs
  <2>1. u \in {c.by, c.with}
    BY DEF KeysInv, BetweenPairs, Exists
  <2>2. WillMove(c)
    BY DEF HangInv
  <2>3. QED
    BY <2>1, <2>2 DEF WillMove
<1>2. Init => KeysInv /\ HangInv
  BY KeysInit, HangInit
<1>3. KeysInv /\ HangInv /\ [Next]_vars => (KeysInv /\ HangInv)'
  BY KeysStep, HangStep
<1>4. QED
  BY <1>1, <1>2, <1>3, PTL DEF Spec
=============================================================================
