--------------------------- MODULE AccountsProofs ---------------------------
(***************************************************************************)
(* Proofs about Accounts, for any handles, requests, faults and stops.     *)
(***************************************************************************)
EXTENDS Accounts, FiniteSetTheorems, TLAPS

(***************************************************************************)
(* The strengthening.  A request takes the steps of its kind only; the     *)
(* user that a registration has created keeps its password; and as long as *)
(* nothing failed, every direct chat is that of a request that got it or   *)
(* is about to.                                                            *)
(***************************************************************************)
StepsOfKind ==
  \A q \in Requests :
    /\ pc[q] \in {"create", "get", "save"} => Body[q].kind = "register"
    /\ pc[q] \in {"saved_of", "get_direct", "find", "chat", "member1", "member2"}
         => Body[q].kind = "direct"
    /\ pc[q] = "saved_of" => Body[q].by = Body[q].target
    /\ pc[q] \in {"limiter", "lookup"} => Body[q].kind = "login"
    /\ pc[q] = "find_user" => Body[q].kind = "find"

Settled ==
  \A q \in Requests :
    Body[q].kind = "register" /\ pc[q] \in {"get", "save", "201"} =>
      /\ users[Body[q].by] = Body[q].password
      /\ pc[q] = "201" => Body[q].by \in saved

Getting(pair) ==
  \E r \in Requests : /\ Body[r].kind = "direct" /\ Pair(r) = pair
                      /\ pc[r] \in {"member1", "member2", "201"}

ChatsAreGot == faults = 0 /\ crashes = 0 => \A pair \in chats : Getting(pair)

AccountsInv ==
  /\ TypeOK /\ StepsOfKind /\ Settled /\ OneRegistrationWins
  /\ HalfAccountsExplained /\ DirectChatsComplete
  /\ ChatsAreGot /\ SomebodyGetsTheChat

-----------------------------------------------------------------------------
LEMMA BodyType ==
  ASSUME NEW q \in Requests
  PROVE  /\ Body[q] \in Request
         /\ Body[q].by \in Handles /\ Body[q].target \in Handles
         /\ Body[q].password \in Passwords
         /\ Body[q].password # NoUser
         /\ Pair(q) \in SUBSET Handles
BY AccountsAssumption DEF Request, Pair

LEMMA ScenarioType ==
  ASSUME TypeOK
  PROVE  /\ scenario.until \in 0 .. MaxTime
         /\ scenario.faults \in Nat /\ scenario.crashes \in Nat
<1>1. scenario \in Scenario
  BY AccountsAssumption DEF TypeOK
<1>. QED
  BY <1>1 DEF Scenario

LEMMA CountType ==
  ASSUME NEW entry \in Tries, NEW time \in 0 .. MaxTime
  PROVE  Count(entry, time) \in Tries
BY AccountsAssumption DEF Count, Expired, Tries

LEMMA NoTriesType == NoTries \in Tries
BY AccountsAssumption DEF NoTries, Tries

-----------------------------------------------------------------------------
(* Types *)

LEMMA InitTypes == Init => TypeOK
BY AccountsAssumption, NoTriesType
  DEF Init, TypeOK, Steps, Answers, Exists

LEMMA NextTypes ==
  ASSUME TypeOK, [Next]_vars
  PROVE  TypeOK'
<1>1. ASSUME NEW q \in Requests, Receive(q) PROVE TypeOK'
  <2>1. \E n \in Steps \cup Answers : pc' = [pc EXCEPT ![q] = n]
    BY <1>1 DEF Receive, Goto, FirstStep, Steps, Answers
  <2>. QED
    BY <1>1, <2>1 DEF Receive, TypeOK, rows
<1>2. ASSUME NEW q \in Requests, CheckUserAuthTries(q) PROVE TypeOK'
  <2>1. Count(tries[Body[q].by], stamp[q]) \in Tries
    BY CountType, BodyType DEF TypeOK
  <2>2. tries' \in [Handles -> Tries]
    BY <1>2, <2>1 DEF CheckUserAuthTries, TypeOK
  <2>3. pc' \in [Requests -> {"never", "new", "lost"} \cup Steps \cup Answers]
    BY <1>2 DEF CheckUserAuthTries, TypeOK, Goto, Steps, Answers
  <2>4. overtaken' \subseteq Requests
    BY <1>2 DEF CheckUserAuthTries, TypeOK, Waiting
  <2>. QED
    BY <1>2, <2>2, <2>3, <2>4 DEF CheckUserAuthTries, TypeOK, rows
<1>3. ASSUME NEW q \in Requests, LoginUser(q) PROVE TypeOK'
  BY <1>3, BodyType DEF LoginUser, Goto, TypeOK, rows, limiter, Steps, Answers
<1>4. ASSUME NEW q \in Requests,
             GetUser(q) \/ GetByHandle(q) \/ GetSaved(q) \/ GetDirect(q)
               \/ FindDirect(q)
      PROVE TypeOK'
  BY <1>4 DEF GetUser, GetByHandle, GetSaved, GetDirect, FindDirect, Goto,
    TypeOK, rows, limiter, Plain, Steps, Answers
<1>5. ASSUME NEW q \in Requests, Create(q) PROVE TypeOK'
  BY <1>5, BodyType DEF Create, Goto, TypeOK, limiter, Plain, Steps, Answers
<1>6. ASSUME NEW q \in Requests, CreateSaved(q) PROVE TypeOK'
  BY <1>6, BodyType DEF CreateSaved, Goto, TypeOK, limiter, Plain, Steps, Answers
<1>7. ASSUME NEW q \in Requests, InsertChat(q) PROVE TypeOK'
  BY <1>7, BodyType DEF InsertChat, Goto, TypeOK, limiter, Plain, Steps, Answers
<1>8. ASSUME NEW q \in Requests, InsertMember1(q) \/ InsertMember2(q) PROVE TypeOK'
  <2>1. members' \subseteq (SUBSET Handles) \X Handles
    BY <1>8, BodyType DEF InsertMember1, InsertMember2, TypeOK
  <2>. QED
    BY <1>8, <2>1 DEF InsertMember1, InsertMember2, Goto, TypeOK, limiter, Plain,
      Steps, Answers
<1>9. ASSUME NEW q \in Requests, Fails(q) PROVE TypeOK'
  BY <1>9 DEF Fails, Goto, TypeOK, rows, limiter, Steps, Answers
<1>10. CASE StartCleanUp
  BY <1>10, AccountsAssumption DEF StartCleanUp, TypeOK, rows
<1>11. CASE CleanUpOldUsersAuthTries
  <2>1. overtaken' \subseteq Requests
    BY <1>11 DEF CleanUpOldUsersAuthTries, TypeOK, Waiting
  <2>2. tries' \in [Handles -> Tries]
    BY <1>11, NoTriesType DEF CleanUpOldUsersAuthTries, TypeOK
  <2>3. /\ cleaner' = MaxTime + 1
        /\ UNCHANGED <<rows, tokens, stamp, now, pc, faults, crashes, scenario>>
    BY <1>11 DEF CleanUpOldUsersAuthTries
  <2>4. cleaner' \in 0 .. MaxTime + 1
    BY <2>3, AccountsAssumption
  <2>. QED
    BY <2>1, <2>2, <2>3, <2>4 DEF TypeOK, rows
<1>12. CASE Tick
  BY <1>12, ScenarioType, AccountsAssumption DEF Tick, TypeOK, rows, limiter
<1>13. CASE Crash
  BY <1>13, NoTriesType, AccountsAssumption DEF Crash, TypeOK, rows
<1>14. CASE UNCHANGED vars
  BY <1>14 DEF vars, rows, limiter, TypeOK
<1>. QED
  BY <1>1, <1>2, <1>3, <1>4, <1>5, <1>6, <1>7, <1>8, <1>9, <1>10, <1>11,
    <1>12, <1>13, <1>14 DEF Next, Handle

-----------------------------------------------------------------------------
(* The strengthening is inductive *)

(* Unless a request gets the answer 500, those that got the chat keep it   *)
LEMMA GotIsKept ==
  ASSUME SomebodyGetsTheChat, absent \subseteq absent',
         UNCHANGED <<faults, crashes>>,
         \A r \in Requests : /\ pc'[r] = "500" => pc[r] = "500"
                             /\ pc[r] \in {"member1", "member2", "201"} =>
                                  pc'[r] \in {"member1", "member2", "201"}
  PROVE  SomebodyGetsTheChat'
<1>. SUFFICES ASSUME faults' = 0, crashes' = 0,
                     NEW q \in Requests, q \notin absent', Body[q].kind = "direct",
                     Body[q].by # Body[q].target, pc'[q] = "500"
              PROVE  \E r \in Requests : /\ Body[r].kind = "direct"
                                         /\ Pair(r) = Pair(q)
                                         /\ pc'[r] \in {"member1", "member2", "201"}
  BY DEF SomebodyGetsTheChat, Pair
<1>1. PICK r \in Requests : /\ Body[r].kind = "direct" /\ Pair(r) = Pair(q)
                            /\ pc[r] \in {"member1", "member2", "201"}
  BY DEF SomebodyGetsTheChat
<1>. QED
  BY <1>1

LEMMA InitInv == Init => AccountsInv
<1>1. Init => TypeOK
  BY InitTypes
<1>2. Init => \A q \in Requests : pc[q] \in {"never", "new"}
  BY DEF Init
<1>3. Init => StepsOfKind /\ Settled /\ OneRegistrationWins
  BY <1>2 DEF StepsOfKind, Settled, OneRegistrationWins, Winners
<1>4. Init => HalfAccountsExplained
  BY DEF Init, HalfAccountsExplained, Exists
<1>5. Init => DirectChatsComplete /\ ChatsAreGot
  BY DEF Init, DirectChatsComplete, ChatsAreGot
<1>6. Init => SomebodyGetsTheChat
  BY <1>2 DEF SomebodyGetsTheChat
<1>. QED
  BY <1>1, <1>3, <1>4, <1>5, <1>6 DEF AccountsInv

(* A step that leaves the rows alone, and moves one request to a step of   *)
(* its kind or to an answer that promises nothing                          *)
LEMMA PlainInv ==
  ASSUME AccountsInv, TypeOK', UNCHANGED <<rows, faults, crashes>>,
         NEW q \in Requests, NEW n,
         pc' = [pc EXCEPT ![q] = n],
         pc[q] \notin {"get", "save", "member1", "member2", "200", "201", "500", "lost"},
         n \notin {"get", "save", "member1", "member2"},
         n = "create" => Body[q].kind = "register",
         n \in {"saved_of", "get_direct", "find", "chat", "201"} => Body[q].kind = "direct",
         n \in {"saved_of", "500"} => Body[q].by = Body[q].target,
         n \in {"limiter", "lookup"} => Body[q].kind = "login",
         n = "find_user" => Body[q].kind = "find"
  PROVE  AccountsInv'
<1>1. StepsOfKind'
  BY DEF AccountsInv, TypeOK, StepsOfKind
<1>2. Settled'
  BY DEF AccountsInv, TypeOK, Settled, rows
<1>3. OneRegistrationWins'
  BY DEF AccountsInv, TypeOK, OneRegistrationWins, Winners, Registering
<1>4. HalfAccountsExplained'
  BY DEF AccountsInv, TypeOK, HalfAccountsExplained, Interrupted, Registering,
    Exists, rows
<1>5. DirectChatsComplete'
  BY DEF AccountsInv, TypeOK, DirectChatsComplete, rows, Pair
<1>6. ChatsAreGot'
  BY DEF AccountsInv, TypeOK, ChatsAreGot, Getting, rows, Pair
<1>7. SomebodyGetsTheChat'
  BY DEF AccountsInv, TypeOK, SomebodyGetsTheChat, Pair, rows
<1>. QED
  BY <1>1, <1>2, <1>3, <1>4, <1>5, <1>6, <1>7 DEF AccountsInv

(* The INSERT of a new user: nobody else registers that handle any more *)
LEMMA CreateInv ==
  ASSUME AccountsInv, TypeOK', NEW q \in Requests, Create(q), ~Exists(Body[q].by)
  PROVE  AccountsInv'
<1>0. /\ pc[q] = "create" /\ users[Body[q].by] = NoUser
      /\ users' = [users EXCEPT ![Body[q].by] = Body[q].password]
      /\ pc' = [pc EXCEPT ![q] = "get"]
      /\ UNCHANGED <<absent, saved, chats, members, faults, crashes>>
  BY DEF Create, Goto, Plain, Exists
<1>1. StepsOfKind'
  BY <1>0, BodyType DEF AccountsInv, TypeOK, StepsOfKind
<1>2. Settled'
  BY <1>0, BodyType DEF AccountsInv, TypeOK, Settled, StepsOfKind, OneRegistrationWins, Winners, Registering
<1>3. OneRegistrationWins'
  BY <1>0, BodyType DEF AccountsInv, TypeOK, OneRegistrationWins, Winners, Registering, Settled, StepsOfKind, Exists
<1>4. HalfAccountsExplained'
  BY <1>0, BodyType DEF AccountsInv, TypeOK, HalfAccountsExplained, Interrupted, Registering, Exists, StepsOfKind
<1>5. DirectChatsComplete'
  BY <1>0, BodyType DEF AccountsInv, TypeOK, DirectChatsComplete, Pair, StepsOfKind
<1>6. ChatsAreGot'
  BY <1>0, BodyType DEF AccountsInv, TypeOK, ChatsAreGot, Getting, Pair, StepsOfKind
<1>7. SomebodyGetsTheChat'
  BY <1>0, GotIsKept DEF AccountsInv, TypeOK
<1>. QED
  BY <1>1, <1>2, <1>3, <1>4, <1>5, <1>6, <1>7 DEF AccountsInv

LEMMA GetByHandleInv ==
  ASSUME AccountsInv, TypeOK', NEW q \in Requests, GetByHandle(q)
  PROVE  AccountsInv'
<1>0. /\ pc[q] = "get" /\ pc' = [pc EXCEPT ![q] = "save"]
      /\ UNCHANGED <<absent, users, saved, chats, members, faults, crashes>>
  BY DEF GetByHandle, Goto, Plain, rows
<1>1. StepsOfKind'
  BY <1>0, BodyType DEF AccountsInv, TypeOK, StepsOfKind
<1>2. Settled'
  BY <1>0, BodyType DEF AccountsInv, TypeOK, Settled, StepsOfKind, OneRegistrationWins, Winners, Registering
<1>3. OneRegistrationWins'
  BY <1>0, BodyType DEF AccountsInv, TypeOK, OneRegistrationWins, Winners, Registering, Settled, StepsOfKind, Exists
<1>4. HalfAccountsExplained'
  BY <1>0, BodyType DEF AccountsInv, TypeOK, HalfAccountsExplained, Interrupted, Registering, Exists, StepsOfKind
<1>5. DirectChatsComplete'
  BY <1>0, BodyType DEF AccountsInv, TypeOK, DirectChatsComplete, Pair, StepsOfKind
<1>6. ChatsAreGot'
  BY <1>0, BodyType DEF AccountsInv, TypeOK, ChatsAreGot, Getting, Pair, StepsOfKind
<1>7. SomebodyGetsTheChat'
  BY <1>0, GotIsKept DEF AccountsInv, TypeOK
<1>. QED
  BY <1>1, <1>2, <1>3, <1>4, <1>5, <1>6, <1>7 DEF AccountsInv

LEMMA CreateSavedInv ==
  ASSUME AccountsInv, TypeOK', NEW q \in Requests, CreateSaved(q)
  PROVE  AccountsInv'
<1>0. /\ pc[q] = "save" /\ pc' = [pc EXCEPT ![q] = "201"]
      /\ saved' = saved \cup {Body[q].by}
      /\ UNCHANGED <<absent, users, chats, members, faults, crashes>>
  BY DEF CreateSaved, Goto, Plain
<1>1. StepsOfKind'
  BY <1>0, BodyType DEF AccountsInv, TypeOK, StepsOfKind
<1>2. Settled'
  BY <1>0, BodyType DEF AccountsInv, TypeOK, Settled, StepsOfKind, OneRegistrationWins, Winners, Registering
<1>3. OneRegistrationWins'
  BY <1>0, BodyType DEF AccountsInv, TypeOK, OneRegistrationWins, Winners, Registering, Settled, StepsOfKind, Exists
<1>4. HalfAccountsExplained'
  BY <1>0, BodyType DEF AccountsInv, TypeOK, HalfAccountsExplained, Interrupted, Registering, Exists, StepsOfKind
<1>5. DirectChatsComplete'
  BY <1>0, BodyType DEF AccountsInv, TypeOK, DirectChatsComplete, Pair, StepsOfKind
<1>6. ChatsAreGot'
  BY <1>0, BodyType DEF AccountsInv, TypeOK, ChatsAreGot, Getting, Pair, StepsOfKind
<1>7. SomebodyGetsTheChat'
  BY <1>0, GotIsKept DEF AccountsInv, TypeOK
<1>. QED
  BY <1>1, <1>2, <1>3, <1>4, <1>5, <1>6, <1>7 DEF AccountsInv

LEMMA InsertChatInv ==
  ASSUME AccountsInv, TypeOK', NEW q \in Requests, InsertChat(q), pc' # [pc EXCEPT ![q] = "500"]
  PROVE  AccountsInv'
<1>0. /\ pc[q] = "chat" /\ pc' = [pc EXCEPT ![q] = "member1"]
      /\ chats' = chats \cup {Pair(q)}
      /\ absent \subseteq absent'
      /\ UNCHANGED <<users, saved, members, faults, crashes>>
  BY DEF InsertChat, Goto, Plain
<1>1. StepsOfKind'
  BY <1>0, BodyType DEF AccountsInv, TypeOK, StepsOfKind
<1>2. Settled'
  BY <1>0, BodyType DEF AccountsInv, TypeOK, Settled, StepsOfKind, OneRegistrationWins, Winners, Registering
<1>3. OneRegistrationWins'
  BY <1>0, BodyType DEF AccountsInv, TypeOK, OneRegistrationWins, Winners, Registering, Settled, StepsOfKind, Exists
<1>4. HalfAccountsExplained'
  BY <1>0, BodyType DEF AccountsInv, TypeOK, HalfAccountsExplained, Interrupted, Registering, Exists, StepsOfKind
<1>5. DirectChatsComplete'
  BY <1>0, BodyType DEF AccountsInv, TypeOK, DirectChatsComplete, Pair, StepsOfKind
<1>6. ChatsAreGot'
  BY <1>0, BodyType DEF AccountsInv, TypeOK, ChatsAreGot, Getting, Pair, StepsOfKind
<1>7. SomebodyGetsTheChat'
  BY <1>0, GotIsKept DEF AccountsInv, TypeOK
<1>. QED
  BY <1>1, <1>2, <1>3, <1>4, <1>5, <1>6, <1>7 DEF AccountsInv

(* The INSERT of a chat that is there, or for a user that is not           *)
LEMMA InsertChatFailsInv ==
  ASSUME AccountsInv, TypeOK', NEW q \in Requests, InsertChat(q),
         pc' = [pc EXCEPT ![q] = "500"]
  PROVE  AccountsInv'
<1>0. /\ pc[q] = "chat" /\ absent \subseteq absent'
      /\ Pair(q) \in chats \/ q \in absent'
      /\ UNCHANGED <<users, saved, chats, members, faults, crashes>>
  <2>1. pc' # [pc EXCEPT ![q] = "member1"]
    BY DEF AccountsInv, TypeOK, InsertChat
  <2>. QED
    BY <2>1 DEF InsertChat, Goto, Plain
<1>1. StepsOfKind'
  BY <1>0 DEF AccountsInv, TypeOK, StepsOfKind
<1>2. Settled' /\ OneRegistrationWins'
  BY <1>0 DEF AccountsInv, TypeOK, Settled, OneRegistrationWins, Winners, Registering
<1>3. HalfAccountsExplained'
  BY <1>0 DEF AccountsInv, TypeOK, HalfAccountsExplained, Interrupted, Registering,
    Exists
<1>4. DirectChatsComplete'
  BY <1>0 DEF AccountsInv, TypeOK, DirectChatsComplete, Pair
<1>5. ChatsAreGot'
  BY <1>0 DEF AccountsInv, TypeOK, ChatsAreGot, Getting, Pair
<1>6. SomebodyGetsTheChat'
  BY <1>0 DEF AccountsInv, TypeOK, SomebodyGetsTheChat, ChatsAreGot, Getting, Pair
<1>. QED
  BY <1>1, <1>2, <1>3, <1>4, <1>5, <1>6 DEF AccountsInv

LEMMA InsertMember1Inv ==
  ASSUME AccountsInv, TypeOK', NEW q \in Requests, InsertMember1(q)
  PROVE  AccountsInv'
<1>0. /\ pc[q] = "member1" /\ pc' = [pc EXCEPT ![q] = "member2"]
      /\ members \subseteq members'
      /\ UNCHANGED <<absent, users, saved, chats, faults, crashes>>
  BY DEF InsertMember1, Goto, Plain
<1>1. StepsOfKind'
  BY <1>0, BodyType DEF AccountsInv, TypeOK, StepsOfKind
<1>2. Settled'
  BY <1>0, BodyType DEF AccountsInv, TypeOK, Settled, StepsOfKind, OneRegistrationWins, Winners, Registering
<1>3. OneRegistrationWins'
  BY <1>0, BodyType DEF AccountsInv, TypeOK, OneRegistrationWins, Winners, Registering, Settled, StepsOfKind, Exists
<1>4. HalfAccountsExplained'
  BY <1>0, BodyType DEF AccountsInv, TypeOK, HalfAccountsExplained, Interrupted, Registering, Exists, StepsOfKind
<1>5. DirectChatsComplete'
  BY <1>0, BodyType DEF AccountsInv, TypeOK, DirectChatsComplete, Pair, StepsOfKind
<1>6. ChatsAreGot'
  BY <1>0, BodyType DEF AccountsInv, TypeOK, ChatsAreGot, Getting, Pair, StepsOfKind
<1>7. SomebodyGetsTheChat'
  BY <1>0, GotIsKept DEF AccountsInv, TypeOK
<1>. QED
  BY <1>1, <1>2, <1>3, <1>4, <1>5, <1>6, <1>7 DEF AccountsInv

(* With the second row the chat is complete *)
LEMMA InsertMember2Inv ==
  ASSUME AccountsInv, TypeOK', NEW q \in Requests, InsertMember2(q)
  PROVE  AccountsInv'
<1>0. /\ pc[q] = "member2" /\ pc' = [pc EXCEPT ![q] = "201"]
      /\ members \subseteq members' /\ \A u \in Pair(q) : <<Pair(q), u>> \in members'
      /\ UNCHANGED <<absent, users, saved, chats, faults, crashes>>
  BY DEF InsertMember2, Goto, Plain
<1>1. StepsOfKind'
  BY <1>0, BodyType DEF AccountsInv, TypeOK, StepsOfKind
<1>2. Settled'
  BY <1>0, BodyType DEF AccountsInv, TypeOK, Settled, StepsOfKind, OneRegistrationWins, Winners, Registering
<1>3. OneRegistrationWins'
  BY <1>0, BodyType DEF AccountsInv, TypeOK, OneRegistrationWins, Winners, Registering, Settled, StepsOfKind, Exists
<1>4. HalfAccountsExplained'
  BY <1>0, BodyType DEF AccountsInv, TypeOK, HalfAccountsExplained, Interrupted, Registering, Exists, StepsOfKind
<1>5. DirectChatsComplete'
  <2>. SUFFICES ASSUME NEW pair \in chats,
                       \E u \in pair : <<pair, u>> \notin members'
                PROVE  \E r \in Requests :
                         /\ Body[r].kind = "direct" /\ Pair(r) = pair
                         /\ pc'[r] \in {"member1", "member2", "500", "lost"}
    BY <1>0 DEF DirectChatsComplete, Pair
  <2>1. PICK r \in Requests :
          /\ Body[r].kind = "direct" /\ Pair(r) = pair
          /\ pc[r] \in {"member1", "member2", "500", "lost"}
    BY <1>0 DEF AccountsInv, DirectChatsComplete
  <2>2. r # q
    BY <1>0, <2>1
  <2>3. pc'[r] = pc[r]
    BY <1>0, <2>2 DEF AccountsInv, TypeOK
  <2>. QED
    BY <2>1, <2>3
<1>6. ChatsAreGot'
  BY <1>0, BodyType DEF AccountsInv, TypeOK, ChatsAreGot, Getting, Pair, StepsOfKind
<1>7. SomebodyGetsTheChat'
  BY <1>0, GotIsKept DEF AccountsInv, TypeOK
<1>. QED
  BY <1>1, <1>2, <1>3, <1>4, <1>5, <1>6, <1>7 DEF AccountsInv

(* A failed statement is answered, and what it was to write is missing      *)
LEMMA FailsInv ==
  ASSUME AccountsInv, TypeOK', NEW q \in Requests, Fails(q)
  PROVE  AccountsInv'
<1>0. /\ pc[q] \in Steps \ {"limiter"}
      /\ pc' = [pc EXCEPT ![q] = IF pc[q] = "create" THEN "409" ELSE "500"]
      /\ faults' # 0
      /\ UNCHANGED <<absent, users, saved, chats, members>>
  BY DEF Fails, Goto, rows, AccountsInv, TypeOK
<1>1. StepsOfKind'
  BY <1>0 DEF AccountsInv, TypeOK, StepsOfKind
<1>2. Settled' /\ OneRegistrationWins'
  BY <1>0 DEF AccountsInv, TypeOK, Settled, OneRegistrationWins, Winners, Registering
<1>3. HalfAccountsExplained'
  BY <1>0 DEF AccountsInv, TypeOK, HalfAccountsExplained, Interrupted, Registering,
    Exists
<1>4. DirectChatsComplete'
  BY <1>0 DEF AccountsInv, TypeOK, DirectChatsComplete, Pair
<1>5. ChatsAreGot' /\ SomebodyGetsTheChat'
  BY <1>0 DEF ChatsAreGot, SomebodyGetsTheChat
<1>. QED
  BY <1>1, <1>2, <1>3, <1>4, <1>5 DEF AccountsInv

(* Requests that a stop cuts off explain what they left undone             *)
LEMMA CrashInv ==
  ASSUME AccountsInv, TypeOK', Crash
  PROVE  AccountsInv'
<1>0. /\ pc' = [q \in Requests |-> IF pc[q] \in Steps THEN "lost" ELSE pc[q]]
      /\ crashes' # 0
      /\ UNCHANGED <<absent, users, saved, chats, members>>
  BY DEF Crash, rows, AccountsInv, TypeOK
<1>1. StepsOfKind'
  BY <1>0 DEF AccountsInv, StepsOfKind, Steps
<1>2. Settled' /\ OneRegistrationWins'
  BY <1>0 DEF AccountsInv, Settled, OneRegistrationWins, Winners, Registering, Steps
<1>3. HalfAccountsExplained'
  BY <1>0 DEF AccountsInv, HalfAccountsExplained, Interrupted, Registering, Exists,
    Steps
<1>4. DirectChatsComplete'
  BY <1>0 DEF AccountsInv, DirectChatsComplete, Pair, Steps
<1>5. ChatsAreGot' /\ SomebodyGetsTheChat'
  BY <1>0 DEF ChatsAreGot, SomebodyGetsTheChat
<1>. QED
  BY <1>1, <1>2, <1>3, <1>4, <1>5 DEF AccountsInv

(* The limiter, the clock and a stutter: neither rows nor requests         *)
LEMMA IdleInv ==
  ASSUME AccountsInv, TypeOK', UNCHANGED <<rows, pc, faults, crashes>>
  PROVE  AccountsInv'
BY DEF AccountsInv, rows, StepsOfKind, Settled, OneRegistrationWins, Winners,
  Registering, HalfAccountsExplained, Interrupted, Exists, DirectChatsComplete,
  Pair, ChatsAreGot, Getting, SomebodyGetsTheChat

LEMMA NextInv ==
  ASSUME AccountsInv, [Next]_vars
  PROVE  AccountsInv'
<1>0. TypeOK /\ TypeOK'
  BY NextTypes DEF AccountsInv
<1>1. ASSUME NEW q \in Requests, Receive(q) PROVE AccountsInv'
  <2>. DEFINE n == IF ~Authorized(q) THEN "401"
                   ELSE IF HasJson(q) /\ ~FindMissedFields(q) /\ FieldsValid(q)
                     THEN FirstStep(q) ELSE "400"
  <2>1. /\ pc[q] = "new" /\ pc' = [pc EXCEPT ![q] = n]
        /\ UNCHANGED <<rows, faults, crashes>>
    BY <1>1 DEF Receive, Goto
  <2>2. n \in {"400", "401", "create", "limiter", "find_user", "saved_of", "get_direct"}
    BY DEF FirstStep
  <2>3. /\ n = "create" => Body[q].kind = "register"
        /\ n = "limiter" => Body[q].kind = "login"
        /\ n = "find_user" => Body[q].kind = "find"
        /\ n \in {"saved_of", "get_direct"} => Body[q].kind = "direct"
        /\ n = "saved_of" => Body[q].by = Body[q].target
    BY BodyType DEF FirstStep, Request
  <2>. HIDE DEF n
  <2>. QED
    BY <1>0, <2>1, <2>2, <2>3, PlainInv
<1>2. ASSUME NEW q \in Requests, Create(q) PROVE AccountsInv'
  <2>1. CASE Exists(Body[q].by)
    BY <1>0, <1>2, <2>1, PlainInv DEF Create, Goto, Plain, rows
  <2>2. CASE ~Exists(Body[q].by)
    BY <1>0, <1>2, <2>2, CreateInv
  <2>. QED
    BY <2>1, <2>2
<1>3. ASSUME NEW q \in Requests, InsertChat(q) PROVE AccountsInv'
  <2>1. CASE pc' = [pc EXCEPT ![q] = "500"]
    BY <1>0, <1>3, <2>1, InsertChatFailsInv
  <2>2. CASE pc' # [pc EXCEPT ![q] = "500"]
    BY <1>0, <1>3, <2>2, InsertChatInv
  <2>. QED
    BY <2>1, <2>2
<1>4. ASSUME NEW q \in Requests,
             CheckUserAuthTries(q) \/ LoginUser(q) \/ GetUser(q)
               \/ GetSaved(q) \/ GetDirect(q) \/ FindDirect(q)
      PROVE  AccountsInv'
  <2>1. PICK n \in {"200", "201", "401", "404", "429", "500", "lookup", "find", "chat"} :
          pc' = [pc EXCEPT ![q] = n] /\ UNCHANGED <<rows, faults, crashes>>
    BY <1>4 DEF CheckUserAuthTries, LoginUser, GetUser, GetSaved, GetDirect,
      FindDirect, Goto, Plain
  <2>2. /\ pc[q] \in {"limiter", "lookup", "find_user", "saved_of", "get_direct", "find"}
        /\ pc'[q] \in {"201", "find", "chat"} => pc[q] \in {"get_direct", "find"}
        /\ pc'[q] = "lookup" => pc[q] = "limiter"
        /\ pc'[q] = "500" => pc[q] = "saved_of"
    BY <1>0, <1>4 DEF CheckUserAuthTries, LoginUser, GetUser, GetSaved, GetDirect,
      FindDirect, Goto, TypeOK
  <2>3. pc'[q] = n
    BY <1>0, <2>1 DEF TypeOK
  <2>4. /\ n \in {"201", "find", "chat"} => Body[q].kind = "direct"
        /\ n = "lookup" => Body[q].kind = "login"
        /\ n = "500" => Body[q].by = Body[q].target
    BY <2>2, <2>3 DEF AccountsInv, StepsOfKind
  <2>. QED
    BY <1>0, <2>1, <2>2, <2>4, PlainInv
<1>5. CASE \/ StartCleanUp \/ CleanUpOldUsersAuthTries \/ Tick \/ UNCHANGED vars
  BY <1>0, <1>5, IdleInv DEF StartCleanUp, CleanUpOldUsersAuthTries, Tick, vars, rows
<1>. QED
  BY <1>0, <1>1, <1>2, <1>3, <1>4, <1>5, GetByHandleInv, CreateSavedInv,
    InsertMember1Inv, InsertMember2Inv, FailsInv, CrashInv DEF Next, Handle

LEMMA AccountsInvariant == Spec => []AccountsInv
BY InitInv, NextInv, PTL DEF Spec

-----------------------------------------------------------------------------
(* Registrations, logins, lookups, direct chats, the clean-up, failed      *)
(* statements and stops keep the types of all variables.                   *)
THEOREM TypeCorrect == Spec => []TypeOK
BY AccountsInvariant, PTL DEF AccountsInv

(* Of several registrations of one handle at most one creates the user,    *)
(* however their INSERTs interleave.                                       *)
THEOREM OneRegistrationOnly == Spec => []OneRegistrationWins
BY AccountsInvariant, PTL DEF AccountsInv

(* Whoever is told that he is registered has a user with his password and  *)
(* a saved chat.                                                           *)
THEOREM RegistrationIsUsable == Spec => []RegisteredMeansUsable
<1>1. AccountsInv => RegisteredMeansUsable
  BY DEF AccountsInv, Settled, RegisteredMeansUsable
<1>. QED
  BY <1>1, AccountsInvariant, PTL

(* A user without a saved chat is about to get it, or his registration was *)
(* interrupted by an error or a stop.                                      *)
THEOREM HalfAccountsAreExplained == Spec => []HalfAccountsExplained
BY AccountsInvariant, PTL DEF AccountsInv

(* A direct chat that lacks a member is being created, or its creation was *)
(* interrupted.                                                            *)
THEOREM DirectChatsAreComplete == Spec => []DirectChatsComplete
BY AccountsInvariant, PTL DEF AccountsInv

(* Unless something failed, an INSERT that the unique pair refuses left    *)
(* the chat to another request, which gets it.                             *)
THEOREM SomebodyGetsTheDirectChat == Spec => []SomebodyGetsTheChat
BY AccountsInvariant, PTL DEF AccountsInv

-----------------------------------------------------------------------------
(***************************************************************************)
(* The limiter.  Tries of a handle that passed are counted against the     *)
(* window that began last (start): of those since its start, and of those  *)
(* less than a window's length before it, no more passed than one window   *)
(* lets through, and none is later than its end.  Its entry counts it, or  *)
(* is erased, and then it is over for whoever waits or is still to come.   *)
(***************************************************************************)
Since(h, start) == {q \in Passed(h) : stamp[q] >= start}

JustBefore(h, start) ==
  {q \in Passed(h) : stamp[q] < start /\ stamp[q] + Window >= start}

LastWindow(h, start) ==
  /\ Cardinality(Since(h, start)) <= MaxRequests
  /\ Cardinality(JustBefore(h, start)) <= MaxRequests
  /\ \A q \in Passed(h) : stamp[q] <= start + Window
  /\ \/ /\ tries[h].window_start = start /\ start <= now
        /\ Cardinality(Since(h, start)) <= tries[h].try_count
        /\ \A q \in Waiting(h) : start <= stamp[q]
     \/ /\ tries[h] = NoTries /\ start + Window < now
        /\ \A q \in Waiting(h) : start + Window < stamp[q]

InTime(h) == \A q \in overtaken : Body[q].by # h

Limited(h) ==
  /\ IsFiniteSet(Passed(h))
  /\ \E start \in 0 .. MaxTime : LastWindow(h, start)
  /\ \A time \in 0 .. MaxTime : Cardinality(PassedFrom(h, time)) <= 2 * MaxRequests

(* Whoever has read the clock has not read the future *)
ClockRead ==
  /\ \A q \in Requests : stamp[q] <= now
  /\ cleaner <= MaxTime => cleaner <= now

LimiterInv ==
  /\ ClockRead
  /\ crashes = 0 => \A h \in Handles : InTime(h) => Limited(h)

-----------------------------------------------------------------------------
(* The limiter's invariant is inductive *)

LEMMA TryTypes ==
  ASSUME TypeOK
  PROVE  /\ \A q \in Requests : stamp[q] \in 0 .. MaxTime /\ stamp[q] \in Nat
         /\ now \in 0 .. MaxTime /\ now \in Nat
         /\ \A h \in Handles :
              /\ tries[h].try_count \in Nat
              /\ tries[h].window_start \in 0 .. MaxTime
              /\ tries[h].window_start \in Nat
         /\ cleaner \in Nat
         /\ Window \in Nat /\ MaxTime \in Nat /\ MaxRequests \in Nat
         /\ MaxRequests >= 1
BY AccountsAssumption DEF TypeOK, Tries

LEMMA NextTryTypes ==
  ASSUME TypeOK'
  PROVE  /\ \A q \in Requests : stamp'[q] \in 0 .. MaxTime /\ stamp'[q] \in Nat
         /\ now' \in 0 .. MaxTime /\ now' \in Nat
BY AccountsAssumption DEF TypeOK

LEMMA TwoSmallSets ==
  ASSUME NEW S, NEW T, NEW U, NEW m \in Nat,
         IsFiniteSet(S), IsFiniteSet(T), U \subseteq S \cup T,
         Cardinality(S) <= m, Cardinality(T) <= m
  PROVE  Cardinality(U) <= 2 * m
<1>1. /\ IsFiniteSet(S \cup T) /\ IsFiniteSet(S \cap T)
      /\ Cardinality(S \cup T) =
           Cardinality(S) + Cardinality(T) - Cardinality(S \cap T)
  <2>1. S \cap T \in SUBSET S
    OBVIOUS
  <2>. QED
    BY <2>1, FS_Union, FS_Subset
<1>2. Cardinality(S) \in Nat /\ Cardinality(T) \in Nat /\ Cardinality(S \cap T) \in Nat
      /\ Cardinality(S \cup T) \in Nat
  BY <1>1, FS_CardinalityType
<1>3. IsFiniteSet(U) /\ Cardinality(U) <= Cardinality(S \cup T)
  BY <1>1, FS_Subset
<1>4. Cardinality(U) \in Nat
  BY <1>3, FS_CardinalityType
<1>. QED
  BY <1>1, <1>2, <1>3, <1>4

LEMMA InitLimiter == Init => LimiterInv
<1>. SUFFICES ASSUME Init
              PROVE  LimiterInv
  OBVIOUS
<1>1. TypeOK
  BY InitTypes
<1>2. ClockRead
  BY <1>1, TryTypes DEF Init, ClockRead
<1>3. ASSUME NEW h \in Handles PROVE Limited(h)
  <2>1. Passed(h) = {} /\ Waiting(h) = {}
    BY DEF Init, Passed, Waiting
  <2>2. /\ \A start : Since(h, start) = {} /\ JustBefore(h, start) = {}
        /\ \A time : PassedFrom(h, time) = {}
    BY <2>1 DEF Since, JustBefore, PassedFrom
  <2>3. 0 \in 0 .. MaxTime
    BY AccountsAssumption
  <2>4. tries[h].window_start = 0 /\ tries[h].try_count = 0 /\ now = 0
    BY DEF Init, NoTries
  <2>5. LastWindow(h, 0)
    BY <2>1, <2>2, <2>4, FS_EmptySet, AccountsAssumption DEF LastWindow
  <2>. QED
    BY <2>1, <2>2, <2>3, <2>5, FS_EmptySet, AccountsAssumption DEF Limited
<1>. QED
  BY <1>2, <1>3 DEF LimiterInv

(* A step that lets no try pass and leaves the entry alone: whoever reads  *)
(* the clock reads it now                                                  *)
LEMMA QuietLimited ==
  ASSUME TypeOK, TypeOK', NEW h \in Handles, Limited(h),
         now <= now', tries'[h] = tries[h],
         Passed(h)' = Passed(h),
         \A q \in Passed(h) : stamp'[q] = stamp[q],
         \A q \in Waiting(h)' :
           stamp'[q] = now \/ (q \in Waiting(h) /\ stamp'[q] = stamp[q])
  PROVE  Limited(h)'
<1>1. PICK start \in 0 .. MaxTime : LastWindow(h, start)
  BY DEF Limited
<1>2. /\ Since(h, start)' = Since(h, start)
      /\ JustBefore(h, start)' = JustBefore(h, start)
  BY DEF Since, JustBefore
<1>3. ASSUME NEW time \in 0 .. MaxTime
      PROVE  PassedFrom(h, time)' = PassedFrom(h, time)
  BY DEF PassedFrom
<1>4. /\ Cardinality(Since(h, start))' <= MaxRequests
      /\ Cardinality(JustBefore(h, start))' <= MaxRequests
      /\ \A q \in Passed(h)' : stamp'[q] <= start + Window
  BY <1>1, <1>2 DEF LastWindow
<1>5. CASE /\ tries[h].window_start = start /\ start <= now
           /\ Cardinality(Since(h, start)) <= tries[h].try_count
           /\ \A q \in Waiting(h) : start <= stamp[q]
  <2>1. start <= now' /\ \A q \in Waiting(h)' : start <= stamp'[q]
    BY <1>5, TryTypes, NextTryTypes
  <2>. QED
    BY <1>2, <1>3, <1>4, <1>5, <2>1 DEF LastWindow, Limited
<1>6. CASE /\ tries[h] = NoTries /\ start + Window < now
           /\ \A q \in Waiting(h) : start + Window < stamp[q]
  <2>1. start + Window < now' /\ \A q \in Waiting(h)' : start + Window < stamp'[q]
    BY <1>6, TryTypes, NextTryTypes
  <2>. QED
    BY <1>2, <1>3, <1>4, <1>6, <2>1 DEF LastWindow, Limited
<1>. QED
  BY <1>1, <1>5, <1>6 DEF LastWindow

(* The clean-up erases an entry that nobody waits for *)
LEMMA ErasedLimited ==
  ASSUME TypeOK, TypeOK', NEW h \in Handles, Limited(h),
         UNCHANGED <<now, pc, stamp>>, cleaner <= now,
         Expired(tries[h], cleaner), tries[h] # NoTries, tries'[h] = NoTries,
         Waiting(h) = {}
  PROVE  Limited(h)'
<1>1. PICK start \in 0 .. MaxTime : LastWindow(h, start)
  BY DEF Limited
<1>2. /\ Passed(h)' = Passed(h) /\ Waiting(h)' = {}
      /\ Since(h, start)' = Since(h, start)
      /\ JustBefore(h, start)' = JustBefore(h, start)
  BY DEF Since, JustBefore, Passed, Waiting
<1>3. ASSUME NEW time \in 0 .. MaxTime
      PROVE  PassedFrom(h, time)' = PassedFrom(h, time)
  BY DEF PassedFrom, Passed
<1>4. start + Window < now
  BY <1>1, TryTypes DEF LastWindow, Expired
<1>5. LastWindow(h, start)'
  BY <1>1, <1>2, <1>4 DEF LastWindow
<1>. QED
  BY <1>2, <1>3, <1>5 DEF Limited

(* A try passes in the window that began last *)
LEMMA PassesLimited ==
  ASSUME TypeOK, TypeOK', NEW h \in Handles, Limited(h), stamp' = stamp,
         NEW q \in Requests, Passed(h)' = Passed(h) \cup {q},
         NEW start \in 0 .. MaxTime, LastWindow(h, start)', start <= stamp[q]
  PROVE  Limited(h)'
<1>1. IsFiniteSet(Passed(h)')
  BY FS_AddElement DEF Limited
<1>2. IsFiniteSet(Since(h, start)') /\ IsFiniteSet(JustBefore(h, start)')
  BY <1>1, FS_Subset DEF Since, JustBefore
<1>3. ASSUME NEW time \in 0 .. MaxTime
      PROVE  Cardinality(PassedFrom(h, time)') <= 2 * MaxRequests
  <2>1. CASE stamp[q] \in time .. time + Window
    <3>1. ASSUME NEW r \in PassedFrom(h, time)'
          PROVE  r \in Since(h, start)' \cup JustBefore(h, start)'
      <4>1. /\ r \in Passed(h)' /\ stamp'[r] \in time .. time + Window
            /\ r \in Requests
        BY <3>1 DEF PassedFrom, Passed
      <4>2. stamp'[r] >= start \/ (stamp'[r] < start /\ stamp'[r] + Window >= start)
        BY <2>1, <4>1, TryTypes, NextTryTypes
      <4>. QED
        BY <4>1, <4>2 DEF Since, JustBefore
    <3>2. PassedFrom(h, time)' \subseteq Since(h, start)' \cup JustBefore(h, start)'
      BY <3>1
    <3>3. /\ Cardinality(Since(h, start)') <= MaxRequests
          /\ Cardinality(JustBefore(h, start)') <= MaxRequests
          /\ MaxRequests \in Nat
      BY AccountsAssumption DEF LastWindow
    <3>. QED
      BY <1>2, <3>2, <3>3, TwoSmallSets
  <2>2. CASE stamp[q] \notin time .. time + Window
    <3>1. PassedFrom(h, time)' = PassedFrom(h, time)
      BY <2>2 DEF PassedFrom
    <3>. QED
      BY <3>1 DEF Limited
  <2>. QED
    BY <2>1, <2>2
<1>. QED
  BY <1>1, <1>3 DEF Limited

(* A try that is not too old for its entry, if it began anew meanwhile *)
LEMMA CountedLimited ==
  ASSUME AccountsInv, TypeOK', ClockRead, NEW q \in Requests, CheckUserAuthTries(q),
         Limited(Body[q].by), InTime(Body[q].by)'
  PROVE  Limited(Body[q].by)'
<1>. DEFINE h == Body[q].by
            entry == Count(tries[h], stamp[q])
<1>0. TypeOK
  BY DEF AccountsInv
<1>1. /\ pc[q] = "limiter" /\ h \in Handles /\ Body[q].kind = "login"
      /\ UNCHANGED <<stamp, now>>
      /\ tries'[h] = entry
      /\ pc' = [pc EXCEPT ![q] = IF entry.try_count > MaxRequests THEN "429" ELSE "lookup"]
      /\ Expired(tries[h], stamp[q]) => overtaken' = overtaken \cup (Waiting(h) \ {q})
  BY <1>0, BodyType DEF CheckUserAuthTries, Goto, TypeOK, AccountsInv, StepsOfKind
<1>2. Waiting(h)' = Waiting(h) \ {q} /\ q \in Waiting(h) /\ q \notin Passed(h)
  BY <1>0, <1>1 DEF Waiting, Passed, TypeOK
<1>3. /\ entry.try_count > MaxRequests => Passed(h)' = Passed(h)
      /\ ~(entry.try_count > MaxRequests) => Passed(h)' = Passed(h) \cup {q}
  <2>. HIDE DEF entry
  <2>. QED
    BY <1>0, <1>1 DEF Passed, TypeOK
<1>4. PICK start \in 0 .. MaxTime : LastWindow(h, start)
  BY DEF Limited
<1>5. CASE ~Expired(tries[h], stamp[q])
  <2>1. entry = [tries[h] EXCEPT !.try_count = @ + 1]
    BY <1>5 DEF Count
  <2>2. /\ entry.try_count = tries[h].try_count + 1
        /\ entry.window_start = tries[h].window_start
    BY <1>0, <1>1, <2>1 DEF TypeOK, Tries
  <2>3. stamp[q] <= tries[h].window_start + Window
    BY <1>0, <1>1, <1>5, TryTypes DEF Expired
  <2>4. /\ tries[h].window_start = start /\ start <= now
        /\ Cardinality(Since(h, start)) <= tries[h].try_count
        /\ \A r \in Waiting(h) : start <= stamp[r]
    BY <1>0, <1>2, <1>4, <2>3, TryTypes DEF LastWindow, NoTries
  <2>5. IsFiniteSet(Since(h, start)) /\ IsFiniteSet(Passed(h))
    BY FS_Subset DEF Since, Limited
  <2>6. CASE entry.try_count > MaxRequests
    <3>1. /\ Since(h, start)' = Since(h, start)
          /\ JustBefore(h, start)' = JustBefore(h, start)
          /\ \A time \in 0 .. MaxTime : PassedFrom(h, time)' = PassedFrom(h, time)
      BY <1>1, <1>3, <2>6 DEF Since, JustBefore, PassedFrom
    <3>2. Cardinality(Since(h, start)) \in Nat
      BY <2>5, FS_CardinalityType
    <3>3. /\ Cardinality(Since(h, start)) <= tries'[h].try_count
          /\ tries'[h].window_start = start
      BY <1>0, <1>1, <2>2, <2>4, <3>2, TryTypes
    <3>4. LastWindow(h, start)'
      <4>. HIDE DEF h, entry
      <4>. QED
        BY <1>1, <1>2, <1>3, <1>4, <2>4, <2>6, <3>1, <3>3 DEF LastWindow
    <3>5. /\ Limited(h) /\ Passed(h)' = Passed(h)
      BY <1>3, <2>6
    <3>. QED
      BY <3>1, <3>4, <3>5 DEF Limited
  <2>7. CASE ~(entry.try_count > MaxRequests)
    <3>1. Passed(h)' = Passed(h) \cup {q}
      BY <1>3, <2>7
    <3>2. start <= stamp[q]
      BY <1>2, <2>4
    <3>3. Since(h, start)' = Since(h, start) \cup {q}
      BY <1>1, <3>1, <3>2 DEF Since
    <3>4. JustBefore(h, start)' = JustBefore(h, start)
      BY <1>0, <1>1, <3>1, <3>2, TryTypes DEF JustBefore
    <3>5. q \notin Since(h, start)
      BY <1>2 DEF Since
    <3>6. /\ Cardinality(Since(h, start)') = Cardinality(Since(h, start)) + 1
          /\ Cardinality(Since(h, start)) \in Nat
      BY <2>5, <3>3, <3>5, FS_AddElement, FS_CardinalityType
    <3>7. /\ Cardinality(Since(h, start)') <= tries'[h].try_count
          /\ Cardinality(Since(h, start)') <= MaxRequests
          /\ tries'[h].window_start = start
      BY <1>0, <1>1, <2>2, <2>4, <2>7, <3>6, TryTypes
    <3>8. \A r \in Passed(h)' : stamp'[r] <= start + Window
      BY <1>1, <1>4, <2>3, <2>4, <3>1 DEF LastWindow
    <3>9. LastWindow(h, start)'
      <4>. HIDE DEF h, entry
      <4>. QED
        BY <1>1, <1>2, <1>4, <2>4, <3>4, <3>7, <3>8 DEF LastWindow
    <3>. QED
      BY <1>0, <1>1, <3>1, <3>2, <3>9, PassesLimited
  <2>. QED
    BY <2>6, <2>7
<1>6. CASE Expired(tries[h], stamp[q])
  <2>. DEFINE s == stamp[q]
  <2>1. entry = [try_count |-> 1, window_start |-> s]
    BY <1>6 DEF Count
  <2>2. Passed(h)' = Passed(h) \cup {q}
    BY <1>0, <1>3, <2>1, TryTypes
  <2>3. Waiting(h)' = {}
    BY <1>1, <1>2, <1>6 DEF InTime, Waiting
  <2>4. s \in 0 .. MaxTime /\ s \in Nat /\ s <= now
    BY <1>0, TryTypes DEF ClockRead
  <2>5. start + Window < s
    BY <1>0, <1>1, <1>2, <1>4, <1>6, TryTypes DEF LastWindow, Expired
  <2>6. Since(h, s)' = {q}
    <3>1. \A r \in Passed(h) : stamp[r] <= start + Window /\ r \in Requests
      BY <1>4 DEF LastWindow, Passed
    <3>2. \A r \in Passed(h) : ~(stamp[r] >= s)
      BY <1>0, <2>4, <2>5, <3>1, TryTypes
    <3>. QED
      BY <1>1, <2>2, <2>4, <3>2 DEF Since
  <2>7. JustBefore(h, s)' \subseteq Since(h, start)
    <3>1. \A r \in JustBefore(h, s)' :
            r \in Passed(h) /\ r \in Requests /\ stamp[r] + Window >= s
      BY <1>1, <2>2, <2>4 DEF JustBefore, Passed
    <3>2. \A r \in JustBefore(h, s)' : stamp[r] >= start
      BY <1>0, <2>4, <2>5, <3>1, TryTypes
    <3>. QED
      BY <3>1, <3>2 DEF Since
  <2>8. Cardinality(Since(h, s)') = 1 /\ 1 <= MaxRequests
    BY <1>0, <2>6, FS_Singleton, TryTypes
  <2>9. Cardinality(JustBefore(h, s)') <= MaxRequests
    <3>1. IsFiniteSet(Since(h, start))
      BY FS_Subset DEF Since, Limited
    <3>2. /\ Cardinality(JustBefore(h, s)') <= Cardinality(Since(h, start))
          /\ IsFiniteSet(JustBefore(h, s)')
      BY <2>7, <3>1, FS_Subset
    <3>3. Cardinality(Since(h, start)) <= MaxRequests
      BY <1>4 DEF LastWindow
    <3>4. /\ Cardinality(JustBefore(h, s)') \in Nat
          /\ Cardinality(Since(h, start)) \in Nat
      BY <3>1, <3>2, FS_CardinalityType
    <3>. QED
      BY <1>0, <3>2, <3>3, <3>4, TryTypes
  <2>10. \A r \in Passed(h)' : stamp'[r] <= s + Window
    <3>1. \A r \in Passed(h) : stamp[r] <= start + Window /\ r \in Requests
      BY <1>4 DEF LastWindow, Passed
    <3>. QED
      BY <1>0, <1>1, <2>2, <2>4, <2>5, <3>1, TryTypes
  <2>11. tries'[h].window_start = s /\ tries'[h].try_count = 1
    BY <1>1, <2>1
  <2>12. LastWindow(h, s)'
    <3>1. s' = s
      BY <1>1
    <3>. HIDE DEF h, s, entry
    <3>2. s <= now'
      BY <1>1, <2>4
    <3>. QED
      BY <2>3, <2>8, <2>9, <2>10, <2>11, <3>1, <3>2 DEF LastWindow
  <2>. QED
    BY <1>0, <1>1, <2>2, <2>4, <2>12, PassesLimited
<1>. QED
  BY <1>5, <1>6

(* The other steps let no try pass; they leave the entry of h alone, unless *)
(* the clean-up erases it                                                  *)
LEMMA NextLimiter ==
  ASSUME AccountsInv, LimiterInv, [Next]_vars
  PROVE  LimiterInv'
<1>0. TypeOK /\ TypeOK' /\ ClockRead
  BY NextTypes DEF AccountsInv, LimiterInv
<1>1. ClockRead'
  BY <1>0, TryTypes, AccountsAssumption DEF Next, Handle, Receive, CheckUserAuthTries, StartCleanUp,
    CleanUpOldUsersAuthTries, Tick, Crash, LoginUser, GetUser, Create, GetByHandle,
    CreateSaved, GetSaved, GetDirect, FindDirect, InsertChat, InsertMember1,
    InsertMember2, Fails, Plain, limiter, vars, ClockRead, TypeOK
<1>2. ASSUME NEW h \in Handles, crashes' = 0, InTime(h)'
      PROVE  Limited(h)'
  <2>1. crashes = 0 /\ InTime(h)
    <3>1. overtaken \subseteq overtaken' /\ (crashes' = crashes \/ crashes' = crashes + 1)
      BY DEF Next, Handle, Receive, CheckUserAuthTries, StartCleanUp,
        CleanUpOldUsersAuthTries, Tick, Crash, LoginUser, GetUser, Create,
        GetByHandle, CreateSaved, GetSaved, GetDirect, FindDirect, InsertChat,
        InsertMember1, InsertMember2, Fails, Plain, limiter, vars
    <3>. QED
      BY <1>0, <1>2, <3>1 DEF InTime, TypeOK
  <2>2. Limited(h)
    BY <2>1 DEF LimiterInv
  <2>3. now <= now'
    BY <1>0, TryTypes DEF Next, Handle, Receive, CheckUserAuthTries, StartCleanUp,
      CleanUpOldUsersAuthTries, Tick, Crash, LoginUser, GetUser, Create,
      GetByHandle, CreateSaved, GetSaved, GetDirect, FindDirect, InsertChat,
      InsertMember1, InsertMember2, Fails, Plain, limiter, vars
  <2>4. ASSUME NEW q \in Requests, Receive(q) PROVE Limited(h)'
    <3>. DEFINE n == IF ~Authorized(q) THEN "401"
                     ELSE IF HasJson(q) /\ ~FindMissedFields(q) /\ FieldsValid(q)
                       THEN FirstStep(q) ELSE "400"
    <3>1. /\ pc[q] = "new" /\ pc' = [pc EXCEPT ![q] = n]
          /\ n \in {"400", "401", "create", "limiter", "find_user",
                   "saved_of", "get_direct"}
          /\ n = "401" => Body[q].kind # "login"
      <4>1. pc[q] = "new" /\ pc' = [pc EXCEPT ![q] = n]
        BY <2>4 DEF Receive, Goto
      <4>2. n \in {"400", "401", "create", "limiter", "find_user", "saved_of",
                  "get_direct"}
        BY DEF FirstStep
      <4>3. n = "401" => Body[q].kind # "login"
        BY DEF FirstStep, Authorized
      <4>. QED
        BY <4>1, <4>2, <4>3
    <3>. HIDE DEF n
    <3>2. Passed(h)' = Passed(h) /\ q \notin Passed(h)
      BY <1>0, <3>1 DEF Passed, TypeOK
    <3>3. /\ \A r \in Requests \ {q} : stamp'[r] = stamp[r]
          /\ Body[q].kind = "login" => stamp'[q] = now
          /\ tries' = tries
      BY <1>0, <2>4 DEF Receive, TypeOK
    <3>4. ASSUME NEW r \in Waiting(h)'
          PROVE  stamp'[r] = now \/ (r \in Waiting(h) /\ stamp'[r] = stamp[r])
      <4>1. r \in Requests /\ pc'[r] = "limiter" /\ Body[r].by = h
        BY DEF Waiting
      <4>2. CASE r = q
        <5>1. Body[r].kind = "login"
          BY <2>4, <4>1, <4>2, <1>0 DEF Receive, Goto, FirstStep, TypeOK
        <5>. QED
          BY <3>3, <4>2, <5>1
      <4>3. CASE r # q
        BY <1>0, <3>1, <3>3, <4>1, <4>3 DEF Waiting, TypeOK
      <4>. QED
        BY <4>2, <4>3
    <3>5. \A r \in Passed(h) : stamp'[r] = stamp[r]
      BY <3>2, <3>3 DEF Passed
    <3>. QED
      BY <1>0, <2>2, <2>3, <3>2, <3>3, <3>4, <3>5, QuietLimited
  <2>5. ASSUME NEW q \in Requests, CheckUserAuthTries(q) PROVE Limited(h)'
    <3>1. CASE Body[q].by = h
      BY <1>0, <1>2, <2>2, <2>5, <3>1, CountedLimited
    <3>2. CASE Body[q].by # h
      <4>1. /\ tries'[h] = tries[h] /\ stamp' = stamp
            /\ Passed(h)' = Passed(h) /\ Waiting(h)' = Waiting(h)
        <5>1. \A r \in Requests : Body[r].by = h => pc'[r] = pc[r]
          BY <1>0, <2>5, <3>2 DEF CheckUserAuthTries, Goto, TypeOK
        <5>2. tries'[h] = tries[h] /\ stamp' = stamp
          BY <1>0, <2>5, <3>2, BodyType DEF CheckUserAuthTries, TypeOK
        <5>. QED
          BY <5>1, <5>2 DEF Passed, Waiting
      <4>. QED
        BY <1>0, <2>2, <2>3, <4>1, QuietLimited
    <3>. QED
      BY <3>1, <3>2
  <2>6. ASSUME NEW q \in Requests,
               \/ LoginUser(q) \/ Fails(q) \/ GetUser(q) \/ Create(q)
               \/ GetByHandle(q) \/ CreateSaved(q) \/ GetSaved(q) \/ GetDirect(q)
               \/ FindDirect(q) \/ InsertChat(q) \/ InsertMember1(q)
               \/ InsertMember2(q)
        PROVE  Limited(h)'
    <3>1. PICK n : /\ pc' = [pc EXCEPT ![q] = n] /\ n # "limiter"
                   /\ pc[q] \in Steps \ {"limiter"}
                   /\ pc[q] = "lookup" => n \in {"200", "401", "500"}
      BY <2>6 DEF LoginUser, GetUser, Create, GetByHandle, CreateSaved, GetSaved,
        GetDirect, FindDirect, InsertChat, InsertMember1, InsertMember2, Fails,
        Goto, Steps
    <3>2. UNCHANGED <<tries, stamp>>
      BY <2>6 DEF LoginUser, GetUser, Create, GetByHandle, CreateSaved, GetSaved,
        GetDirect, FindDirect, InsertChat, InsertMember1, InsertMember2, Fails,
        Plain, limiter
    <3>3. pc[q] # "lookup" => Body[q].kind # "login"
      BY <3>1, BodyType DEF AccountsInv, StepsOfKind, Steps
    <3>4. Passed(h)' = Passed(h) /\ Waiting(h)' = Waiting(h)
      BY <1>0, <3>1, <3>3 DEF Passed, Waiting, TypeOK
    <3>. QED
      BY <1>0, <2>2, <2>3, <3>2, <3>4, QuietLimited
  <2>7. CASE CleanUpOldUsersAuthTries
    <3>1. UNCHANGED <<now, pc, stamp>> /\ cleaner <= now
      BY <1>0, <2>7 DEF CleanUpOldUsersAuthTries, ClockRead
    <3>2. CASE tries'[h] = tries[h]
      BY <1>0, <2>2, <2>3, <3>1, <3>2, QuietLimited DEF Passed, Waiting
    <3>3. CASE tries'[h] # tries[h]
      <4>1. /\ Expired(tries[h], cleaner) /\ tries'[h] = NoTries
            /\ Waiting(h) \subseteq overtaken'
        BY <2>7, <3>3 DEF CleanUpOldUsersAuthTries
      <4>2. Waiting(h) = {}
        BY <1>2, <4>1 DEF InTime, Waiting
      <4>. QED
        BY <1>0, <2>2, <3>1, <3>3, <4>1, <4>2, ErasedLimited
    <3>. QED
      BY <3>2, <3>3
  <2>8. CASE StartCleanUp \/ Tick \/ UNCHANGED vars
    <3>1. UNCHANGED <<tries, stamp, pc>>
      BY <2>8 DEF StartCleanUp, Tick, limiter, vars
    <3>. QED
      BY <1>0, <2>2, <2>3, <3>1, QuietLimited DEF Passed, Waiting
  <2>9. ~Crash
    BY <1>0, <1>2, <2>1 DEF Crash, TypeOK
  <2>. QED
    BY <2>4, <2>5, <2>6, <2>7, <2>8, <2>9 DEF Next, Handle
<1>. QED
  BY <1>1, <1>2 DEF LimiterInv

(* No more than two windows' worth of tries of a handle pass within the    *)
(* length of one, for any clock, clean-up and order of the mutex, unless a *)
(* try waits for the mutex while its entry is erased or begins anew.       *)
THEOREM TwoWindowsAtMost == Spec => []AtMostTwoWindows
<1>1. LimiterInv => AtMostTwoWindows
  BY DEF LimiterInv, InTime, Limited, AtMostTwoWindows
<1>. QED
  BY <1>1, AccountsInvariant, InitLimiter, NextLimiter, PTL DEF Spec
=============================================================================
