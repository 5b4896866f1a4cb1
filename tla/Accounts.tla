------------------------------ MODULE Accounts ------------------------------
(***************************************************************************)
(* Users, their saved and direct chats, and the limiter of logins:         *)
(* UserController over UserService and UserRepository, and                 *)
(* createOrGetDirectChat of ChatService over ChatRepository.               *)
(*                                                                         *)
(* Each request is a coroutine that may be overtaken before every SQL      *)
(* statement and before every lock.  Only createSaved is a transaction;    *)
(* all other statements commit one by one.                                 *)
(***************************************************************************)
EXTENDS Naturals, FiniteSets

CONSTANTS
  Handles,       \* handles that requests name
  Passwords,
  NoUser,        \* the handle has no row in users
  Requests,      \* names of requests, each made once
  Body,          \* what each of them asks for
  MaxRequests,   \* MAX_REQUESTS: tries of one handle in one window
  Window,        \* WINDOW_SECONDS
  MaxTime,       \* bound on the clock
  Scenarios      \* bounds a behaviour may choose from

(* What is wrong with the body of a request, if anything *)
Shapes == {"ok", "no_json", "missing_field", "invalid_field"}

(***************************************************************************)
(* by is the handle in the body of register, login and find, and the user  *)
(* of the token in direct, which asks for the chat of by and target.       *)
(***************************************************************************)
Request == [kind : {"register", "login", "find", "direct"}, by : Handles,
            target : Handles, password : Passwords, shape : Shapes]

(***************************************************************************)
(* A scenario bounds one behaviour: the requests that are made, how many   *)
(* of them are under way at a time, how far the clock goes, from when on   *)
(* the clean-up is due, how many statements fail and how often the server  *)
(* stops.                                                                  *)
(***************************************************************************)
Scenario == [asked : SUBSET Requests, overlap : Nat, until : 0 .. MaxTime,
             cooldown : Nat, faults : Nat, crashes : Nat]

ASSUME AccountsAssumption ==
  /\ Body \in [Requests -> Request]
  /\ NoUser \notin Passwords
  /\ MaxRequests \in Nat \ {0}
  /\ Window \in Nat
  /\ MaxTime \in Nat
  /\ Scenarios \subseteq Scenario

VARIABLES
  users,      \* password of the row of each handle, as hashed
  saved,      \* handles whose user has a saved chat
  chats,      \* rows of direct chats: sets of two users
  members,    \* rows of chat_members of direct chats: pairs <<chat, user>>
  absent,     \* history: requests whose INSERT of a chat missed a user
  tokens,     \* users a token was issued to
  tries,      \* users_last_auth_try
  now,        \* the steady clock; 0 is its epoch
  stamp,      \* the time each login has read before it takes the mutex
  cleaner,    \* the time the clean-up has read; MaxTime + 1: it is not running
  overtaken,  \* history: logins that waited while their entry began anew
  pc,         \* where each request stands, or its answer
  faults,     \* failed statements so far
  crashes,    \* stops of the server so far
  scenario    \* the bounds of this behaviour, chosen at the start

rows == <<users, saved, chats, members, absent>>
limiter == <<tries, stamp, cleaner, overtaken>>
vars == <<rows, tokens, limiter, now, pc, faults, crashes, scenario>>

Answers == {"200", "201", "400", "401", "404", "409", "429", "500"}

(* register: create, get, save.  login: limiter, lookup.  direct: saved_of *)
(* or get_direct, find, chat, member1, member2.                            *)
Steps == {"create", "get", "save", "limiter", "lookup", "find_user",
          "saved_of", "get_direct", "find", "chat", "member1", "member2"}

DirectChats == {pair \in SUBSET Handles : Cardinality(pair) = 2}

(* UserLastAuthTry *)
Tries == [try_count : Nat, window_start : 0 .. MaxTime]

(* An entry that operator[] has just inserted; erased entries are like it *)
NoTries == [try_count |-> 0, window_start |-> 0]

TypeOK ==
  /\ users \in [Handles -> Passwords \cup {NoUser}]
  /\ saved \subseteq Handles
  /\ chats \subseteq SUBSET Handles
  /\ members \subseteq (SUBSET Handles) \X Handles
  /\ absent \subseteq Requests
  /\ tokens \subseteq Handles
  /\ tries \in [Handles -> Tries]
  /\ now \in 0 .. MaxTime
  /\ stamp \in [Requests -> 0 .. MaxTime]
  /\ cleaner \in 0 .. MaxTime + 1
  /\ overtaken \subseteq Requests
  /\ pc \in [Requests -> {"never", "new", "lost"} \cup Steps \cup Answers]
  /\ faults \in Nat /\ crashes \in Nat
  /\ scenario \in Scenarios

Init ==
  /\ users = [h \in Handles |-> NoUser]
  /\ saved = {} /\ chats = {} /\ members = {} /\ absent = {}
  /\ tokens = {}
  /\ tries = [h \in Handles |-> NoTries]
  /\ now = 0
  /\ stamp = [q \in Requests |-> 0]
  /\ cleaner = MaxTime + 1
  /\ overtaken = {}
  /\ scenario \in Scenarios
  /\ pc = [q \in Requests |-> IF q \in scenario.asked THEN "new" ELSE "never"]
  /\ faults = 0 /\ crashes = 0

-----------------------------------------------------------------------------
Goto(q, next) == pc' = [pc EXCEPT ![q] = next]

InFlight == {q \in Requests : pc[q] \in Steps}

Exists(h) == users[h] # NoUser

(* BCrypt: a hash stands for the password it was made from *)
VerifyPassword(password, hash) == password = hash

(* JsonValidatorFilter *)
HasJson(q) == Body[q].kind = "find" \/ Body[q].shape # "no_json"

FindMissedFields(q) == Body[q].shape = "missing_field"

(* isHandleValid, isPasswordValid: of register and login only *)
FieldsValid(q) == Body[q].kind \in {"register", "login"} => Body[q].shape # "invalid_field"

(* AuthFilter: a token never expires *)
Authorized(q) == Body[q].kind = "direct" => Body[q].by \in tokens

FirstStep(q) ==
  CASE Body[q].kind = "register" -> "create"
    [] Body[q].kind = "login" -> "limiter"
    [] Body[q].kind = "find" -> "find_user"
    [] Body[q].kind = "direct" /\ Body[q].by = Body[q].target -> "saved_of"
    [] OTHER -> "get_direct"

(***************************************************************************)
(* A request enters: filters, fields, validation.  A login then reads the  *)
(* clock, before it takes the mutex of the limiter.                        *)
(***************************************************************************)
Receive(q) ==
  /\ pc[q] = "new"
  /\ Cardinality(InFlight) < scenario.overlap
  /\ Goto(q, IF ~Authorized(q) THEN "401"
             ELSE IF HasJson(q) /\ ~FindMissedFields(q) /\ FieldsValid(q)
               THEN FirstStep(q) ELSE "400")
  /\ stamp' = [stamp EXCEPT ![q] = IF Body[q].kind = "login" THEN now ELSE @]
  /\ UNCHANGED <<rows, tokens, tries, cleaner, overtaken, now, faults, crashes,
                 scenario>>

-----------------------------------------------------------------------------
(* The limiter of logins *)

Expired(entry, time) == time > entry.window_start + Window

(* Mutant: the window is not restarted, only the count *)
CountAgain(entry, time) ==
  IF Expired(entry, time)
    THEN [entry EXCEPT !.try_count = 1]
    ELSE [entry EXCEPT !.try_count = @ + 1]

Count(entry, time) ==
  IF Expired(entry, time)
    THEN [try_count |-> 1, window_start |-> time]
    ELSE [entry EXCEPT !.try_count = @ + 1]

(* Logins to h that have read the clock and wait for the mutex *)
Waiting(h) == {q \in Requests : pc[q] = "limiter" /\ Body[q].by = h}

CheckUserAuthTries(q) ==
  /\ pc[q] = "limiter"
  /\ LET h == Body[q].by
         entry == Count(tries[h], stamp[q])
     IN /\ tries' = [tries EXCEPT ![h] = entry]
        /\ Goto(q, IF entry.try_count > MaxRequests THEN "429" ELSE "lookup")
        /\ overtaken' = IF Expired(tries[h], stamp[q])
             THEN overtaken \cup (Waiting(h) \ {q}) ELSE overtaken
  /\ UNCHANGED <<rows, tokens, stamp, cleaner, now, faults, crashes, scenario>>

(* The timer of the clean-up, first due one cooldown after the start,      *)
(* reads the clock, then waits for the mutex                               *)
StartCleanUp ==
  /\ now >= scenario.cooldown
  /\ cleaner = MaxTime + 1
  /\ cleaner' = now
  /\ UNCHANGED <<rows, tokens, tries, stamp, overtaken, now, pc, faults, crashes,
                 scenario>>

CleanUpOldUsersAuthTries ==
  /\ cleaner <= MaxTime
  /\ tries' = [h \in Handles |->
       IF Expired(tries[h], cleaner) THEN NoTries ELSE tries[h]]
  /\ cleaner' = MaxTime + 1
  /\ overtaken' = overtaken \cup
       UNION {Waiting(h) : h \in {g \in Handles : tries'[g] # tries[g]}}
  /\ UNCHANGED <<rows, tokens, stamp, now, pc, faults, crashes, scenario>>

Tick ==
  /\ now < scenario.until
  /\ now' = now + 1
  /\ UNCHANGED <<rows, tokens, limiter, pc, faults, crashes, scenario>>

-----------------------------------------------------------------------------
(* Steps that read or write rows and change nothing else *)
Plain == UNCHANGED <<tokens, limiter, now, faults, crashes, scenario>>

(* The credentials are checked against the row, if there is one *)
LoginUser(q) ==
  /\ pc[q] = "lookup"
  /\ IF Exists(Body[q].by) /\ VerifyPassword(Body[q].password, users[Body[q].by])
       THEN Goto(q, "200") /\ tokens' = tokens \cup {Body[q].by}
       ELSE Goto(q, "401") /\ UNCHANGED tokens
  /\ UNCHANGED <<rows, limiter, now, faults, crashes, scenario>>

GetUser(q) ==
  /\ pc[q] = "find_user"
  /\ Goto(q, IF Exists(Body[q].by) THEN "200" ELSE "404")
  /\ UNCHANGED rows /\ Plain

(* The INSERT fails if the handle is taken *)
Create(q) ==
  /\ pc[q] = "create"
  /\ IF Exists(Body[q].by)
       THEN Goto(q, "409") /\ UNCHANGED users
       ELSE /\ users' = [users EXCEPT ![Body[q].by] = Body[q].password]
            /\ Goto(q, "get")
  /\ UNCHANGED <<saved, chats, members, absent>> /\ Plain

(* Mutant: the saved chat is forgotten *)
GetByHandleOnly(q) ==
  /\ pc[q] = "get"
  /\ Goto(q, "201")
  /\ UNCHANGED rows /\ Plain

GetByHandle(q) ==
  /\ pc[q] = "get"
  /\ Goto(q, "save")
  /\ UNCHANGED rows /\ Plain

(* The transaction of two INSERTs, at its COMMIT *)
CreateSaved(q) ==
  /\ pc[q] = "save"
  /\ saved' = saved \cup {Body[q].by}
  /\ Goto(q, "201")
  /\ UNCHANGED <<users, chats, members, absent>> /\ Plain

-----------------------------------------------------------------------------
(* createOrGetDirectChat *)

Pair(q) == {Body[q].by, Body[q].target}

GetSaved(q) ==
  /\ pc[q] = "saved_of"
  /\ Goto(q, IF Body[q].by \in saved THEN "200" ELSE "500")
  /\ UNCHANGED rows /\ Plain

GetDirect(q) ==
  /\ pc[q] = "get_direct"
  /\ Goto(q, IF Pair(q) \in chats THEN "200" ELSE "find")
  /\ UNCHANGED rows /\ Plain

(* Found here, the chat is answered as if it had been created *)
FindDirect(q) ==
  /\ pc[q] = "find"
  /\ Goto(q, IF Pair(q) \in chats THEN "201" ELSE "chat")
  /\ UNCHANGED rows /\ Plain

(* The pair is unique, and both users must exist *)
InsertChat(q) ==
  /\ pc[q] = "chat"
  /\ LET missing == \E u \in Pair(q) : ~Exists(u)
     IN /\ IF Pair(q) \in chats \/ missing
             THEN Goto(q, "500") /\ UNCHANGED chats
             ELSE Goto(q, "member1") /\ chats' = chats \cup {Pair(q)}
        /\ absent' = IF missing THEN absent \cup {q} ELSE absent
  /\ UNCHANGED <<users, saved, members>> /\ Plain

(* Mutant: the user of the token is the only member *)
InsertMember1Only(q) ==
  /\ pc[q] = "member1"
  /\ members' = members \cup {<<Pair(q), Body[q].by>>}
  /\ Goto(q, "201")
  /\ UNCHANGED <<users, saved, chats, absent>> /\ Plain

(* The user with the lower id comes first; the model leaves open who it is *)
InsertMember1(q) ==
  /\ pc[q] = "member1"
  /\ \E u \in Pair(q) : members' = members \cup {<<Pair(q), u>>}
  /\ Goto(q, "member2")
  /\ UNCHANGED <<users, saved, chats, absent>> /\ Plain

(* Mutant: the same user again, which violates the key *)
InsertMember1Again(q) ==
  /\ pc[q] = "member2"
  /\ Goto(q, "500")
  /\ UNCHANGED rows /\ Plain

InsertMember2(q) ==
  /\ pc[q] = "member2"
  /\ members' = members \cup {<<Pair(q), u>> : u \in Pair(q)}
  /\ Goto(q, "201")
  /\ UNCHANGED <<users, saved, chats, absent>> /\ Plain

-----------------------------------------------------------------------------
(* Any statement may fail.  create takes every failure for a taken handle. *)
Fails(q) ==
  /\ faults < scenario.faults
  /\ faults' = faults + 1
  /\ pc[q] \in Steps \ {"limiter"}
  /\ Goto(q, IF pc[q] = "create" THEN "409" ELSE "500")
  /\ UNCHANGED <<rows, tokens, limiter, now, crashes, scenario>>

(* The server stops and starts again: requests and the limiter are gone *)
Crash ==
  /\ crashes < scenario.crashes
  /\ crashes' = crashes + 1
  /\ pc' = [q \in Requests |-> IF pc[q] \in Steps THEN "lost" ELSE pc[q]]
  /\ tries' = [h \in Handles |-> NoTries]
  /\ cleaner' = MaxTime + 1
  /\ UNCHANGED <<rows, tokens, stamp, overtaken, now, faults, scenario>>

-----------------------------------------------------------------------------
Handle(q) ==
  \/ CheckUserAuthTries(q) \/ LoginUser(q) \/ GetUser(q)
  \/ Create(q) \/ GetByHandle(q) \/ CreateSaved(q)
  \/ GetSaved(q) \/ GetDirect(q) \/ FindDirect(q)
  \/ InsertChat(q) \/ InsertMember1(q) \/ InsertMember2(q)

Next ==
  \/ \E q \in Requests : Receive(q) \/ Handle(q) \/ Fails(q)
  \/ StartCleanUp \/ CleanUpOldUsersAuthTries \/ Tick \/ Crash

Spec == Init /\ [][Next]_vars

-----------------------------------------------------------------------------
Registering(q, h) == Body[q].kind = "register" /\ Body[q].by = h

(* A registration of h ended after its INSERT: by an error or by a stop    *)
Interrupted(h) ==
  \E q \in Requests : Registering(q, h) /\ pc[q] \in {"500", "lost"}

(* Who is told that he is registered has a user and a saved chat, and his  *)
(* password is the one kept, whoever else asked for the handle meanwhile.  *)
RegisteredMeansUsable ==
  \A q \in Requests : Body[q].kind = "register" /\ pc[q] = "201" =>
    users[Body[q].by] = Body[q].password /\ Body[q].by \in saved

Winners(h) ==
  {q \in Requests : pc[q] \in {"get", "save", "201"} /\ Registering(q, h)}

(* Of several registrations of one handle at most one creates the user,    *)
(* and its later steps are its own.                                        *)
OneRegistrationWins ==
  \A h \in Handles : \A q, r \in Winners(h) : q = r

(* A user without a saved chat is about to get it, or the registration was *)
(* interrupted after its first statement.                                  *)
HalfAccountsExplained ==
  \A h \in Handles : Exists(h) /\ h \notin saved =>
    \/ Interrupted(h)
    \/ \E q \in Requests : Registering(q, h) /\ pc[q] \in {"get", "save"}

(* A direct chat without both members is being created, or its creation    *)
(* was interrupted between its statements; nobody else fills it in.        *)
DirectChatsComplete ==
  \A pair \in chats :
    \/ \A u \in pair : <<pair, u>> \in members
    \/ \E q \in Requests : Body[q].kind = "direct" /\ Pair(q) = pair
         /\ pc[q] \in {"member1", "member2", "500", "lost"}

(* Whoever asks for the direct chat of two users that exist, somebody gets *)
(* it unless something failed: overlapping requests do not all end in an   *)
(* error, although the INSERT of the second one does.                      *)
SomebodyGetsTheChat ==
  faults = 0 /\ crashes = 0 =>
    \A q \in Requests \ absent :
      Body[q].kind = "direct" /\ Body[q].by # Body[q].target /\ pc[q] = "500" =>
        \E r \in Requests : Body[r].kind = "direct" /\ Pair(r) = Pair(q)
                             /\ pc[r] \in {"member1", "member2", "201"}

(* Logins to h that the limiter let through *)
Passed(h) ==
  {q \in Requests : /\ pc[q] \in {"lookup", "200", "401", "500"}
                    /\ Body[q].kind = "login" /\ Body[q].by = h}

(* Those that read the clock within a window's length from time on *)
PassedFrom(h, time) ==
  {q \in Passed(h) : stamp[q] \in time .. time + Window}

(* In any stretch of a window's length no more than two windows' worth of  *)
(* tries of a handle pass, whenever the clean-up runs.  The exception is a *)
(* try that reads the clock, then waits for the mutex while its entry is   *)
(* erased or begins anew: it is counted in a window that it is too old     *)
(* for, or starts one that is already over.                                *)
AtMostTwoWindows ==
  crashes = 0 => \A h \in Handles :
    (\A q \in overtaken : Body[q].by # h) =>
      \A time \in 0 .. MaxTime :
        Cardinality(PassedFrom(h, time)) <= 2 * MaxRequests
=============================================================================
