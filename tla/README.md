# Messenger-ALYOsha in TLA+

A model, checks and proofs of the messenger: a server where coroutines overlap at
every SQL statement, and a client whose replies and pushes arrive when they like.
`src/...` paths below are relative to the repository; `PROJECT.json` maps every
definition to the lines it stands for.

## 1. The system

A C++ server (Drogon: 64 IO threads, 50 Postgres connections, coroutines) and a
Qt/QML client with local SQLite stores.

| part | state | operations | talks to |
|---|---|---|---|
| `WebsocketClientNotifier` | `clients_`: user → connection, `is_syncing`, `pending_messages`; one shared mutex | notifyClient, addConnection, removeConnection, finishSync, shutdown | services push through it; the websocket controller opens, closes and syncs |
| `SecretChatsRepository` | tables `e2e.handshakes_pool`, `e2e.messages_pool` | save (check users, then insert or upsert), pop (DELETE RETURNING), removeStaleRecords | Postgres |
| `SecretChatsService` and controller | none of its own | chatInit, chatAccept, deleteChat, sendMessage, readMessage: push, or store if nobody is registered; syncOfflineData; a 24 h clean-up timer | notifier, repository |
| `ServerWebSocketController` | none | new connection: register, start the synchronising coroutine; close: unregister | notifier, service |
| `ChatController`, `ChatService`, `ChatRepository` | tables chats, chat_members | direct, saved and group chats, members and roles, send, history, previews, read marks, links for attachments | Postgres, notifier, storage |
| `MessageRepository`, `AttachmentRepository` | tables messages, attachments | send in a transaction, edit, remove, pages | Postgres |
| `UserController`, `UserService`, `UserRepository` | `users_last_auth_try` under a mutex; table users | register, login with a limit of tries per window, its clean-up loop, look-ups | Postgres |
| `S3Service` | the storage client | set-up of the bucket with retries; presigned links; kinds of files | storage |
| generated classes (`server/models`) | a row and its dirty flags | setters, insert, update of what is dirty | Postgres |
| `SecretChatManager`, `SecretDatabaseManager`, `CryptoManager` | SQLite: chats, messages, attachments, keys; the directory of decrypted files | the handshake, encrypting, sending, receiving, receipts, deleting; uploading and downloading encrypted files | HTTP API, websocket, storage |
| `ChatManager`, `LocalChatStorage` | SQLite: messages, chat previews; the websocket | fetch, page, send, receive pushes, direct chats and groups | HTTP API, websocket |
| `StateManager`, `AuthManager`, `ConnectionManager` | token and user id, in memory and in QSettings | login, user id, logout, settings, start | HTTP API |
| `MediaManager`, `MediaCacheManager`, `VoiceManager` | cache directory, `m_activeDownloads`, the recorder | record, upload, serve a file from the cache or fetch it | HTTP API, storage |

### What is hard in it

* **Push or store.** `notifyClient` answers under a lock, the INSERT follows
  after a `co_await`; a user may connect, synchronise, reconnect or vanish in
  between. The session map is keyed by user, so an old connection's close handler
  and an old coroutine act on the newer session.
* **Pop, then send.** Offline rows are deleted before they are handed to a socket.
* **Check, then act.** Chat membership is read outside the transaction that
  changes it; a handle, a saved chat and a direct chat are made in several
  statements, of which only some are one transaction.
* **Read, change, write back.** Rows are objects between a SELECT and an UPDATE.
* **Ids and commits.** A sequence gives ids in one order and transactions commit
  in another; read marks, pages and unread counts compare ids.
* **Limits.** Fifty members, fifty database connections of which a forward takes
  two, a number of login tries per window.
* **Late replies.** The client never aborts a request; its reply may find another
  user logged in, a cleared cache, or a file that is gone. Websocket and HTTP race.
* **Chains that stop half-way.** Encrypt, ask for links, put, post; get, decrypt,
  save the path: each link may fail, the disk may be full, either side may stop.

### What makes each part correct

* relay: nothing delivered twice or to somebody else; an accepted message is
  stored, on its way or delivered unless something happened to the acceptor's
  connection; an error reply means "not relayed"; keys before what they encrypt;
  no session stuck in synchronising.
* groups: never more than the limit; one owner; nobody joins but by an add.
* accounts: one registration of a handle succeeds; half-made accounts and direct
  chats have an explanation; overlapping requests for a direct chat do not all
  fail; the limiter lets a bounded number of tries through.
* messages: with all of their attachments or not at all; every member is told, or
  was added when the history already showed the message; reading up to a message means having got those before it; a preview with a new
  message counts it; the pool jams only if it is full of forwards.
* rows: overlapping changes of different columns do not undo each other.
* secret chats: whoever holds a chat active holds the same secret as the peer;
  what is sent can be opened; deleted stays deleted; nothing hangs.
* the client's cache: no holes it does not know of; users do not mix.
* files: what has a local path is whole; what can be decrypted is fetched in the end.

## 2. Modules

| module | models | used by |
|---|---|---|
| `SecretMessages` | what clients post to the relay, and the envelope that travels | all of the relay |
| `ClientNotifier` | the notifier plugin and the connections under it | `SecretRelay` |
| `SecretPools` | the two pools, one action per statement | `SecretRelay` |
| `SecretRelay` | request coroutines, synchronising coroutines, close handlers, timer, stops; composes the two above | runs, proofs |
| `Mailbox`, `SecretRelayMailbox` | what a relay promises its senders, and the refinement mapping | `MCSecretRelay` |
| `GroupMembers` | a group's members under overlapping requests, with transactions and row locks | runs, proofs |
| `Accounts` | users, saved and direct chats, the limiter of logins | runs, proofs |
| `S3Service` | the set-up of the bucket, call by call; the kinds of files | `ChatMessages` |
| `ChatMessages` | sending, forwarding, pages, previews, read marks, links, members who are added and leave; the pool of connections; composes `S3Service` | runs, proofs |
| `RowStore`, `TableRows` | atomic changes of columns; rows read, changed as objects and written back, which implements them | runs, proofs |
| `SecretChats` | the clients' side of secret chats: two databases, calls, callbacks, packets | runs, proofs |
| `ClientChats` | the session and the ordinary chats of one client with its requests, websocket and tables | runs, proofs |
| `ClientFiles` | recording, uploading, posting, downloading, decrypting and caching files | runs, proofs |
| `MC*` | instances for TLC | the `.cfg` files |
| `*Proofs` | theorems about the module they are named after | tlapm |

Definitions under a comment that begins "Mutant:" are not part of a model: each
is a small bug of the code, and replacing the definition it is named after by
it breaks the property that `PROJECT.json` lists it with. A variable described
as "history" is not in the program: it records something that really happened,
so that a property can name its exceptions.

### The relay: `ClientNotifier`, `SecretPools`, `SecretRelay`

`clients` is `clients_`; `is_syncing` and `pending_messages` are the fields of
`ClientSession`. A method that runs under one lock is one operator; `notifyClient`
takes a shared lock, releases it and takes the exclusive one, so it is
`NotifyShared` and `NotifyExclusive`, with `req[m] = "notify"` between them.
`wire[c]` is everything handed to a connection while it was open. `conn[c]` is
"down" between the loss of the connection and drogon's close handler.

The pools are sets of rows. Each SQL statement is an action of its own, because
every `co_await execSqlCoro` lets other coroutines run: `Validate` counts the
two users, `Insert` inserts or upserts, `SyncHandshakes` and `SyncMessages` are
the two `DELETE ... RETURNING`, `CleanHandshakes` and `CleanMessages` the two
statements of the timer. The upsert keeps the chat id of the row, as the SQL
does; that is why an envelope carries a chat id beside its message. Rows that a
pop returns come in any order.

A request goes unsent → notify → validate → insert → ok or error. `sync[c]` is
the coroutine that a new connection starts, and `offline` its local list
`offline_data`. `Crash` is a stop of the process: memory is gone, tables stay,
an INSERT on its way may or may not have reached Postgres.

### The members of a group: `GroupMembers`

`role` is the committed column of `chat_members`, `draft[q]` what the open
transaction of a request has written. Each statement is an action; it reads the
committed rows and waits (`Writable`) while another transaction has written the
row it writes. `Ask` is the role of the sender, which the service reads outside
any transaction; `asked` keeps it, as the coroutine does. An early `co_return`
destroys the transaction object, and drogon commits then: `EndTx`. A statement
that fails rolls back: `AbortTx`. `Requests` gives each request once.

### Users and direct chats: `Accounts`

`users[h]` is the password of a handle's row, `saved` who has a saved chat,
`chats` and `members` the rows of direct chats. `Body[q]` is what a request asks
for and how its body is malformed, if it is; `pc[q]` is the statement it stands
at, and at last its answer. Registration is `Create`, `GetByHandle`,
`CreateSaved`; of these only the last is a transaction. A direct chat is
`GetSaved` (with oneself), or `GetDirect`, `FindDirect`, `InsertChat`,
`InsertMember1`, `InsertMember2`, each of which commits alone; the unique index
on the pair fails a second `InsertChat`.

The limiter reads the clock before it takes the mutex: `stamp[q]`. `tries` is
`users_last_auth_try`, `cleaner` the time that the clean-up loop has read before
it takes the same mutex. `Tick` moves the clock. `overtaken` are the logins that
had read the clock and waited (`Waiting`) when their entry was erased or began a
new window.

### Messages: `ChatMessages`, `S3Service`

A request is named, and so is the message it sends. `id[q]` is taken from the
sequence at the INSERT (`InsertMessage`), `stored` are the committed ones, so
that the order of ids and the order of commits differ as they may. `held` are
the requests whose transaction has a connection of the pool; a statement outside
a transaction needs a free one for its duration (`ConnectionFree`), and a
forward inside one needs a second ("name"). After the commit, outside the
transaction, `GetMembers` reads the members into `list`, `Push` hands the message
to the notifier for one of them at a time (`told`), and when none is left the
request is answered; members leave (`Leave`) and are added (`AddMember`) at any
point between. `AddMember` is the transaction of `addGroupChatMember` from the
lock of the chat row on; it waits for uncommitted messages of the chat, whose
foreign key holds that row (`LockedOut`). Roles and the limit are the subject of
`GroupMembers`. `earlier` remembers what the history held when a member was last
added. `mark` is `last_read_message_id`; `markAsRead` reads the member and writes whatever id it
was given. `found`, `base` and `unread` are what a page or a preview has read.
What a user has got (`Got`) is what the answers and pushes have brought him.

The constructor of `S3Service` runs before requests are taken. `server` is where
it stands: before `BucketExists`, before either of its two calls of `MakeBucket`
("absent" after the answer that there is no bucket, "unknown" after an error that
names a missing one), up, or dead. The first of these calls throws at any error;
the second takes "already exists" for success and tries again at any other. A
call may make the bucket and lose its answer, and another process may make it
between two calls (`MadeElsewhere`). A token stands for a link that was
given out by a request for links, and carries the kind of file that
`sendMessage` validates.

### Rows: `TableRows` implements `RowStore`

One class of the ORM stands for all, since they are generated from one template.
`table` and `exists` are committed; `object[q]` is the object a request works on
with its dirty flags. `Update` names the columns that are dirty, `Insert` those
that are set; `lock` is Postgres' row lock of a transaction. `RowStore` is what
the repositories promise: each change happens at once, to the columns named. The
mapping is the identity on `table` and `exists`.

### Secret chats at the clients: `SecretChats`

`status`, `secret`, `saved` and `read` are the tables of each client's SQLite
file; `identity` numbers the key pairs a user has had, so that a shared secret is
the set of the two public keys it was computed from. A callback of the Qt event
loop runs to its end and is one action. A call to the server is a record in
`calls` that goes from posted to ok or error, possibly after a check of the peer
or an upload; `other` is what its lambdas captured. The server's step and the
reply are apart: the peer may get a packet before its sender gets the reply.

`mailbox` stands for the relay: it hands packets on in any order, since a
handshake may wait in a pool while later messages are pushed, and it may let a
handshake replace an earlier one of the same two users (`TakeIn`), as the upsert
does. `merged` are the chats that this has happened to with another chat's
handshake, and `unheard` the messages taken in whose sender got no reply.
`SecretRelay` is where the relay itself is checked.

A client that stops loses its callbacks; what it has posted may still arrive
("orphan"). `Restart` keeps the database, `NewDevice` starts with an empty one
and new keys.

### One client's session and chats: `ClientChats`

`token` and `userId` are those of `StateManager`, a token being the user it was
issued to; `disk` is QSettings. `calls` are requests under way: `auth` is the
token that `ConnectionManager` added when the request was made, `before` and
`oldest` what the lambda of `fetchChatHistory` captured. `Serve` is the server's
step, `Reply` the callback; between them the user may do anything, log out
included, as nothing aborts a request. `messages` and `previews` are the tables,
`shown` what was cleared from the table while a page may still show it.
`wire` are pushes under way on the websocket that `socketUser`'s token opened.
A socket that is lost is not opened again before the next login or start.

The server here is the chat server when messages are committed one after the
other; what happens when they are not is the subject of `ChatMessages`.

### Files: `ClientFiles`

A file's content is one of `Forms`: whole, part of its source, or one of the ways
in which an encrypted file can be incomplete. `sends[m]` is the chain of one
message: the files it was given, encryptions that run (`jobs`), puts under way,
the counter `pending` of the code, the payload at last. `rows`, `path`, `disk`,
`temp`, `active` and `stage` are the receiver's table, directory, `.enc` files
and `m_activeDownloads`. Each way out of a download is a step with its own
clearing of `active`: no link (`UrlFails`), no file to write it to (`OpenFails`),
no object (`GetFails`), and the end of decryption. `media`, `mediaActive`, `fetching` and `served` are the
media cache. Stops of either side lose what is in memory and leave half-written
files.

## 3. Runs

| run | instance | shows |
|---|---|---|
| `relay_overlap` | two connections of one user, two handshakes of a pair and a message; no faults | nothing relayed twice (`AtMostOnce`); nothing lost for an undisturbed user (`NothingLost`); a key before what it decrypts (`HandshakeFirst`) |
| `relay_faults` | five instances (below) with a failed statement or a stop | buffers get flushed; an error means "not relayed"; a foreign chat id comes only by the upsert; the relay implements `Mailbox` |
| `relay_live` | two connections, a failed statement, a request to an unknown user; fair | synchronisations end, what is on its way arrives |
| `relay_stale_close` | as above, no faults | **fails**: see findings |
| `group` | six requests of which three run at once, and six one after the other; limit 3; a failed statement; fair | the limit, only an add makes a member, one owner if requests do not overlap, every request is answered |
| `accounts` | three registrations, two logins and two requests for one direct chat, three at once, or two with a fault or a stop; eight single requests, some malformed; two tries a window for one handle: six tries over three windows, and five with the clean-up | half accounts and half direct chats are explained; overlapping requests for a direct chat do not all fail; at most two windows' worth of tries pass |
| `server_messages` | sixteen scenarios of a room of three: two senders, a reader who pages and marks, previews, forwards on a pool of two, attachments, a member who leaves, one who is added, one who leaves and comes back, faults and stops; the set-up of the bucket | the server is up only with its bucket, messages are whole, a member is told or finds the message in the history, read means got, previews count, the pool jams by forwards only, marks move back by overlaps only |
| `table_rows` | four rows, the requests of each made together; a failed statement and a stop; fair | text and time of an edit belong together; what failed leaves nothing; `TableRows` implements `RowStore`; no row stays locked |
| `secret_chats` | two chats of one pair that cross, a message with a file, at most three calls and packets under way, a fault, a restart or new device | secrets agree; messages on their way can be opened; no ghost messages, no hanging invitation, no resurrection of a deleted chat |
| `secret_ready` | a chat and a message, no faults | **fails**: see findings |
| `client_chats` | eight scenarios of ann and bob on one device: three posts, two requests under way at a time, pages of two, logins, logouts, restarts, lost replies | the cache has no unexplained holes; accounts stay apart; token and user id agree |
| `client_files` | three scenarios of a photo, a paper and a voice in two messages; failing requests, a full disk, stops; fair | a message is posted with all that could be uploaded, and stalls only for an unsaved row; whatever decrypts is fetched in the end; files with a path are whole |

Types and inductive invariants are proved and therefore not run.

### Bounds

Most instances let a behaviour choose one of several **scenarios** at its start: a
set of requests, how many of them overlap, and how many faults and stops strike.
The scenarios of a run are explored in full; a case that needs two of them
together (say, a fault among four overlapping requests) repeats steps that each
of them has. A failed statement and a stop can strike at every step.

* Relay. Two connections are enough for an old one's close handler or coroutine
  to act on a newer session, and three messages for an upsert, a row that waits
  for its handshake and a live message that overtakes. `relay_faults` explores
  five instances at once under a constraint on messages, connections and faults;
  since nothing takes back a post, an opening or a fault, the constraint cuts off
  no behaviour of any of the instances. The two connections are interchangeable
  where SYMMETRY is used: both belong to one user and nothing else names them;
  those runs check no liveness.
* Groups. A limit of three with two founders leaves one seat for two adds; the
  code's fifty is `Limit`. Three requests at once make circles of two waiting
  transactions and a third that changes rows meanwhile.
* Accounts. Two overlapping requests show every race for a unique row. Six tries
  with two a window are the fewest by which a login that waits through the start
  of a window lets a fifth one into one window's length, and five are enough for
  the clean-up to do so; without either exception of `overtaken` the run fails.
  The tries are interchangeable (SYMMETRY over four of them): they ask for the
  same, and each scenario has all four or none.
* Messages. Two senders and a page read between their commits; a pool of two is
  jammed by two forwards; a page of two splits three messages; two attachments
  are more than one row. A member is added while one message is committed and
  another is being pushed, and reads; another leaves and is added again.
* Secret chats. With two invitations of one pair, one from each side, an
  acceptance or deletion of the one may take the place of the other in the pool.
  `MaxUnderway` bounds the calls and packets under way at the moment when a user
  does something new (replies and packets themselves are never held back): three
  let an acceptance, a message and a deletion overtake one another. The theorems
  assume no bound.
* Client. Two requests under way are a reply that overtakes, or a late one; three
  posts are what was saved, a hole and what comes after it; a page of two leaves
  one of three. Each of the two users has a chat of his own, so that whatever is
  in a table tells whose it is.
* Files. Two files of one message fail each on its own; the voice is the one that
  may be read too early; a file may be downloaded and decrypted again after each
  stop.

`OneOwner` speaks of requests that do not overlap (`OneAtATime`) and do not hand
the group over to their own sender (`ToOthers`), since both leave a group without
its one owner (section 4).

Deadlock is not checked: every system here may stop when its finite requests
are served, and a pool of connections may jam (`NoJamBelowPoolSize` says when).

### Fairness

* Relay: a coroutine that runs goes on (the IO threads are never blocked by the
  modelled code), and drogon runs the close handler of a dead connection. Nobody
  need post, connect, age or fail.
* Groups and rows: the statement a request stands at is executed some day;
  Postgres grants a lock when it is free and, after `deadlock_timeout`, fails one
  of a circle of waiting transactions.
* Files, for `FetchedInTheEnd` only (`LiveSpec`): the callback that a download
  waits for comes some day, with success or failure, as Qt emits `finished` for
  every reply and future; and the user opens the chat again and again, which is
  what retries a download. Failures are bounded, so that one try is the last to
  fail.
* Everywhere else: none. A reply may never come.

### What is assumed of what is not in the repository

A failed SQL statement changes nothing; an UPDATE without dirty columns does
nothing or is an error. Drogon's `Transaction` commits when it is destroyed
without a rollback. A COMMIT that fails is taken not to have committed; one whose
outcome stays unknown is covered by `Crash`. Postgres runs READ COMMITTED, its
default, with row locks and deadlock detection, and a sequence never gives an id
twice. `connection->send` on an open connection keeps order. A packet is not
altered on its way, and X25519 gives two parties the same secret exactly when
each has used the other's current key. Storage keeps an object under the link it
gave out. A client awaits the answers that `Prior` names before it posts (the
acceptor's key cannot be used before the acceptance has succeeded), and marks as
read the newest message it has got.

## 4. Findings

1. `relay_stale_close`: `removeConnection` erases by user id. The late close of
   an old connection drops the session of the new one, which stays open but gets
   no notification any more.
2. `secret_ready`: the acceptor computes the secret in the reply to its accept
   request; a message that overtakes this reply is dropped.

Modelled as they are, without a run of their own:

* An owner who hands a group over to himself is made owner and then admin, and
  nobody owns the group; two overlapping transfers leave two owners.
* A read receipt is decoded from base64 once more than it was encoded, so that
  none is ever understood.
* A deletion that arrives while the peer of an invitation is still being looked
  up is undone by the reply (`DeletedStaysDeleted` is about the client that
  deletes).
* `docs/server_api.md:46` says that 409 means the handle exists; the code answers
  409 to any database error of the INSERT (`UserRepository.cpp:67`). Marking a
  chat as read is documented to answer a non-member with 403; he gets 500.
* An edit whose row was deleted meanwhile answers success.
* A message whose reply is lost is deleted at its sender and kept by its receiver
  (`unheard`); two secret chats of a pair whose handshakes meet in the pool mix
  (`merged`).
* If `BucketExists` says that there is no bucket and another server makes it
  before this one does, the "already exists" that follows is thrown and the
  server does not start; the other branch expects this answer.
* A login or logout while a login is under way can leave a token without its user
  id, or with another's, saved (`overlap`); a reply for a user who has left fills
  the tables of the next one (`late`).
* A login that waits for the mutex is counted by the time it read before. If the
  clean-up erases its entry meanwhile, it may start a window that is already
  over; if another login starts a new window meanwhile, it is counted in that
  one. Either way three windows' worth of tries can fall into the length of one
  (`overtaken` in `Accounts`).
* A secret message one of whose attachments cannot be saved is never posted and
  never fails (`StallsOnlyUnsaved`); a voice is read before the recorder has
  finished the file (`torn`).
* A push that is lost with the websocket is a hole in the cache that nothing
  fills, since nothing reopens the websocket (`torn` in `ClientChats`).

## 5. Theorems

For every value of the constants that satisfies the modules' named assumptions:

| module | theorem | by |
|---|---|---|
| `SecretRelayProofs` | `TypeCorrect` | types step by step |
| | `DeliveredAtMostOnce`, `KeptInOnePlace`, `RefusedStaysRefused` | `RelayInv` |
| | `BuffersGetFlushed` | itself, with the types |
| | `DeliveredToTheAcceptor` | `AddressInv` |
| | `ForeignChatIdsAreKnown` | `ChatIdInv` |
| | `NothingIsLost`, `RelayImplementsMailbox` | `SessionInv`, `KeptStep` |
| | `HandshakesComeFirst` | `OrderInv` |
| `GroupMembersProofs` | `TypeCorrect`, `LimitHolds`, `RowsComeFromAdds` | `GroupInv` |
| | `OneOwnerAtATime` | `OwnerInv` |
| `AccountsProofs` | `TypeCorrect`, `OneRegistrationOnly`, `RegistrationIsUsable`, `HalfAccountsAreExplained`, `DirectChatsAreComplete`, `SomebodyGetsTheDirectChat` | `AccountsInv` |
| | `TwoWindowsAtMost` | `LimiterInv` |
| `ChatMessagesProofs` | `TypeCorrect`, `RequestsNeedTheBucket`, `RefusedMessagesAreNotStored`, `AttachmentsAreWhole`, `NewcomersMissNothing`, `PreviewsCountTheirLast`, `PoolJamsByForwardsOnly` | `ChatInv` |
| | `ReadIsGot`, `MarksMoveBackByOverlapOnly` | `OrderInv` |
| `TableRowsProofs` | `TypeCorrect`, `StoreImplemented`, `FailuresLeaveNothing` | `TableInv` |
| | `EditsStayTogether` | `TogetherInv` |
| `SecretChatsProofs` | `TypeCorrect` | types |
| | `DeletedChatsStayDeleted` | types |
| | `SecretsAgree` | `KeysInv` |
| | `MessagesReadable` | `MessagesInv` |
| | `NoGhostMessages` | `MessagesInv`, `SendersKeep` |
| | `InvitationsEnd` | `HangInv` |
| `ClientChatsProofs` | `TypeCorrect` | types and `RepliesOK` |
| | `SessionsBelongTogether` | `SessionInv` |
| | `AccountsKeptApart` | `AccountsInv` |
| | `SavedWithoutHoles` | `HolesInv` |
| `ClientFilesProofs` | `TypeCorrect`, `PostedWithAllTheRest`, `StallsForUnsavedOnly` | `SenderInv` |
| | `FilesAreWholeOrTorn` | `FormsInv` with `ClipIsNew` |

**Nothing twice** (`RelayInv`). `AtMostOnce` alone is not inductive: a message
could be on a wire and in a pool. The invariant follows a message through its
places: rows are sorted by kind and unique, no list repeats a message or shares
one with its like, only a coroutine between its pops carries rows, and a message
is in at most one kind of place and in none before its request is answered. Each
action moves a message from one place to the next. `AddressInv` says of the same
places that what they hold is kept under the user it is for, and `ChatIdInv` that
the chat id it bears is its own or that of an accepted handshake of the same pair.

**Nothing lost, and the mailbox** (`SessionInv`, `KeptStep`). A message can be
lost only where it leaves a place without reaching the next, so the invariant
ties the places together: the open connection of a user whom nothing has
disturbed is the one that is registered, and is syncing exactly while its
coroutine runs (`OwnSession`), so what a coroutine flushes or sends meets an open
socket. `KeptStep` says of each action that what was held or delivered before it
still is, unless the message is superseded, aged or its user disturbed.
`NothingLost` follows, and so does the refinement: the fate of a message in
`Mailbox` is a function of its places, each action changes the fate of messages
only in the ways the mailbox allows, and a step that merely moves a message on is
a stutter.

**Keys first** (`OrderInv`). `Ordered` says that along pool, coroutine, buffer
and socket a message has neither overtaken the handshake its sender waited for
nor can do so: a list that holds both holds them in order, and where the message
has come as far as one place, the handshake is in none behind it. This rests on
the order of the two pops, on `finishSync` sending the offline rows before the
buffer, and on `Prior`, the answers a client awaits; `RelayAssumption` asks of
`Prior` that it names only messages of the same sender.

**The limit** (`GroupInv`). Counting and inserting are apart. Whoever is between
them holds the chat row alone, there is room for the member it adds, and nobody
else's drafts make a row: a transaction of another kind writes only rows that
exist.

**One owner** (`OwnerInv`). While one request at most is under way, the rows are
still as they were when it read its sender's role (`StillAllowed`), and the draft
of its transaction is a function of the statement it stands at
(`DraftsAsWritten`). At each possible end, COMMIT, early return or rollback, what
is written therefore leaves one owner, since a transfer writes its target before
its sender and both rows were seen to exist.

**Accounts** (`AccountsInv`). What connects the statements of a registration is
that the winner of the unique handle is the only one past `create` (`Winners`),
so that the password found later is its own; what connects those of a direct chat
is that a row of a chat belongs to a request that has got it or goes on, as long
as nothing failed (`ChatsAreGot`).

**The limiter** (`LimiterInv`). The number of tries in a span of time is bounded
by following the window that began last: of the tries since its start, and of
those less than a window's length before it, at most `MaxRequests` passed each
(`Since`, `JustBefore`), and none is later than its end. Two windows begin more
than a window's length apart, so any span that a new try falls into is covered by
the two sets. The entry either still counts the window, or the clean-up has
erased it when it was over for everybody who waits. Trying to prove the property
without the second exception (a new window, not only a clean-up) failed; TLC then
found the six tries that break it.

**Messages** (`ChatInv`). Whether a request's message is stored is known from
where it stands (`StoredSends`): before COMMIT it is not, after it is, and faults
and stops leave both. The rows of attachments counted so far are those of the
tokens handled so far (`FilesCounted`), and each link that was given out fits the
type it was asked for (`LinksFit`). A preview has read its mark before its last
message and counts afterwards (`Previews`), and nothing removes a message, since no
route does, so the count includes the last. The pool is full only of open
transactions (`HeldInTx`).

**Newcomers** (`ToldInv`). Once the list is read, each other member is in it, told
already, or was added when the message was stored already. An addition keeps this
because the list is read after the commit, so that whoever joins later joins when
the message is in the history; a departure only takes somebody out of question,
and who comes back is a newcomer.

**The bucket.** `UpMeansBucket` is inductive once each of the three ways up is a
step of its own: found, made with an answer, and refused as existing in the one
branch that accepts this; no step removes a bucket.

**Ids and commits** (`OrderInv` of `ChatMessages`). Ids are handed out in one
order and committed in another, and `overtaken` names what was committed late:
whatever has an id below that of a stored message is stored too or overtaken
(`CommitsInOrder`). So a page leaves out from between its messages only what was
overtaken (`PageWhole`), and what a read request marks is a message its user got
(`Targets`). A mark is at most the target of any request that met no other of its
user (`Apart`), which is why only a crossed one can move it back; the exception
is a sender whose message was committed and answered with an error, since he does
not know of the mark it left. `ReadMeansGot` does not promise what the code does
not: a user who was offline and reads only the newest page has not got what lies
before that page.

**Rows** (`TableInv`). An object that is written carries the values of its own
request in exactly the columns the request names, and a lock is that of a
transaction that is about to commit. A commit is then the abstract change; every
other step stutters.

**The secrets** (`KeysInv`). The two clients compute the secret at different
times from keys that may be old. A handshake of a chat has one carrier at a time
(a call, then a packet, and so on), so nobody is active before the carrier has
come far enough; and while a user keeps the row of a chat, every key and secret
on its way for it is under the user's present keys, because new keys come with an
empty database, and `initSecretChat` updates a row but never makes one. Steps
that leave the handshake of a chat alone, or hand it to the relay, are one lemma
(`Following`); the five that take it further are a lemma each. What `SecretsAgree`
excepts is only what the relay did to it: a chat in `merged`, whose handshake was
given the id of another chat's by the upsert, or lent its own. For such a pair
the statement is false. All other chats keep their invariant beside them, since
`TakenInChat` shows that the pool replaces a handshake of an unmerged chat only by
one of the same chat. The three theorems below except the same chats.

**Secret messages** (`MessagesInv`, `SendersKeep`, `HangInv`). `Fits` says of a
message under way with which key it will open: the secret of its receiver if he
is active, and otherwise the one that an acceptance under way will give him. A
sender drops his copy only in the reply to the one call that the message has
(`TextCalls`); until that call has ended well nobody else has it (`Unsent`), and a
reply that is an error, although the relay took the message in, is in `unheard`
(`SendersKeep`). So no other fault, restart or new device makes a ghost. A pending row always has something under way that will move it
on (`WillMove`): the handshake, or a deletion that has taken its place in the
pool; the invitation of a chat is looked up only once and before its creator has
a row (`CreatedOnce`), so nothing late makes one again. `DeletedStaysDeleted`
needs no more than the types: the only step that makes a row at the creator is
the reply to that look-up, which it names.

**One device, two users** (`SessionInv`, `AccountsInv` of `ClientChatsProofs`).
Unless logins overlap there is at most one login or request for the user id under
way, a login only while there is no token, a request for the id only while the
token is of the user it is about. The websocket and the pushes on it are those of
the token; a reply holds messages of a chat only if the user whose token was sent
is a member (`RepliesOK`); without a token the tables are empty.

**Without holes** (`HolesInv`). What is known of a chat, saved or arriving, is
closed upward: what is newer than a known message is known (`Upward`). A push and
the answer to a post extend it at its newest end, a page at its oldest, provided
the request under way asks for what lies just before the oldest that is saved
(`Continues`). `torn` records the chats in which this was broken: by a push or
reply that was lost, a message posted while there was no websocket, a cache
cleared while something was on its way, or a page that asked for what lies before
a cleared message.

**Files** (`SenderInv`, `FormsInv`). Each file of a secret message is about to be
encrypted, uploading, uploaded, missed, or without a row, and `pending` counts
the uploads and those without a row, which is why nothing else can stall a
message. Along the whole way from the recorder to the receiver's path, whatever
is not whole is torn, or is in a form that decryption refuses.

### Only model-checked

Liveness (`SyncEnds`, `OnItsWayArrives`, `EveryRequestAnswered`,
`NoRowStaysLocked`, `FetchedInTheEnd`): fairness and ENABLED are beyond the prover. Every
invariant, action property and refinement that a run checks is a theorem.

## 6. Not modelled

* What files and messages contain, how they are encoded and encrypted, and the
  presigned links: pure functions of a request, but for the kinds of files.
* The JSON constructors and validators of the generated classes, which the
  program does not call, and `Reactions`, which has no repository.
* DTOs and JSON macros, but for what they refuse; filters, which refuse a request
  before it reaches the modelled code.
* The readers of the user interface (search, lists, members of a group as shown),
  QML, the recorder's timer, playback, `downloadFile` to a place of the user's
  choice. `clearSecretCache` is not called by the user interface.
* `main.cc`, configuration, deployment and tests; thread and pool sizes are taken
  from them.
* Statements that only read rows which never change.

## 7. What is left

1. Proofs: what still holds of two secret chats that the relay has merged; what
   holds of a group's owners when requests overlap.
2. A composition of `ClientChats` with `ChatMessages`: the client's cache when
   messages are committed out of the order of their ids.
3. The reply that brings a deleted secret chat back, as a property of both sides.
