# voice-api in TLA+

voice-api is the HTTP and WebSocket service behind a voice and text chat: Go,
gin, PostgreSQL for its data, MinIO for files, Redis to connect replicas. This
directory has TLA+ modules that model the parts of it where requests, goroutines
and replicas meet, configurations that check them with TLC, and proofs that
TLAPS checks. Paths such as `ws.go:97` are below `src/internal/handler/` unless
they say otherwise.

## The system

| Component | State | Operations | Meets | What makes it correct |
|---|---|---|---|---|
| WebSocket hub (`ws.go`) | registered clients, their subscriptions and send buffers, the broadcast queue | `Run`, `subscribeRedis`, `PublishToChannel`, `readPump`, `writePump`, `wsConnect` | every handler that publishes; the hubs of other replicas through Redis | no panic on a closed channel, no dead client left, no silent gap, one order for everybody, publishers return, connections are torn down completely |
| Servers, roles, invites (`servers.go`, `roles.go`, `invites.go`) | tables servers, roles, members, member_roles, invites | create and delete each, assign and revoke, join by invite | each other, through rows and locks of the database | no dangling rows, one membership for a user, exact use counts, no deadlock |
| Members (`members.go`) | none of its own | one listing | Guild's tables | reads what is committed |
| Read states, mentions (`notifications.go`, `messages.go:150-167`) | tables message_mentions, read_states | acknowledge, count unread, count mentions | messages sent and deleted at the same time | counts lack and repeat nothing but what the code says, pointers refer to rows, read stays read |
| Message feed (`messages.go:119-261`) | table messages, events in the hub's queue | send, edit, delete, each with its event | the hub | a viewer of the events agrees with the table |
| Message history (`messages.go:27-117`) | none of its own | one page before a message | messages sent and deleted between pages | order, no repetition, no gap |
| Files, stickers, emojis (`uploads.go`, `stickers.go`) | MinIO buckets and objects; tables attachments, stickers, emojis | upload, serve, delete | MinIO and the database, written one after the other | a row has its object, a URL its own file |
| Channels, categories (`channels.go`, `categories.go`, `servers.go:160-202`) | tables channels, categories, the row of the server | create, update, delete, list | each other, cascades from servers and to messages and read_states, acks (`notifications.go:29`), through row locks | no row refers to one that is gone, an update is not undone by an older one, a deletion removes all or nothing, nobody waits for ever |
| Permissions (`src/internal/model/permissions.go`) | none | `HasPermission`, `ComputePermissions` (not called) | every handler | the administrator may do everything, others what one of their roles has |
| Accounts and tokens (`auth.go`, `src/internal/middleware/auth.go`) | table users | register, log in, check a token | every request; clients that stop waiting and try again | one account for a name, an email and an owner; a token names its bearer; who has no rival and is not refused for good gets in |
| Start-up (`src/cmd/server/main.go`, `handler.go`, config, database, storage) | none | connect, migrate, serve | all | - |

Behaviours that are hard here, and to test in particular:

* **goroutines and channels** in the hub: two loops over the clients, three
  sources of `unregister`, a buffer that closes under its senders, bounded queues;
* **several statements per request** without a transaction (`roles.go`,
  `messages.go`, `notifications.go`, `channels.go`, `categories.go`), or with
  checks before the transaction (`invites.go:104-126`), and other requests
  between them;
* **row locks** that one statement takes one after another, a cascade in another
  order than a move (`channels.go:115` against `servers.go:200`) or an ack
  (`notifications.go:29` against `channels.go:134`);
* **errors nobody looks at**: of UPDATE and DELETE (`channels.go:111-134`), of the
  mention loop (`messages.go:161-166`), of a result that breaks off
  (`messages.go:93`);
* **retries**: every error of `register` is answered as a conflict
  (`auth.go:41`), and a client may ask again while its first request goes on;
* **two systems per request**: table and hub (`messages.go`), MinIO and table
  (`uploads.go`), with a failure or the end of the process between the two;
* **clocks**: `created_at` is taken when the INSERT starts and rows show when it
  commits; file names have a resolution of a second.

PROJECT.json lists them with their lines under "hazards".

## Modules

| Module | Models | Checked through |
|---|---|---|
| `Hub` | the hubs of all replicas, the connections, Redis between them | `MCHub`, proofs in `Hub_proofs` |
| `Delivery` | what `Hub` promises: two paths, each in one order, with gaps | as the property `ImplementsDelivery` of `Hub`, proved in `Hub_proofs`; a part of `Feed` |
| `Guild` | one server with roles, members, invites, by SQL statement | `MCGuild`, proofs in `Guild_proofs` |
| `Admission` | what `Guild` promises, by operation | as the property `ImplementsAdmission` of `Guild`, proved in `Guild_proofs` |
| `Channels` | channels and categories of one server, by row lock | `MCChannels`, proofs in `Channels_proofs` |
| `Catalog` | what `Channels` promises, without row locks | as the property `ImplementsCatalog` of `Channels`, proved in `Channels_proofs` |
| `ReadStates` | what users have read of one text channel | `MCReadStates`, proofs in `ReadStates_proofs` |
| `Feed` | messages of one channel and a viewer of the events, over `Delivery` | `MCFeed`, proofs in `Feed_proofs` |
| `Pages` | a reader going through the history page by page | `MCPages`, proofs in `Pages_proofs` |
| `Uploads` | files, their objects, their rows | `MCUploads`, proofs in `Uploads_proofs` |
| `Accounts` | registering, logging in, retries and tokens | `MCAccounts`, proofs in `Accounts_proofs` |

In each module a comment marked `mutant` shows a definition with a plausible
mistake: PROJECT.json names, for every property, one that breaks it, which shows
that the property depends on the code.

### Hub and Delivery

A replica has two program counters, `hubPc` for `Run` and `redisPc` for
`subscribeRedis`; a connection has `wsStage`, `readPc` and `writePc`; a call of
`PublishToChannel` has `stage`. An action is what a goroutine does between two
points where another may interfere: a channel operation, a lock, a visit of one
client in a loop. Go's unbuffered `register` and `unregister` are joint steps of
sender and receiver. A `select` with several ready cases takes any, and map
order is any order. `hub.mu` appears as two guards: `Run` is its only writer, so
`Lock` waits until `subscribeRedis` is outside its loop (`LockGranted`), and
while it is pending no reader enters (`RedisReceive`).

Redis is outside the repository. It is modelled by how the code uses it: a
publication reaches any subset of the subscriptions, once, in one order
(`PublishRedis`). "Once" is an assumption about the client library: go-redis
retries a command by default, and a PUBLISH whose reply was lost might be sent
again; the model takes a publication for carried out at most once, and
`SameOrder` and the refinement rest on it for the Redis path. Reads and writes
of the peer may fail at any time. An event is the call that publishes it and the
path it took. The end of a whole replica is not in this module: its connections
and queues end with it, so nothing in the module would be left to be wrong.

`Delivery` is the same without goroutines, queues and locks: a call publishes
its event on the path `local` and then on the path `redis`, and a connection is
given some of the events of each path, never one that was published before one
it already has. The refinement takes what has entered `hub.broadcast` or Redis
for published, and a connection whose `send` is closed for ended. `before`, the
events published before a given one, is a history variable of both modules.

### Guild and Admission

`Guild` has the committed rows and, for a join, the progress of its transaction.
An action is one SQL statement and the Go code up to the next. The database is
PostgreSQL at READ COMMITTED, and what the model takes from it is: a statement
sees what is committed; the writes of a transaction show together at its commit;
a statement waits for an open transaction that has written the same row or
unique key, and a DELETE for one whose new rows refer to the row; a failed
statement aborts its transaction; foreign keys and `ON DELETE CASCADE` hold at
each statement. The locks are `KeyFree`, `ServerFree`, `RoleFree` and
`InviteFree`. `createServer` has one transaction nobody can meet, so it is one
step. A join may be interrupted at any statement, and the answer of a commit can
be lost.

What a user may do is decided by `hasServerPermission`: the permissions of all
roles of the user together, through `HasPermission`, in which the administrator
bit stands for every other.

`Admission` has one step for each operation and no transactions. The refinement
maps the variables of the same names; joins in progress are invisible, and
`Commit` is the step `Admit`.

### Channels and Catalog

The handlers of channels and categories have no transaction: a request is a set
of statements (`todo`), those of an update in the order of the fields of its
body, and every statement is a transaction of its own that takes its row locks
one by one (`Lock`). `Wanted` names the rows in the order `InOrder`: the row of
the statement, or the server a new row belongs to; the key-share locks of its
new foreign keys, or the categories it deletes; then the channels, the messages
and the rows of read_states that a cascade or `SET NULL` reaches. `Conflict` is
PostgreSQL's table of lock modes. `ackMessages` is there because it meets these
cascades: it locks its row of read_states and then the message it points to, the
deletion of a channel the message first.

A circle of waiting statements ends by an error of one of them
(`DeadlockError`); a statement whose row refers to one that is gone has a foreign
key error; and any statement may have another error at any point (`OtherError`).
`Fail` is what all of them do: the statement has no effect, and the handlers of
updates and deletes, which do not look, go on and answer "updated" or "deleted"
(`AfterError`). A statement may also take effect and its reply be lost
(`EndStatement`). `failed` is a history variable, the statements that had an error;
`writer` has for each field the request that wrote it, `earlier` what was
answered before a request came. The initial states are the server as
`createServer` leaves it, with any categories, channels, messages and pointers
that settled requests have added. The ID of a new row is chosen when the request
begins; the row is visible to others only when the INSERT ends. A body without
fields has no statements and is left out.

`Catalog` is the same without locks: a statement happens at one moment, at which
every row it refers to is there (`Refers`), and a cascade reaches all rows that
refer to what it deletes; or it has an error and changes nothing (`Fails`). Why it
has an error is no part of the promise, since the database may have one at any
time, and neither is the order in which an update executes its statements. The
refinement takes the variables of the same names; `held`, `fields` and `earlier`
have no counterpart, and `Lock` is invisible. What it takes to hold is that
between the first lock of a statement and its end nobody removes what it refers
to, and nobody adds to what its cascade reaches.

### ReadStates, Feed, Pages

Three views of `messages.go` that share no variables and so are separate
modules. In `ReadStates` and `Pages` a message is stamped when its INSERT starts
(`sendMessage`) and shows later (`Insert`). `ReadStates` follows the mention
loop statement by statement. The loop goes over the keys of a map of strings, and
PostgreSQL reads several strings as one UUID, so a mention is a user and a
spelling (`Keys`), and the database sees the user (`UserOf`): the INSERT of a second
spelling finds its row there already, the upsert counts again. Either statement
may have an error, which the loop ignores (`InsertMention`, `CountFails`).
`ackedAt`, `settled` and `lost` record what an observer knows: when each user
acknowledged last, how many of its mentions had been counted then, and which
upserts had an error. An ack of a message of another channel, which the handler
does not exclude, is left to `Channels`.

`Pages` has a reader who goes on from the oldest message it has until a page is
not full; the reader is outside the repository, and its protocol is that of the
parameter `before`. The handler never asks for the error of the result, so a page
may end early (`Shown`): the newest rows of it are answered, in the worst case
none. `broken` is a history variable, that this has happened.

In `Feed` a request, at some replica, writes the table and then publishes through
`PublishToChannel`; what becomes of its event is a step of `Delivery` (`Hub ==
INSTANCE Delivery`), whose publications and deliveries are joint steps with the
handlers and the viewer. The viewer, at replica `Home`, may subscribe and
unsubscribe at any time (`Subscribe`) and applies every copy it is given, the one
of the local path and the one that comes back through Redis. `ViewAgrees`
compares what it shows with the table for each message of which it was given all
changes along one path, published there in the order of the writes. It has two
exceptions: the other path brings a change older than the newest one afterwards,
or a DELETE failed and was announced. `wrote` is a history variable: the requests
that changed the row of each message, in their order.

### Uploads

An upload is checked, finds or makes its bucket, takes a name, writes the object
and inserts the row; any call can fail, before or after its effect. The owner of
a file stands for the message, pack or server its row refers to; packs are there
once `createStickerPack` has inserted them, all owners belong to one server, and
its deletion takes them and every row along. Replicas are assumed to agree on the
second and the clock not to go back.

### Accounts

A client wants a name and an email and has a password of its own. It registers,
logs in after a conflict, registers after "invalid credentials", may stop waiting
at any time (`TimeOut`) and send its next request while the handler of the last
goes on (`Slots`); this behaviour of clients is outside the repository. What a
client wants may be refused for good (`refused`): bcrypt takes no password of more
than 72 bytes, for which the binding sets no maximum (`auth.go:15`), and the INSERT
takes no email longer than its column; the first is an error every time, the
second a conflict every time. `at` is
the statement a request is at or the answer it gave, `user` the row it found.
Any call of the database, bcrypt or jwt may fail, an INSERT also after its
commit, and a replica may end; `MaxFaults` bounds how often. After 72 hours
`AuthRequired` refuses a token, at any time in the model, and the client logs in
again. An email never changes and is unique, so it stands for the ID of its row.

## Runs

Every run finishes without a bound on the search; the bounds are the constants.
`CHECK_DEADLOCK FALSE` stands in every configuration but that of `accounts_enter`,
because requests and connections are finite and the system may come to rest; that
nothing gets stuck before is the business of the liveness properties and of
`NeverStuck`. Clients of `Accounts` never stop, so there a deadlock is an error.

| Run | Instance | Shows |
|---|---|---|
| `hub_calls` | 1 replica, 1 connection, 2 calls, buffers of 1, fair | `TypeOK`, `NoPanic`, `NoLeak`, `LossEvicts`, `PublishReturns`, `TearDownCompletes`, `SubscribersServed` |
| `hub_order` | 1 replica, 2 connections, 2 calls, buffers of 1 | `SameOrder`, `ImplementsDelivery` |
| `guild_joins` | 3 users, 2 roles, 1 invite, 2 joins, 2 requests, fair | `TypeOK`, `NoOrphans`, `OneJoinEach`, `UsesExact`, `FullRefuses`, `ImplementsAdmission`, `JoinAnswered`, `DeleteAnswered` |
| `channels_rows` | 1 category, 1 channel, 1 message, 1 pointer, 3 requests | `TypeOK`, `RowsBelong`, `NoLostUpdate`, `DeletesAreWhole`, `OthersNeverDeadlock`, `NeverStuck`, `ImplementsCatalog` |
| `read_tables` | 2 users with 2 spellings each, 2 messages with up to 2 IDs, 2 instants, 1 lost count | `TypeOK`, `NoDangling`, `MentionsCountedOnce`, `LaterIsUnread` |
| `feed_view` | 2 replicas, 3 requests, 1 message | `TypeOK`, `ViewAgrees` |
| `pages_walk` | 4 messages, pages of 1 or 2, 4 instants | `TypeOK`, `InOrderOnce`, `CompleteButTies` |
| `files_rows` | 3 uploads, one owner of each kind, 2 seconds | `TypeOK`, `RowsServed`, `FilesSettle` |
| `accounts_enter` | 2 clients with one name and 2 emails between them, 2 requests each at a time, 2 faults, fair | `TypeOK`, `OneAccountEach`, `TokenIsOwn`, `Enters` |

Runs in which TLC finds the code to differ from what it says of itself
(PROJECT.json quotes the lines under "findings"):

| Run | Violated | Because |
|---|---|---|
| `hub_echo` | `NoEcho` | a replica hears its own publications through Redis and delivers them twice |
| `guild_uses` | `MaxUsesRespected` | `max_uses` is compared before the transaction |
| `files_paths` | `UniquePaths` | two uploads in one second share a path |

### What the models can do and no property forbids

The models follow the code into the following states. The properties name them
as exceptions or leave them out, and whoever changes the code should know them:

* A full buffer loses an event of the Redis path without a disconnect
  (`RedisDrop`, `ws.go:128`); `LossEvicts` is about the local path, where
  `ws.go:97` disconnects.
* A role named @everyone can be deleted: its name is read in a statement of its
  own, whose error is not looked at, and may change before the DELETE
  (`RefuseEveryone`, `updateRole`, `deleteRole`, `roles.go:144-150`). Joins then
  go on without a role (`SelectEveryone`).
* Deleting the last read message makes the whole channel unread
  (`ClearPointers`, `notifications.go:56`).
* A mention is counted after its message shows, so an ack in between leaves a
  count of 1 in a channel without unread messages (`CountMention`,
  `messages.go:163`).
* A message that shows after an ack, but was sent in the same instant as the
  acknowledged one or earlier, is never counted (`Unread`, `notifications.go:57`);
  `LaterIsUnread` is about later instants.
* A DELETE that fails is announced and answered as done (`DeleteFails`,
  `messages.go:255`); `ViewAgrees` excludes the message. So is the DELETE of a
  channel, category or server answered "deleted" whatever its error (`AfterError`,
  `channels.go:134`); `DeletesAreWhole` says that it has then removed nothing.
* Deleting a channel may lose a deadlock to an ack that moves a pointer from one
  of its messages to another, and the ack to the deletion (`DeadlockError`,
  `notifications.go:29`, `channels.go:134`).
* One user mentioned by two spellings of one ID is counted twice by one message
  (`Keys`, `messages.go:151-157`); `MentionsCountedOnce` counts spellings. A mention
  whose upsert has an error is not counted (`CountFails`, `messages.go:163`), and
  when only the INSERT has one, it is counted without a row of message_mentions.
* A page that breaks off is answered like a whole one (`Shown`,
  `messages.go:93-110`), and a reader that goes by its length stops there;
  `CompleteButTies` has the exception.
* Who registers with a password of more than 72 bytes never gets in (`HashFails`,
  `auth.go:31`), and who does with an email longer than its column is told of a
  conflict each time (`UserExists`, `auth.go:43`); `Enters` has the exception.
* Two first uploads can both find no bucket, and the second `MakeBucket` fails that
  upload (`uploads.go:25-33`).
* Nothing relates the two paths of an event: the copy of an older change can come
  along one path after the newest one came along the other, and a viewer shows
  the old content, or a deleted message, until the next event (`Receive`).
* An update whose statements failed in part is answered "updated" (`Fail`), and
  of two concurrent updates of several fields each may win some (`Writes`).
* Any error of the INSERT in `register` is answered as a conflict
  (`InsertFails`, `auth.go:41`), after the commit too: the client is told that its
  name is taken by somebody, who is itself.
* The page before a deleted message is empty, and messages of one instant that
  do not fit on one page are on none (`Matching`, `messages.go:59`);
  `CompleteButTies` has both exceptions.

### Why the bounds are enough to be interesting

Buffers of one overflow with the second event; the code's 256 needs 257. Two
connections are needed for an order to differ and for a loop to be interrupted
between two visits, two calls for an overflow, an order or a full queue; the
proofs hold for every number. `hub_order` has the state constraint `OrderBound`
(`MCHub`): handlers publish after all have subscribed, and connections stay up
unless `Run` disconnects them; coming and going is the business of `hub_calls`.
`hub_calls` identifies states by the view `NoHistory`, without `before` and the
order of `given`: no action and no property of that run reads them, so states
that differ in them only have the same futures.

Two joins meet at every lock, and two requests create an invite and change what
a join has read or delete what it refers to; the grants are one permission
@everyone lacks and the administrator bit. Three requests on one row of each
table give every pair of statements a third that comes between, and circles of
two and three waiting requests: the deletion of the server, a move of the
channel into the category and an ack. Each row but those of the server and the
message may be there, be created meanwhile or be gone. What a second row would
add, a pointer into another channel or a cascade that waits at several rows of
one table, is left to the proofs, which have any number. Two users and two
messages show all the orders of send, mention, ack and delete, two instants an
ack before and after a later send, two IDs of one message the same user twice or
two users, and one lost upsert (`MaxLost`) a loop that goes on after it. Three
requests on a message are its creation, a change and another that overlaps it,
with two copies of each event; the second replica publishes changes of which the
viewer gets one copy only, and no step of `Feed` is about two messages. The
state constraint `SubscribedFirst` (`MCFeed`) lets the viewer subscribe before
the handlers begin, as whatever it misses otherwise it may also miss as a lost
event; the proofs have no such bound. With four messages and pages of two, a
walk has three pages. Three uploads collide in pairs while a third takes a name
in a later second. Two clients of one name are rivals, with one email or two;
two requests at a time are a retry that overlaps what it repeats, and two faults
are a lost answer and a failed retry.

### Fairness

`FairSpec` of `Hub` has weak fairness for each goroutine that can run: Go's
scheduler is preemptive, a channel operation that stays possible is carried out,
and a mutex is handed to its waiters. A peer owes nothing. A read ends once this
end of the connection is closed, and the write pump acts when it has something
to do: the read deadline of 60 s and the write deadline of 10 s are in the code
(`ws.go:178`, `ws.go:237`), and `conn.Close` ends a blocked read. Nothing is
assumed of `select` but that a goroutine goes on; no failure, connection, frame
or publication is ever owed. `FairSpec` of `Guild` has weak fairness for the
statements of each request that need not wait, and none for interruptions.
`FairSpec` of `Accounts` has weak fairness for the statements of a request and
the arrival of its answer, and for a client's next request; faults are bounded,
so a client gets in once they have stopped. `NeverStuck` of `Channels` needs no
fairness: it says that a request with statements left can go on (`CanGoOn`: take
its next lock, execute a statement, or have the error of a foreign key or of the
deadlock check; that others may come at any time does not count), or that
whoever follows those it waits for comes to one that can; every request has
finitely many statements and locks.

## Proofs

TLAPS checks, for every value of the constants that satisfies the named
assumptions (`HubAssumption`: capacities are positive, `Home` maps connections
to replicas; `GuildAssumption`: the owner is a user, there are finitely many
joins; `ReadStatesAssumption`: there are finitely many users, spellings and
messages; `FeedAssumption`: the viewer is at a replica; `ChannelsAssumption`:
the tables share no rows, each message and pointer is in one channel, and there
are finitely many requests; `AccountsAssumption`: the bound on faults is a
number; `UploadsAssumption`: each owner has one kind, and there is one server;
`PagesAssumption`: there are finitely many messages, and limits are positive):

* **`Hub_proofs`**: `TypeCorrect`, `NeverPanics`, `LossAlwaysEvicts`. `NoPanic` is
  not inductive: that `send` is open when a loop sends on it follows only from
  what the loops still have to visit. `IInv` adds that every client a loop has
  left to visit is registered (`HubLoop`, `RedisLoop`; for `subscribeRedis` this
  is what `hub.mu` is for), that a registered client's channel is open and an
  unknown one has never been handed to `Run` (`Membership`, `Fresh`, `Arriving`,
  `Departing`, `Live`). `NeverLeaks`: a read pump that ends finds `Run` still to
  come for its client, or has been overtaken by one that closed its channel.
  `LInv` adds that whoever `Run` has received stays registered until its channel
  is closed (`Kept`), and that a call comes from a connection whose pumps
  were started (`Calling`).
  `Implements`, that `Hub` implements `Delivery`, and `Ordered`, that `SameOrder`
  holds: `OInv` says that `before` is a strict order of what was published on
  each path (`StrictOrder`), that every connection was given its events in that
  order (`GivenInOrder`), and that what is on its way comes after what was given:
  the queue of `Run` and the event in its loop (`LocalOrder`), the subscription
  and the event of `subscribeRedis` (`RedisOrder`).
* **`Channels_proofs`**: `TypeCorrect`, `NeverDangles`, `RemovesAllOrNothing`,
  `UpdatesLast`. The foreign keys hold because of the row locks, so `IInv` says
  what a lock is worth (`LocksHold`: its row is there and nobody has a
  conflicting lock), that a row goes through its states in one direction
  (`Lifecycle`), what each request is about (`Sound`), and that what it has
  executed is newer than all that was answered when it came (`Newest`).
  `RemovesAllOrNothing`, that `DeletesAreWhole` holds, needs all of these: a row
  that an INSERT adds after a deletion would need a lock on what is gone.
  `CirclesNeedMoves`, that `OthersNeverDeadlock` holds: `WInv` adds that a
  statement has the lock of its own row first (`OwnFirst`) and that a creation
  only shares its locks (`Shares`); then whoever is in a circle is waited for by
  one that holds a lock itself (`NoCircle`), and nobody waits like that for a
  creation or a rename (`OthersWaitInLine`). `WaitsEnd`, that `NeverStuck`
  holds: a request that cannot go on waits for another (`StuckWaits`) that has
  work left (`BlockersWork`), and without a circle the set of those behind it
  shrinks along the chain (`BehindShrinks`), which is well-founded for finitely
  many requests. `Implements`, that `Channels` implements `Catalog`, with a
  lemma for each action: the locks a statement has when it is `Ready` are on the
  rows it refers to, and `LocksHold` makes them live.
* **`Feed_proofs`**: `TypeCorrect`, `UsesDelivery` and `ViewEndsTrue`.
  `UsesDelivery` says that `Feed` implements `Delivery`: the composition gives
  the hub no step that `Delivery` does not have, so `Hub`, which implements it
  too, can stand below the feed. For `ViewEndsTrue`, that `ViewAgrees` holds:
  what the viewer shows follows from the events it was given, whatever the table
  holds (`Shows`); what the table holds follows from the requests that changed it
  (`Row`); the two are tied by what the handlers of the events have done
  (`Sound`), and along one path the events come in the order of their publication
  (`Ordering`). `ViewFollows` puts the four together.
* **`Accounts_proofs`**: `TypeCorrect`, `NoDoubles`, `TokensMatch`. `IInv` adds
  `Owned`, that an account has the name and email its owner wants, from which a
  matching password identifies the row.
* **`Guild_proofs`**: `TypeCorrect`, `NeverOrphans`, `JoinsOnce`, `CountsUses`,
  `RefusesWhenFull`, and `Implements`, that `Guild` implements `Admission`.
  `IInv` adds what an open transaction has locked (`Locked`, `Keys`: its server
  is open, its role exists or the transaction is aborted, no other holds its
  user's key), how far each join has come (`Progress`), that identifiers are used
  once (`Known`, `Issued`) and what a request has found out (`Asked`).
  `UsesExact` counts with `Cardinality`, by the theorems about finite sets.
  `FullRefuses` is about steps and follows from it: the count that the check of a
  join reads is that of the members who came by the invite, so what exceeds
  `max_uses` (`guild_uses`) are joins that had passed the check before.
* **`ReadStates_proofs`**: `TypeCorrect`, `NeverDangles`, `CountsMentionsOnce`,
  `LaterStaysUnread`.
  `IInv` adds where each loop stands, so that it is done with no ID twice
  (`Looping`), that a lost upsert is behind its loop (`LostIsOver`), that rows
  belong to sends that have inserted them (`Shown`), and that no message is stamped
  after the ack that is about it (`Timed`). `CountsMentionsOnce` counts with
  `Cardinality`: the mentions counted so far are those at the last ack and, one for
  one, those in `mention_count`.
* **`Uploads_proofs`**: `TypeCorrect`, `AlwaysServed`, `Settled`. `RowsServed` says
  too little of the objects: `IInv` adds that the name of an object says whose it
  is and when it was formed, for the upload (`Titled`) and for what is stored
  under it (`Labelled`), and that an upload that has stored its file finds one
  there (`Kept`), since nothing removes an object. `FilesSettle` follows from the
  two names being equal.
* **`Pages_proofs`**: `TypeCorrect`, `ReadsInOrder`, `ReadsAll`. `CompleteButTies`
  carries itself from page to page, given that what the reader has is in order
  and is not empty while it goes on (`Going`). The lemmas `PageSize`, `Fetched` and
  `Joined` are about one page: how much of it is shown, that the rows as fetched
  are all of that, and where they stand afterwards.

Each proof has the same shape: the initial states satisfy `IInv`, each action
preserves it, `IInv` implies the property, PTL puts them together. TLC checked
each `IInv` on the small instances before it was proved.

Only model-checked are the liveness properties (`PublishReturns`,
`TearDownCompletes`, `SubscribersServed`, `JoinAnswered`, `DeleteAnswered`,
`Enters`): the prover has no rules about fairness and ENABLED. `NeverStuck` says
what can be said of progress without them.

## Not modelled

* Formatting, parsing, logging, HTTP codes, request validation: no property is
  about them. A request that is refused changes nothing and is not a step.
* Listings other than `getMessages` and `getUnreadCounts`, among them
  `getMembers` and `me`: single reads, which see what is committed.
  `getCategories` and `getChannels` are two reads, so a client that combines
  them may see a channel of a category it does not see.
* Names, colours and positions of roles: no guard of the modelled operations
  depends on them. Two concurrent `createRole` may give two roles one position
  (`roles.go:43-52`); nothing in the code relies on their being distinct.
* More than one server: the rows of two servers meet where a handler takes an ID
  from the body or the path and leaves its server unchecked: `category_id` of a
  channel, the role of `assignRole` (`roles.go`), the message of `ackMessages`.
* What an ignored or unread error does to a listing other than `getMessages`.
* `ComputePermissions`: nothing calls it.
* Heartbeats and deadlines appear as errors of reads and writes that can come at
  any time; their seconds do not.
* The HMAC of a token and the hash of a password: a token that was not signed
  here, or another password, is refused. A WebSocket connection outlives the
  token it was opened with; the code asks for the token once, and nothing says
  otherwise.
* Start-up and routing: sequential calls of libraries.

## Plan

1. Done, with proofs of every safety property and refinement: `Hub` with
   `Delivery`, `Guild` with `Admission`, `Channels` with `Catalog`, `ReadStates`,
   `Feed` over `Delivery`, `Accounts`, `Uploads`, `Pages`.
2. The cascades of `Channels` against sends in progress (`ReadStates` has one
   channel that stays, and `Channels` messages that are sent before).
3. Positions of roles.
