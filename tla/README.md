# A TLA+ development of the C2 server

The C2 server keeps the keys of a fleet of devices ("clients") and of the
topics they exchange messages on.  It stores keys and memberships in a
database, and sends the devices protected commands through a message broker.
This directory holds a model of it, checked with TLC and in part proved with
TLAPS.  Paths below are relative to `src/`.

## 1. The system

| Component | State | Operations | Interacts with |
|---|---|---|---|
| E4 service, `internal/services/e4.go` | none of its own | `NewClient`, `RemoveClient`, `NewClientKey`, `ResetClient`, `NewTopic`, `RemoveTopic`, `NewTopicClient`, `RemoveTopicClient`, `LinkClient`, `UnlinkClient`, `SendClientPubKey`, `RemoveClientPubKey`, `ResetClientPubKeys`, `NewC2Key`, and queries | called by the API, one goroutine a call; calls the database, the broker client, the dispatcher |
| Database, `internal/models` | tables `clients`, `topic_keys`, join tables `clients_topickeys`, `clients_clientkeys` | insert, update, delete, link, unlink, count, page; transactions; `Migrate` | E4 service |
| MQTT client, `internal/protocols/mqtt.go` | subscriptions held by the broker | `Connect`, `Disconnect`, `Publish` (retained, waits `waitTimeout`), `SubscribeToTopic(s)`, `UnsubscribeFromTopic` | broker, monitor |
| Kafka client, `internal/protocols/kafka.go` | map of stop channels, without a lock; a watcher goroutine and a partition consumer a topic | same interface | broker, monitor |
| GCP client | none | `Publish` only, the others are empty | HTTP |
| Event dispatcher, `internal/events` | list of listeners under a read-write lock, a buffered channel a listener | `Dispatch`, `AddListener`, `RemoveListener`, `Send`, `Close` | E4 service (`Dispatch`), event streams of the API |
| Server keys, `internal/crypto` | the server's private key, in memory and in a file, and backup files | `ProtectCommand`, `NewC2KeyRotationTx`, `Commit`, `Rollback` | E4 service, file system |
| gRPC API, `internal/api/grpc.go` | none; an event stream holds a listener | a handler an operation, which checks the request and turns errors into statuses; `SubscribeToEventStream` | E4 service, dispatcher |
| HTTP gateway, `internal/api/http.go` | none | forwards to the gRPC API (generated) | gRPC API |
| Server, `cmd/c2`, `pkg/c2` | the connections; an unbuffered channel of errors | `New`, `ListenAndServe` with the subscription to the existing topics and a goroutine an endpoint, `Close` | all |
| Monitor, `internal/analytics` | none; the Elasticsearch client may be nil | `OnMessage`: classify a payload, store it | broker clients, Elasticsearch |
| Configuration, `internal/config` | the settings | `Validate` | server |
| Command line client, `internal/cli`, `cmd/c2cli` | the position of a listing | a command an operation of the API; listings page by offset | gRPC API |
| Functional tests, `functests/c2`, `pkg/c2test` | none | a suite over gRPC, a suite over HTTP | server, API |
| Generated code and mocks | none | | |

Nothing in the E4 service takes a lock.  What is hard:

* **Overlapping calls.**  Handlers read rows, publish (which may take seconds),
  then write with the rows they read.
* **Partial failure and crashes.**  A handler changes a device and the database
  in two steps; either can fail, and the server can stop in between.
* **The broker.**  A publication that timed out may still be delivered.
* **Paging.**  Loops over pages by offset while membership changes; limits that
  disagree (`QueryLimit` 100, batches of 500).
* **The dispatcher.**  A slice that is searched without its lock and rewritten
  in place, and sends that may block under the lock.
* **The key file.**  Truncated, then written; backed up once a second at most.
* **The Kafka client.**  A map, stop channels, and watchers that run under the
  context of the call that subscribed, all without a lock.
* **The end of the process.**  Nobody waits for the handlers in progress, the
  channel of errors is read once, and a panic ends everything.

What makes the parts correct:

* service and database: the registry behaves as if calls were atomic; a link is
  saved only once its client has been sent the key; events tell of what was
  saved; stored keys were handed over; keys in the hands of devices were
  committed; divergence between device and database never goes unreported;
  every call returns;
* monitoring: the topics that exist are monitored; start-up misses none; a
  watcher can be stopped, is the only one of its topic, and lives as long as the
  subscription of the start-up does;
* process: it ends when something reports a failure, and panics for known reasons
  only;
* listings: complete and without repetition unless the collection changes before
  them; a command that succeeds has done what it says;
* dispatcher: an event reaches the listeners registered when it is dispatched,
  newest events are kept, in order; a stream is in the list as long as it
  lives and no longer; `Dispatch` returns;
* server key: the key in use is always on disk, it is used only once offered,
  clients follow it, rotations return.

## 2. Modules

| Module | Models | Uses |
|---|---|---|
| `Database` | tables and statements, as operators | |
| `E4Service` | the handlers, broker, devices, monitor subscriptions, restarts | extends `Database`, instantiates `Registry` |
| `Registry` | abstract specification of the registry of clients and topics | |
| `E4ServiceMC` | sets of calls for the instances | `E4Service` |
| `E4ServiceProofs` | theorems on `E4Service`: types, links and events | `E4Service` |
| `RowProofs` | theorem on the rows calls hold | `E4ServiceProofs` |
| `StoreProofs` | theorems on calls that overlap: keys, orphans, monitoring, the registry | `RowProofs` |
| `ApartProofs` | theorems on calls that are kept apart | `StoreProofs` |
| `EventDispatcher` | dispatcher, listeners, event streams | |
| `EventDispatcherMC` | symmetry | `EventDispatcher` |
| `EventDispatcherProofs` | theorems on `EventDispatcher` | `EventDispatcher` |
| `C2KeyRotation` | `NewC2Key` and the key file | |
| `C2KeyProofs` | theorems on `C2KeyRotation` | `C2KeyRotation` |
| `Config` | the settings and their validation, as operators | |
| `PubSub` | subscriptions of the three broker clients: their state and steps | |
| `Server` | `main`, `New`, `ListenAndServe`, `Close`, the start-up subscription, calls on topics, watchers, messages | extends `Config`, `PubSub` |
| `ServerMC` | configurations, payloads | `Server` |
| `ServerProofs` | theorems on `Server` | `Server` |
| `Api` | what a handler of the API checks and answers; queries | instantiates `Registry` |
| `CommandLine` | a command of the command line client beside other users | extends `Api` |
| `FunctionalTests` | the two suites | extends `CommandLine` |
| `CommandLineProofs` | theorems on the listings and commands | `FunctionalTests` |
| `ApiMC` | registries, requests of other users, flags | `FunctionalTests` |

### Database and E4Service

A name stands for the client or topic and its E4 ID (its hash); numbering names
follows `ORDER BY`.  A row is its primary key and its key.  Primary keys matter:
a handler that kept a row uses its primary key in later statements, when the
row may be gone or another may have the name.  They are never reused
(`AUTOINCREMENT`, `serial`).  `Postgres` selects the constraints of `Migrate`:
cascades from `clients`, and no constraint on topics (`CanLinkTopic`).

A handler is a *program*: the statements it executes in order (`Statements`).
`rpc[w]` is the call worker `w` serves: the index of its next statement, its
arguments and the rows it has read.  Each statement is one action, with its
error path (`Fail`: the call returns an error), so calls interleave wherever
the code calls the database or the broker.  `InsertClient` is two statements
(`FindClient`, `WriteClient`), as is `InsertTopicKey`; a transaction that has
no statement of another in between (`DeleteClientByID`, `LinkClientTopic`) is
one.  The read of `DeleteClientByID` is a statement of its own (`GetClient`).
`CountClientsForTopic` and `CountLinkedClients` are one statement here
(`CountClients`, `CountLinked`), of two queries: when the first fails the call
does, when the second fails the code drops the error and counts 0 (`Counted`).
The same goes for the lookups of `InsertClient` and `InsertTopicKey` and for the
lookup of the client in `UnlinkClientTopic`.  `Unnoticed` says where such a
failure lets the call go on: not inside a transaction on postgres, which refuses
every later statement of it, the commit included; there the call fails
(`DBFault`).  On sqlite it goes on.
The transaction of `NewTopic` spans `WriteTopic`, `CountClients`, `CommitTx`;
its row is locked meanwhile (`TopicLocked`) and nobody else sees it.

A publication has three outcomes: acknowledged, refused, or timed out, in which
case the message stays in `inflight` and may arrive at any later moment or
never.  A device opens a command only under the key the message was protected
for.  What commands do to a device is the e4 client library's (external).

Ghost variables: `trail` (what has been accepted, committed, announced) and
`flaggedClients`/`flaggedTopics` (subjects of a call that failed, or logged a
failure, after it had had an effect, and of calls a crash interrupted).  A
"silent" divergence is one of a subject that is not flagged.  `trail` also notes
the key of a call that was told 0 by a count that failed (`Uncounted`).

Abstractions: encryption of stored keys, validation of names and topics, and
wording of errors are left out.  `Restart` is the crash and a start-up that
subscribes to all topics, as one step.  The monitor is enabled.  A device
processes an acknowledged message at once; a device that is slower is a "late"
message whose call was flagged, the pessimistic case.

### Registry

The abstract specification: sets of clients, topics, memberships, pairs, and
atomic operations on them.  A client or topic that is created starts with no
link, only what exists can be linked, and links go with what they link.
`ImplementsRegistry` maps the tables to it as a reader of the database sees
them: a join row whose client or topic is gone is not seen.

### EventDispatcher

The list is a Go slice: an array and a length.  `append` writes in place when
the array has room and copies to one twice the size otherwise; a deletion shifts
cells in place.  `Dispatch` and `RemoveListener` range over a copy of the slice
header; the latter without the lock, so its header and each cell are read in
separate steps.  That read is a data race: the copy is torn when the list moves
to another array between the reads of the array and of the length, which come in
either order (`Close`, `CopyRest`); a cell past the end of an array is taken to
hold no listener.  `Send` is three steps: the attempt, the receive, the second
send; both of the latter block.  `crashed` is the panic of an index out of range, which nothing recovers.

### C2KeyRotation

A rotation is the sequence of the code: backup (`Begin`), pages of clients
(`ReadPage`, `Retry`, `SendToNext`, `EndOfPage`), `Commit` (`CommitOpen`,
`CommitWrite`, `Switch`) or `Rollback` (`RollbackOpen`, `RollbackWrite`,
`RemoveBackup`).  Opening the file to overwrite it truncates it (`NoKey`).
Backup files are named after the second; an existing one is an error.  After a
crash the server starts with the key of the file, or does not start.  Clients
here are fixed: registering or removing them during a rotation is not modelled.

### Config, PubSub and Server

`phase` is the statement main is at, from loading the settings to the exit; each
step of `New` may fail and end the process.  A group of settings is the set of
those that are filled in: `Valid` is what `Validate` requires, `PubSubKind` the
client `New` picks, `MessageLoggingEnabled` whether topics are monitored.

`run[g]` is what a goroutine does: the start-up subscription (count, a page
after another, a subscription for each page) and up to `MaxCalls` calls of
`NewTopic` and `RemoveTopic`, of which only the statements that touch the table
of topics and the broker client are kept; the rest is `E4Service`'s.  The
number of a call stands for its context, which is done once the call returns;
`Main` is the context of main.  `sender[s]` follows the goroutines that report
on `errc`: a signal, the endpoints, the start-up subscription.

The Kafka client is `subscribed` (the map: stop channel and context of a topic),
`consumed` (open partition consumers; the library refuses to open one twice),
`watchers` and `closed`.  `SubscribeToTopic` is two steps, opening the consumer
(`SubscribeKafka`) and writing the map and starting the watcher (`WatchKafka`);
`UnsubscribeFromTopic` is two, the lookup and the deletion with the close.
Accesses of the map that overlap, one of them a write, may be fatal.  A watcher
whose stop channel is closed closes its consumer; one whose context is done
leaves consumer and entry behind.

`Ends` is the end of the process, by `os.Exit` or by a panic: memory is gone and
the table stays.  `Left` gives the tables an earlier process may have left, so a
restart is the same behaviour begun anew.  Ghosts: `excused`, the topics whose
subscription failed with an error or may have been missed because a topic before
them was created or removed while the pages were read; `raced`, a call that has
looked a stop channel up which another has closed since.

### Api, CommandLine and FunctionalTests

`Status` is the outcome of a request: the checks of the handler, then what the
service finds, then the status `grpcError` gives the error.  `Effect` is an
operation of `Registry`: how the service gets there is `E4Service`'s matter.
`Page` and `Limit` are the `OFFSET` and `LIMIT` of the queries; a query on a
relation is two statements, of which the second finds nothing when the owner has
gone in between.  The place of an item in the order of a listing is its `Rank`:
names are numbered in that order.

A command is its name, the flags given, `--offset` and `--count`.  `Method` says
which flags it requires and what it calls; a listing (`ReceiveCount`,
`ReceivePage`) counts, then advances by what it asked for.  Between any two
steps other users change the registry.  `history` is a ghost: the listed
collection when it was counted, whether that count failed unnoticed, and what has
been added to and removed from it since.  A request fails with an error
(`Internal`: the first query, another statement, the transport) or, when it is the
counting of a relation that fails, is answered OK with 0 (`RelationCounts`).  A suite of `FunctionalTests` is a sequence of calls with the status and
the list it expects, on a server of its own.

## 3. Runs

Every bound is a constant: calls and restarts (`MaxCalls`), clients, topics,
batch size, channel capacity, events.  The runs of `E4Service` start with every
client and topic in place and linked (`Populated`), since the calls that remove
or rekey are where the interesting cases are; the first calls may take anything
away and later ones put it back.

| Run | Instance | Shows |
|---|---|---|
| `calls_apart` | 2 workers, sqlite, calls kept apart (`ApartSpec`), public-key mode, 2 clients, 1 topic, 3 calls, pages of 1, all failures and restarts | `TypeOK`, `NoSilentStaleTopicKey`, `MonitoringMatchesTopics`, `NoSilentKeyDivergence`, `DistributedTopicKeysWereCommitted`, `RekeyReachesLinkedClients` |
| `topics_concurrent` | 2 workers, postgres, 1 client, 1 topic, 3 calls, all failures and restarts | `LinkedClientsWereNotified`, `EventsFollowLinks`, `OverlapInv` (what the theorems on overlapping calls rest on), `ExistingTopicsAreMonitored`, `PostgresKeepsNoClientOrphans`, `ImplementsRegistry` |
| `pairs_concurrent` | 2 workers, sqlite, 2 clients, 3 calls | `ImplementsRegistry`, `StoredKeyWasHandedOver` |
| `calls_return` | 2 workers, 2 calls, failing statements | `CallsReturn` |
| `events_fanout` | 2 dispatchers of 2 events each, 3 streams of which one ends, capacity 2 | `TypeOK`, `FanOutListIsStable`, `NewestAreKeptInOrder`, `OpenStreamsAreRegistered`, `ClosedStreamsAreGone`, `OnlyOverflowHalts` |
| `c2key_rotation` | 1 worker, 2 clients, 3 rotations or crashes, all failures | `TypeOK`, `KeyIsNeverLost`, `NoSilentC2KeyDivergence`, `KeyIsOfferedBeforeUse`, `NewC2KeyReturnsOrRetries` |
| `server` | 6 sound configurations (each client, Elasticsearch on and off) and those with one defect, 2 topics of which Kafka refuses one, 2 calls, pages of 1, 3 payloads, all failures | `TypeOK`, `StartupMissesNoTopic`, `EveryWatcherCanBeStopped`, `NoTopicIsWatchedTwice`, `StartupSubscriptionsAreWatched`, `PanicsAreExplained`, `ReportsEndTheServer` |
| `api` | every command with every set of flags beside 2 changes by other users, 4 clients, 2 topics, pages of 2, failing calls and counts; the two suites | `TypeOK`, `UndisturbedListingIsExact`, `TwiceOnlyBehindAnAddition`, `MissedOnlyBehindAChange`, `SuccessTookEffect`, `SuitesPass`, `EveryUserIsDone` |

Two workers, one client and one topic are enough for `topics_concurrent`: its
properties relate a link to the calls that made and removed it and to the row
of the same name before and after, and two overlapping calls followed by a
third give every order of those.  Three calls let a client or topic leave, come
back under the same name and meet a handler that still holds its former row.
`WorkerSymmetry` is sound there, in `pairs_concurrent` and in `calls_apart`: no
property names a worker, and none is temporal but the refinement and
`RekeyReachesLinkedClients`, which are safety properties.
`calls_apart` has the calls that give keys and those that add and remove whom they
are for (`KeyCalls`), so that three of them, with every failure, can be explored in
a few minutes: two that overlap and one before, between or after, among them every
three in sequence.  The others are in `topics_concurrent` and `pairs_concurrent`;
`calls_apart` was also run with all of them, with two calls and with three
(3 284 132 states).  It is on sqlite, where a statement of a transaction can fail
unnoticed and the call go on; on postgres that is not possible and the rest is the
same, which was run too (two calls).  `NoSilentStaleTopicKey` and
`RekeyReachesLinkedClients` excuse a count that failed unnoticed and nothing else:
without the excuse TLC finds each violated, by such a count only.  The conjunct of
`PostgresKeepsNoClientOrphans` about pairs is empty in `topics_concurrent`, which
has one client; the theorem covers it.
Pages of one put several pages, an empty page and a full last page within two
clients.  In `c2key_rotation` the first page is full, which takes the loop to a
second, empty one, and `QueryLimit` is no less than the batch: the disagreement
of the two in the code is the subject of `c2key_query_limit`.  Three streams
make the list grow in place and by copying (arrays of 1, 2 and 4 cells) beside
the search of the one that ends.

In `server`, two topics and pages of one give the start-up a second page, and a
topic before and one behind whatever a call creates or removes; two calls
subscribe, unsubscribe and close the same topic in every order, beside the
start-up, the watchers and `Disconnect`.  Kafka refuses the second topic's name,
as it does one with a slash.  One endpoint is enough: what endpoints report
differs in nothing but who is first, and the signal and the start-up compete with
it.  In `api`, pages of two over four clients give a listing a first, a last and
an empty page, `--offset` 1 and `--count` 3 cut across them, and two changes can
move an item over the edge of a page in both directions.

Four runs expect a violation: each states what a comment of the code says and
finds a behaviour that contradicts it.

| Run | Claim | What happens |
|---|---|---|
| `dangling_topic_link` | "Add foreign key on topic id" (`database.go:181`) | the constraint is never added; a link to a removed topic is saved |
| `send_blocks` | "we never block when sending event to the listener" (`listener.go:77`) | two sends to a full channel whose stream ends: one waits for ever, with the read lock |
| `stale_index_removal` | "will remove given listener" (`dispatcher.go:64`) | two streams that end together: an open stream is removed instead |
| `c2key_query_limit` | "the public key is sent to all clients" (`e4.go:123`) | only the first 100 are sent the key |

Deadlock is checked in all runs but those of `EventDispatcher`: an instance
stops only when it has made all its calls (`Finished`), when the process has
ended (`Ended`) or when the command or suite has returned.  The dispatcher
really comes to rest: streams stay open, and a blocked `Send` or a panic is a
state it may end in.

### Fairness

`E4Service!FairSpec`, `C2KeyRotation!FairSpec`: a call in progress takes its
steps.  The Go runtime schedules its goroutine, database and file operations
answer or fail, `Publish` gives up after `waitTimeout`.  Neither new calls nor
late messages are fair.  A query that fails every time is a fair behaviour:
`NewC2KeyReturnsOrRetries` says that nothing else keeps a rotation.
`Server!FairSpec`: main takes its steps, as it is scheduled and `Close` does not
block.  Nothing else is fair: whoever reports second waits for ever, and the
process ends all the same.  `FunctionalTests!Spec`: the command, the server and
the suite take their steps; other users make finitely many changes.  That every
call is answered is an assumption here: `CallsReturn` justifies it of most, while
`send_blocks` and `NewC2KeyReturnsOrRetries` say which may never be.
`EventDispatcher!FairSpec`: goroutines that can proceed do, and the client of an
open stream reads its events; nothing forces streams to open or to end.  Weak
fairness is enough: a waiting writer keeps new readers out.

## 4. Proofs

A theorem holds for all constants that satisfy the `ASSUME`s of the modules it
extends.  They say what kind of thing a constant is (a number, a set of calls, of
outcomes, of configurations); those that say more are that a page or batch is
not empty, that a page of the command line client is no longer than the limit of
a query (both are 100 in the code), and that a registry is one the
database can hold.  A theorem that needs more has an `ASSUME` of its own, named
below.

### The handlers: `E4ServiceProofs`

For any number of clients, topics, workers and calls, both databases and both
crypto modes:

* `TypeCorrect`: `Spec => []TypeOK`.  `TypeOK` is inductive; the one strong part
  is that a call is at a statement of the program of its operation, with
  arguments that operation takes, so that rows and names a statement uses are
  of the right kind.
* `LinksAreOrdered`: `Spec => []LinkInv`.
* `LinksWereNotified` and `EventsAreHonest`, its consequences:
  `LinkedClientsWereNotified` and `EventsFollowLinks`.

`LinkedClientsWereNotified` alone is not inductive: a state where
`NewTopicClient` is about to save a link without its command having been
accepted satisfies it and its successor does not.  `LinkInv` adds `LinkStep`,
what a call has done by the statement it has reached.  The ghost `trail` only
grows, so a step can break it only by saving a link, by announcing one or by
moving a call forward.  Most actions do none of these, and one lemma
(`QuietStep`) covers them all; `Publish`, `LinkClientTopic`, `UnlinkClientTopic`
and `Dispatch` are taken one by one.

### Rows and names: `RowProofs`

`RowsKeepTheirNames`: `Spec => []RowInv`.  Statements go by the primary key of a
row read earlier, and meanwhile other calls may remove that row and create
another of the same name.  `RowInv` says that nothing takes one row for
another: a primary key in a call, a link or an open transaction is of the name
it was read under, wherever a row has that key at all; ids in use are distinct
and below the next to be given; an open transaction is alone with its topic,
and the row it has not committed is held by no other call (`TxInv`).  The last
is needed for the rest: without it a commit could put a second row under one
name.  The proof goes by what a statement does to the tables.

### Calls that overlap: `StoreProofs`

From `RowInv`, for any number of workers:

* `StoredKeysWereHandedOver`: `StoredKeyWasHandedOver`, by `KeyInv`: a
  `NewClientKey` past its publication has had its key accepted.
* `NoClientOrphansOnPostgres`: `PostgresKeepsNoClientOrphans`, by the cascades
  and the foreign keys on clients; it is inductive with `RowInv`.
* `TopicsAreMonitored`: `ExistingTopicsAreMonitored`, by `MonInv`: a topic that
  exists and is not subscribed is in the hands of a call (`Announces`), one about
  to subscribe to it or one that is removing it.
* `RegistryIsImplemented`: `ImplementsRegistry`, the refinement.  Each statement
  that changes a table is matched with the operation of `Registry` it amounts to,
  all others with a stutter; `RowInv` is what makes the row a statement changes
  the one of the name the operation is about.  Join rows without a client or
  topic are where the argument is not obvious: they stay behind on sqlite, and
  since primary keys are not used again they never come back as links.
* `CallsMayOverlap`: `OverlapInv`, the conjunction of `LinkInv`, `RowInv`,
  `KeyInv` and `MonInv`, which the run `topics_concurrent` checks.

### Calls that are kept apart: `ApartProofs`

The service has no lock of its own, and calls that overlap on one client or topic
can part devices and database (section 5).  `ApartSpec` is the service used with
care: no step takes two calls into a state where one is `InTheWay` of the other.

* While `NewTopic` runs on a topic, no other call is about that topic.
* While `NewClientKey` runs on a client, no other call is about that client, as
  the first or the second of a pair.
* While either sends a key to many, none of those clients is removed or given a
  new key.
* While a public key is sent to many, none of them is told to forget the public
  keys it holds.

Everything else overlaps: calls on other topics and clients, and calls that
register, remove, link, unlink, join, leave and reset the same ones.  It is a
discipline an operator, or a proxy in front of the service, can keep by locking
names for the calls that change keys.  None of the four can be spared: without the
first TLC finds a topic that is gone and still monitored, without the second a
client whose device holds another key than the database, without the third or the
fourth a linked client that was not left with the new public key.

The theorems hold for any number of workers, clients, topics and calls and any
size of a batch, on both databases, with all failures, reported or not, timeouts,
late messages and restarts:

* `OneCallIsApart`: with one worker, `Spec => ApartSpec`.  Calls one at a time are
  the special case.
* `DistributedKeysWereCommitted` and `MonitoringIsExact`, by `ApartTopicInv`:
  what a call still relies on of its topic at each statement.  The row
  `NewTopic` has written is the one in the table; the row a `NewTopicClient` has
  read is, or is gone; a key on its way was committed; what is subscribed exists
  or is about to cease to.
* `NoDeviceIsLostSilently` (`NoSilentKeyDivergence`), by `ApartClientInv`: the
  key of a client that is not flagged is that of its device, but between the
  publication and the write of a `NewClientKey` on that client; a row a
  `NewTopicClient` holds has that key too, be the client removed meanwhile.
* `NoTopicKeyIsLostSilently` (`NoSilentStaleTopicKey`), by `ApartPageInv`: while
  `NewTopic` distributes a key, a member that does not have it is either
  `Awaiting`, in the rest of the page or at a place the offset has not reached,
  or flagged.  A page by offset is a page by place in the order only because the
  members do not change meanwhile, which is where `Apart` enters (`OtherMembers`).
  A page that was read stays good because no other call changes the key of
  those in it (`OtherAudience`).  A `NewTopic` whose count failed unnoticed has no
  page, and its key is the one the theorem excuses (`Uncounted`): a later
  `NewTopic` makes another key, to which the excuse does not apply.
* `RekeyingReachesLinkedClients` (`RekeyReachesLinkedClients`), by
  `ApartRekeyInv`, the same for `NewClientKey` and the public key of the
  client, which no other call gives out or takes away (`OtherPubKeys`), with the
  same excuse.

Each of the four is shown for the call that takes the step, as one call at a time
would need it, and then for every other call in progress (`TopicStepOthers`,
`ClientStepOthers`, `PageStepOthers`, `RekeyStepOthers`): a step of a call that is
not in the way leaves it true.  `RowInv`, which holds however calls overlap,
says that a row another call removes or links is no row of this call's name.  The
four invariants were checked with TLC on two workers and two calls, all
operations (44 536 states on sqlite, 41 832 on postgres), before they were proved.

### The publish/subscribe clients and the process: `ServerProofs`

For every configuration, any number of topics, pages and calls: `TypeCorrect`,
`WatchersCanBeStopped`, `OneWatcherATopic`, `StartupIsWatched`,
`PanicsExplained` and `NoTopicIsMissed`.  All but the last follow from one
inductive invariant, `IInv`:

* `PhaseInv`: what the process has opened at each statement of main; a panic for
  want of a client is excluded by it.
* `GoroutineInv`: a goroutine at a statement has the topic, page or stop channel
  that statement uses.
* `EntryInv`: a topic in the map of the Kafka client is consumed, under a stop
  channel of its own that nobody has closed.
* `WatcherInv`, `WatchInv`: a watcher belongs to an open consumer, and a
  goroutine between opening a consumer and starting its watcher is alone with
  that consumer.  No property of the run says so, and without it
  `NoTopicIsWatchedTwice` is not preserved by `WatchKafka`.
* `StopInv`: a call about to close a channel holds the one in the map, unless
  another call has looked it up too and has closed it.

The refusal of the Kafka library to consume a partition twice is what makes
`WatchInv` inductive; the map alone would not.  Most steps leave the client
alone (`Quiet`); each of the five that do not has a lemma.

`NoTopicIsMissed` (`StartupMissesNoTopic`) needs more, `StartupInv`: as long as the
start-up subscription has not reported a failure, a topic that is not excused is
subscribed, in the hand of a call about to subscribe to it or to remove it, or
ahead of the start-up.  `IsAhead` is the place of the topic in the table compared
with the offset and the page in hand.  A call that creates or removes a topic
before that place moves the others; those it moves over the offset are the ones
`excused` names, and the proof is that there are no others.  TLC checked
`StartupInv` on the instance of `server` (233 136 distinct states).

### The rotation of the server key: `C2KeyProofs`

`TypeCorrect` holds for any number of workers.  The others assume one worker,
which is the hypothesis that rotations do not overlap:

* `KeyIsOnDisk`: `DInv` adds to the property, for each statement of a rotation,
  what the file and the backup of that rotation hold there.
* `KeyWasOffered` and `NoClientIsCutOffSilently`: `OfferInv` says that a client
  no failure concerns holds the key in use while it is in `Waiting` (the rest of
  the page and all that follow it), and the new one from then on.  `Waiting` is
  empty when `Commit` starts, and the file holds the new key no earlier.

The last two assume `NoPageIsCut`: batches no longer than the limit of a query,
or no more clients than that limit.  With the sizes of the code, 500 and 100,
this is to say 100 clients at most, and `c2key_query_limit` shows what happens
beyond.

### The event dispatcher: `EventDispatcherProofs`

For any number of goroutines, streams and events, and any capacity:
`TypeCorrect`, `FanOutIsStable` and `NewestAreKept`.  The last needs `SentInv`:
what a stream has received, lost or not read yet of a goroutine is no newer
than the last event that goroutine has sent to it, which depends on how far its
fan-out has got (`LastSent`), hence on the list having no stream twice
(`ListInv`).  Without it nothing orders the event in hand and those in the
channel.

`OnlyOverflowBlocks` (`OnlyOverflowHalts`), also for any number of streams that
end: when nobody can move although somebody has work left, a `Send` stands in the
overflow branch before an emptied channel or before that of a stream that reads no
more.  It needs `WriterInv`, that whoever holds readers off has a change to make:
then a writer waits for readers only, readers for the channel of a stream only,
and there is no circle.  Who can move is said by the guards of the steps
(`DispatcherReady`, `StreamReady`), since `ENABLED` is out of the prover's reach;
TLC found the guards equal to `ENABLED` in every state of `events_fanout`.

If one stream at most ends, also `OpenAreRegistered` (with: no removal is out of
range) and `ClosedAreGone`, from `OneEnds`.  Its core is `Grown`: as long as
nothing has been deleted, each cell ever written, in an array the list has left
as in the one it is in, is what the list has at that place.  So a search finds
its listener in any array and with any torn copy (`Copied`), and at the index
where the list has it.  The hypothesis cannot go: `stale_index_removal` has two
streams that end.

### The listings and commands: `CommandLineProofs`

For any registry with finitely many names, any commands, any offset and count, any
size of a page up to the limit of a query, and any number of changes by others:
`TypeCorrect`, `ListingIsExact`, `NothingElseIsPrintedTwice`,
`NothingElseIsMissed` and `CommandsTakeEffect`.

* `CInv`: types, and `CallInv`: what the command has asked for by where it is.
* `HistoryInv`: what is listed differs from what was counted by what has been
  added and removed since.  The count needs care: a relation whose owner is
  removed between lookup and count has a count of zero, whatever comes later.
* `TotalInv`: what has been asked for and what is left make the total, which is 0
  when the count failed unnoticed (`Reported`): such a listing prints nothing, as
  `ListingIsExact` says, and `NothingElseIsMissed` leaves it out.
* `TwiceInv`: what has been printed is behind the offset, and what has arrived
  behind the next one, by its place in the collection, unless something was added
  before it.  `MissedInv`: what was counted is printed, has arrived, or is ahead,
  unless something changed before it.  Both compare places (`Below`, `Rank`) in
  the collection as it is now and as it was counted; lemmas relate the two.
* `ExactInv`: without a change, what is printed is the sorted collection from
  `--offset` up to the offset reached.  A page is then an interval of places.
* `EffectInv`: once the answer has arrived and nobody else has done anything, the
  registry is as the command wanted it, the links of a removed client
  included.

These were checked with TLC on the instance of `api` before they were proved.  A
page longer than the limit of a query would break `MissedInv`: the listing
advances by what it asked for, not by what it got.

### Only model-checked

* Liveness: `CallsReturn`, `NewC2KeyReturnsOrRetries`, `ReportsEndTheServer`,
  `EveryUserIsDone`.  It is out of the prover's reach.
* `FunctionalTests!SuitesPass`: two fixed sequences of calls, which TLC runs to
  the end; a proof would be the same run by hand and would cover nothing more.

## 5. Not modelled

* Generated code and mocks; what the HTTP gateway does besides its status.
* The shell of the command line client and its completion, and `events`, which
  prints the stream `EventDispatcher` models; a negative `--offset` or `--count`.
* `Publish` of the Kafka and GCP clients, calls of a library without state here;
  the reconnection of the MQTT library.
* How settings are loaded; how the functional tests start a server and connect.
* `ProtectMessage` and `UnprotectMessage` beyond their status: they change
  nothing.
* Encryption, formats, logging, and what the monitor stores.
* Registering and removing clients during a rotation of the server key.
* `Restart` of `E4Service` remains one step: the start-up subscription beside
  calls is `Server`'s.

### Known divergences

Overlapping calls can part the devices and the database for good, with every
call succeeding.  Nothing in the repository promises otherwise, so these are not
findings; the properties above that say "when calls are kept apart" are stated
so because of them, and `Apart` excludes exactly these and their like.

* Two `NewClientKey` on one client publish in one order and store in the other:
  the database holds a key the device does not (`e4.go:519-575`).
* A client that leaves a topic between two pages of `NewTopic` shifts the
  offsets, and a client that stays is skipped (`e4.go:459-475`).
* `NewTopic` overlapping `RemoveTopic` and another `NewTopic`: the update of its
  transaction matches no row, which is no error, and a key that nothing stores
  is distributed (`e4.go:389-432`).
* Two rotations of the server key can leave one key in memory and the other in
  the file, and truncate it under each other (`c2key.go:73-85`).

One failure parts them even when calls are kept apart, with nothing reported or
logged.  The comment that says that an error that prevents "the key to be sent to
the client" is "just logged for now" (`e4.go:442`) is about the sending, and holds
of it; nothing is said of the count before it.

* The second query of `CountClientsForTopic`, `CountTopicsForClientByID` and
  `CountLinkedClients` has its error dropped, and the count is 0
  (`database.go:543`, `:554`, `:616`).  `NewTopic` then commits a key it sends to
  nobody (on postgres the spoiled transaction makes it fail instead),
  `NewClientKey` tells none of the linked clients, a listing prints nothing, and
  all report success.  `Uncounted` and `history.uncounted` name exactly these.

Also found while modelling, where nothing but the code says what it should do,
or no property of a run would tell:

* `defer os.Exit(exitCode)` evaluates its argument at once, so the status of the
  process is 0 whatever happens (`cmd/c2/c2.go:37`); `SignalError` is said to be
  "used to determine the proper exit code" (`pkg/c2/c2.go:64`).
* A query that fails in `NewC2Key` is made again at once, for as long as it fails
  (`e4.go:1089`); the comment says that a failing batch is skipped
  (`e4.go:1077`).  `NewC2KeyReturnsOrRetries` takes the code as it is.
* A Kafka watcher started by a call ends with the context of that call and
  leaves its partition consumer open; subscribing again is refused, so a
  `NewTopic` on an existing topic reports an error after it has committed
  (`kafka.go:141-160`).
* A topic whose name Kafka refuses, one with a slash for instance, makes the
  subscription of the next start-up fail, which ends the server.
* The map of the Kafka client has no lock, two calls can close one channel, and
  a call that outlives `Disconnect` uses a nil consumer; each ends the process.
* A message of less than seven bytes that is no text panics the goroutine that
  classifies it (`analytics/message.go:58`).
* Topics added or removed beside the start-up subscription can hide one from it;
  listings, which page the same way, may repeat or miss.
* A query for the clients of a topic with a count of 0 has `LIMIT 0`: the second
  list of the functional test over gRPC is empty whatever the server holds.
* Reconnecting to the MQTT broker does not subscribe again.
* `UnlinkClientTopic` returns without a rollback when its lookup of the topic fails
  otherwise than by not finding it (`database.go:507-513`).  On sqlite the open
  transaction keeps later writers out, which is a failing statement to them.
* A restart half-way through a rotation of the server key concerns every client
  (`Restart` of `C2KeyRotation` flags them all): what `KeyIsOfferedBeforeUse` checks
  is the order of offering and `Commit` under failures, not that crash.

## 6. Plan

Done: the database, the handlers and the registry they implement, with the
theorems on types, links, rows, the refinement and calls that are kept apart; the
dispatcher, the rotation of the server key and the broker clients, with the
theorems of section 4; the process from its settings to its exit; the API, the
command line client and the functional tests, with the theorems on listings and
commands.

The questions of a module are asked in as few runs as its instances allow: a
new property joins the run whose instance reaches its cases.  What is left, the
most valuable first:

1. Registration and removal of clients during a rotation of the server key: a
   page read by offset may then pass over a client, as `NewTopic` does.
2. Two rotations that overlap, with the key file truncated under each other.
