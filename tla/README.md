# Formal model of the SD-Core webconsole

TLA+ modules, TLC configurations and TLAPS proofs for the program in `src/`: the
webconsole of the Aether / SD-Core 5G network, a Go process that stores network
slices, device groups and subscribers in MongoDB, derives from them what the core
network's functions read, and serves a configuration computed from them.

Paths below are relative to `src/`. Every definition that models code has a row in
`PROJECT.json` (`map`) with the lines it stands for.

## 1. Inventory

The process runs two HTTP servers (`server.go`): the WebUI server, which writes the
database, and the NFConfig server, which network functions read. They share the
database and one channel.

```
 client --> WebUI server --> handlers --> MongoDB (common, auth keys, webui)
                |                             ^
                | 2xx on POST/PUT/PATCH/DELETE | two reads
                v  under /config/v1           |
            syncChan (capacity 1) --> sync worker --> syncWithRetry --> inMemoryConfig
                                                                             |
 network function <---------------- NFConfig server GET handlers <-----------+
```

### 1.1 NF configuration synchronisation
`backend/nfconfig/service.go`, `backend/webui_service/webui_init.go`.
- State: `inMemoryConfig` with six fields, `syncChan`, `syncMutex`, the context and
  `CancelFunc` of the current sync.
- Operations: `triggerNFConfigSyncMiddleware` (send after a successful write),
  `startSyncWorker` (receive, cancel the current goroutine, start the next one),
  `syncWithRetry` (lock, wait for the timer or the cancellation, sync, retry after
  3 s), `syncInMemoryConfig` (read slices, read device groups, assign six fields).
- Interacts through the channel with every handler under `/config/v1`, through the
  database with all handlers, through `inMemoryConfig` with the GET handlers.
- Hard: triggers merge in a channel of one, cancel syncs that run and overtake syncs
  that wait; two reads are not one snapshot; reads fail; the process ends anywhere.
- Correct when no trigger is lost, the fields agree with each other outside a sync,
  an older snapshot never replaces a newer one, requests do not stay blocked on the
  channel, and what was written is eventually served.

### 1.2 User accounts and authorisation
`configapi/handlers_user_account.go`, `backend/auth/`.
- State: account documents (name, role, password hash), signed tokens with claims.
- Operations: create, delete, change password, log in; the three authorisation
  middlewares `AdminOnly`, `AdminOrMe`, `AdminOrFirstUser`.
- Interacts with the database only; each handler makes two or three calls.
- Hard: counting and inserting are two calls; a role is fetched and written back
  later; `RestfulAPIPost` is itself a find and then an update or an insert; tokens
  outlive the account they were issued for.
- Correct when the first administrator can never disappear and nobody else becomes one.

### 1.3 Provisioning of subscribers
`configapi/slice_helpers.go`, `device_group_helpers.go`, `subscriber_helpers.go`,
`api_default.go`, `api_subscriber_config.go`.
- State: documents of slices, device groups and authentication data; five derived
  documents per IMSI (AM policy, SM policy, AM data, SM data, SMF selection); the
  lock `rwLock`.
- Operations: write and delete a slice, a device group, a subscriber. A write stores
  the document and then, under `rwLock`, derives the documents of the IMSIs it
  concerns and removes those of the IMSIs it lost. The deletion of a device group
  first rewrites all slices that have it, the deletion of a subscriber all device
  groups.
- Interacts with ConfigSync by triggers and by the two collections the sync reads.
- Hard: read-modify-write without a lock around the locked part; an upsert that is a
  find and then an update or an insert, without a unique index on slices, device groups,
  AM data and authentication data, so that a document can be stored twice; 5 writes per
  IMSI without a transaction; nested writes that take and release the lock; errors that
  are returned, remembered, or swallowed depending on where they happen.
- Correct when what is configured is provisioned, nothing is left of what is not, the
  five documents stay together, deletions leave no dangling reference, requests end.

### 1.4 Inventory of gNBs and UPFs
`configapi/api_inventory.go`.
- State: gNB and UPF documents, and the copies of them inside slices.
- Operations: create, update, delete. The document is written inside a transaction, or
  without one where the client yields no session; before the commit the slices that name
  the entry are read, patched and written back whole, each with its provisioning, by
  calls outside of the transaction.
- Interacts with the handlers of slices and device groups through the slices.
- Hard: a commit or abort that covers half of what was written; write conflicts, a
  transaction the server ends, a commit whose answer is lost; provisioning that fails in
  the loop; a TAC that is a nil pointer.
- Correct when each document behaves like an atomic register and the copies in the slices
  follow what was written last, as far as other writers of slices let them.

### 1.5 Derivation of the NF configuration
`backend/nfconfig/config.go`, `handlers.go`.
- State: none of its own; six lists computed from slices and device groups, and the
  lookup of an IMSI's QoS.
- Hard: iteration order of Go maps and sorting keys that tie; slices that share a PLMN or
  an S-NSSAI; SST texts that do not parse, or are one number; device groups in several
  slices; a field read while it is assigned.
- Correct when the endpoints agree with each other and with what is stored, and a sync
  of unchanged data changes nothing.

### 1.6 Bit-rate arithmetic
`convertToBps`, `convertBitrateToInt32`, `aggregateQoS`, `ConvertToString` and their callers.
- Hard: 64-bit products and sums that wrap, 32-bit saturation, negative input, a rate
  that is stored and written back.
- Correct when a rate that fits is kept, one that does not saturates, and the sum of QoS
  profiles does not depend on the order of a map.

### 1.7 Database adapter and start-up
`dbadapter/db_adapter.go`, `server.go`, `backend/webui_service/webui_init.go`,
`backend/factory/factory.go`.
- State: the three clients, one per database, unique indexes, the two servers.
- Operations: connect with a timeout of three minutes, check for transactions, create
  indexes with retries, sync once, listen.
- Hard: a connection that is given up leaves a nil client; `select` with a ticker and a
  timer that are both ready; errors that are retried or not; partial initialisation.
- Correct when a server that listens has what its handlers rely on, and every start ends.

### 1.8 Not part of the model
- The NF profile cache (`backend/webui_context/context.go`): a list read at start-up and by two
  requests that forward to the first AMF or SMF. Concurrent requests append to it without
  a lock; what a torn slice header leads to is outside of any specification.
- Reading of the configuration file and logging, and the fetch of a configuration from
  ROC: input and output at start-up.
- Metrics, static user interface, generated documentation: no state.

## 2. Modules

| Module | Stands for | Lines of the program |
|---|---|---|
| `ServedConfig` | what the NFConfig service promises, abstractly | README.md of the program |
| `ConfigSync` | 1.1, goroutine by goroutine | `service.go`, `webui_init.go`, `server.go` |
| `ConfigSyncProofs` | proofs about `ConfigSync` | |
| `Accounts` | 1.2, call by call | `handlers_user_account.go`, `auth/` |
| `AccountsProofs` | proofs about `Accounts` | |
| `Provisioning` | 1.3, call by call | the five files of 1.3 |
| `ProvisioningProofs` | proofs about `Provisioning`: the lock and the documents it guards, and what requests achieve | |
| `SubscriberView` | `Provisioning` composed with a request that reads one subscriber | `api_subscriber_config.go` |
| `EntryStore` | what the inventory promises about its documents, abstractly | |
| `Inventory` | 1.4, call by call | `api_inventory.go` and the other writers of slices |
| `InventoryProofs` | proofs about `Inventory`, and that it implements `EntryStore` | |
| `NFConfig` | 1.5, what one sync computes | `config.go`, `handlers.go` |
| `NFConfigProofs` | proofs about `NFConfig`: sorting, and what is served of any stored data | |
| `Bitrates` | 1.6, with words of any width | `slice_helpers.go`, `device_group_helpers.go` |
| `BitratesProofs` | proofs about `Bitrates` | |
| `Startup` | 1.7, with its loops and timers | `db_adapter.go`, `server.go`, `webui_init.go` |
| `StartupProofs` | proofs about `Startup` | |
| `SubscriberViewProofs` | proofs about `SubscriberView` | |
| `MCAccounts`, `MCProvisioning`, `MCSubscriberView`, `MCInventory`, `MCNFConfig`, `MCBitrates`, `MCStartup` | symmetry sets and structured constants for TLC | |

A module that holds definitions marked "Variant" carries next to an action the same
action with one plausible mistake. No specification uses them; substituting a variant
for its original makes one of the properties fail, which shows that the property can
see that mistake.

### 2.1 ConfigSync
A collection is abstracted to the number of writes made to it, and a served field to
the versions it was computed from, so "newer" and "same snapshot" are comparisons of
numbers. `Reads` says which collections each field depends on, `Rank` the order of the
six assignments.
- `Arrive`, `Write`, `Succeed`, `Fail`, `Send`: a request goroutine. `Send` needs an
  empty buffer, like the channel. Requests in `ApiRequests` come under `/api`, which
  has no middleware.
- `Receive`: the worker cancels whatever goroutine it started last and starts another.
- `Lock`, `SelectDone`, `SelectTimer`, `ReadSlices`, `ReadGroups`, `ReadFails`,
  `Publish`, `Return`: one `syncWithRetry`. On the first round timer and cancellation
  can both be ready and Go picks either; after a failure the timer is 3 s and a
  context cancelled before the select wins.
- `Crash`, `Restart`: memory is lost, the database stays, the first sync of the new
  process is complete before requests are accepted.

`ServedConfig` is the abstract specification: collections grow, promises are made of
what is stored, and what is served only moves forward. `ConfigSync` implements it under
`stored <- db, promised <- acked, served <- mem`; its safety part is the property
`ServesForward`, its liveness part `PromiseKept`.

### 2.2 Accounts
An account is its role, a token its claims. Every database call of a handler is a step,
so a creation is `ArriveCreate`, `Decide` (the second count), `Insert`; a deletion
`ArriveDelete`, `FetchDelete`, `Remove`; a change of password `ArriveChange`,
`FetchChange`, `Find`, then `Update` or `Upsert`. A request that the middleware refuses
changes nothing and never arrives. `Abort` is any failing call, `Restart` also voids
every token because the secret is generated at start.

### 2.3 Provisioning
A slice is its device groups, its PLMN and whether its SST parses. A device group is its
IMSIs and the kind of its IP domains: `"none"` no domain, `"full"` QoS with a traffic
class, `"noQos"` a domain without QoS, `"noClass"` QoS without a traffic class. A derived
document is present or absent. A missing slice or group has no IMSIs and no device
groups, which is what `json.Unmarshal` of a missing document gives the code; a missing
device group has a kind of its own (`"missing"`), because a find tells it from an empty
one. `extra` is the bag of documents stored besides the first of their name. `job[w]` is the handler worker
`w` runs: the point it has reached and its local variables.
- Requests: `PutSlice`, `DeleteSlice`, `PutGroup`, `DeleteGroup`, `PostSub`, `PutSub`,
  `DeleteSub`; a worker takes one at a time.
- A write is `ReadPrev`, `Find` and `Post` (or `DeleteSliceDoc`), then `LockSlice` or
  `LockGroup`, then `ReadGroup`, `CheckAuth` and five `WriteDoc` per IMSI, `StartCleanup`,
  `CleanGroup`, `Remove`, `Unlock`. `Extent` says at which document a kind of IP domains
  stops the code.
- An upsert is two steps: `Find` notes in `seen` what is there, and the write that follows
  inserts where nothing was seen, even if another handler has inserted meanwhile: the
  second document goes to `extra`. An update changes the first document, or none if it is
  gone; a deletion takes one document (`DeleteSliceDoc`, `Without`), and a document of
  `extra` is the first then. Reads by name return the first, reads of a collection all
  (`AllSlices`, `AllGroups`). The AM and SM policies, SM data and SMF selection are only
  written by the holder of `rwLock`, so that their find and write are one step.
- A deletion of a device group or subscriber is `List`, one whole write for every
  document found (`NextDoc` ... `Unlock`), then `GiveUp` or `DeleteGroupDoc` /
  `DeleteAuth`.
- A subscriber is created or updated by `Exists`, `Find` and `Store`. `Store`, `Remove` and
  `DeleteAuth` are one step each because the code runs them as a transaction. The finds of
  `Store` are inside of it: where another handler writes a document found, the driver
  repeats the transaction, and finds again (`Sure`); what others insert meanwhile
  conflicts with nothing.
- `ReadPrevFails`, `CallFails`, `ReadFails`, `WriteFails`, `Restart`: a call that fails
  at each kind of place, with the effect the code gives it there.

- `hurt` remembers that a call of this request has failed, `alone` that no other request
  was served meanwhile and that every document was stored once when it began, AM data
  without a PLMN only where there is none with it (`Single`).

Nothing in the program completes what a failed call, an end of the process or an overlap
of handlers has left: there is no journal and no scan at start-up. What heals it is the
next request. `SliceRepairs`, `GroupRepairs` and `DeletionsRepair` state what a request
achieves that is `alone` and met no failure: whatever documents are missing, left over or
out of date when it begins, but every document there is stored once. With a document
stored twice the code achieves none of it: an update or a deletion by name changes one of
the two, and the other keeps its references.

### 2.4 SubscriberView
`SubscriberView` lets a client ask for one subscriber while others are served:
`GetSubscriber`, six `Read`s of one collection each, `Answer`. `absent` remembers whether
at some moment of the request nothing was stored, which is what 404 says. `Others` is any
step of `Provisioning`. A `scope`, chosen at the start and kept, bounds the operations and
the requests of a behaviour, so that one run covers several small instances (`Overlap` in
`MCSubscriberView`); every behaviour within a scope is one of `Provisioning`.

### 2.5 Inventory and EntryStore
An entry's document is its value (a TAC or a port) or `None`; a slice is the copies it
carries and whether its SST parses, on which its provisioning depends. A request is
`PostGnb`, `PutGnb`, ... (arrival), `OpenSession`, `WriteEntry` or `RefuseEntry` (a name
that exists, a write conflict), `List`, then for each slice found `PatchSlice` (the slice
as it was read, patched) and `Provision`, and `Commit`. `Panic` is the nil TAC. The write
of the document is visible to others at once without a session, and at the commit with
one (`held`). `CallFails`, `CommitFails` (the answer to the commit is lost and it may have
happened), `Expire` (the server ends a transaction, the handler finds out when it commits)
and `Restart` are the faults. `PutSlice`, `DeleteSlice` and `DeleteGroup` are the other
writers of slices, as far as they write them.

`EntryStore` is the abstract specification: a request takes effect at most once, at one
instant between its arrival and its answer, a creation only where there is no entry, and
a request that succeeds has taken effect. `Inventory` implements it under
`stored <- inv` and `asked`, what each worker's request is and how far (`Status`); that is
the property `EntriesAtomic`.

`setting` is chosen at the start and kept: whether the client yields sessions, and which
entries the requests of the behaviour name.

### 2.6 NFConfig
The state is what is stored and what is served. `Sync` computes the six lists; where the
code iterates a map, or sorts by a key that ties, the derivation is the set of lists it can
produce and `Sync` takes any of them. `Sorted` is `sort.Slice` on elements that come in no
order, `StablySorted` on a short sequence, where Go uses an insertion sort, and `Where` a
loop that skips what fails a test. `SliceType` and `GroupType` say what may be stored:
slices with any device groups, gNBs, UPF and rules. Names, PLMNs,
SDs and TACs are numbers in the order of their texts; an SST stays a text, and `SstOf` what
`strconv.ParseInt` makes of it, because two texts can be one number and a number can be
cut to 32 bits (`Int32`). Flow descriptions and rates of PCC rules, DNS, MTU and address
pools are left out: they are copied or formatted.

### 2.7 Bitrates
`K`, `Half32` and `Half64` stand for 1000, 2^31 and 2^63, so that every rate can be tried.
The actions store a device group or an application filtering rule, and write back what a
client reads (`PutGroupBack`, `PutRuleBack`). `Profiles` are the orders in which the map
of DNNs yields the QoS profiles that `AggregateQoS` adds.

### 2.8 Startup
`step` walks through `InitMongoDB` and `startApplication`. A loop is a call (`Connect`,
`Transactions`, `CreateIndex`), and then `selecting`: `Tick` repeats it, `Timeout` leaves it
once its timer has `fired`. When both are ready either is possible. `Timeout` of a
connection goes on with a nil client, of the others ends the process. After `Sync` the
WebUI (`WebUIRoutes`, `WebUIListens`) and the NFConfig server start in any order. `Restart`
is the supervisor, `Replicate` the operator who initiates a replica set.

## 3. Runs

| Run | Question | Bounds |
|---|---|---|
| `sync_promise` | is a trigger ever lost, do fields disagree, does an old snapshot win; is what was written eventually served; does a request or a sync stay behind? | 2 requests, 2 syncs, 2 versions per collection, 1 failing read, 1 crash |
| `sync_readme` | is every successful write followed by an update? | 2 requests under `/api` |
| `accounts_safety` | does the first administrator stay, and stay the only one; do tokens speak for administrators only? | 2 users, 5 requests |
| `accounts_readme` | can two users be administrators? | 2 users, 2 requests |
| `prov_sequential` | is exactly what is configured provisioned, and repaired after a failure? | 1 worker, 1 slice, 1 PLMN, 2 IMSIs, 2 groups that are provisioned or not, 1 fault |
| `prov_overlap` | do interleaved handlers or failures leave half of an IMSI's documents, and what repairs it; is 404 true? | 1 IMSI, group and slice; 2 workers and no fault: all operations until a document is stored twice, and three smaller sets of operations with one such document; or 1 worker, 1 fault, and 2 PLMNs or every kind of group and SST; or 1 worker and a viewing client |
| `prov_ends` | does every request end? | 2 workers, 1 of everything, the four operations that nest writes or hold the lock |
| `prov_found` | is a subscriber with authentication data always found? | 1 worker, 1 of everything |
| `inventory` | are documents atomic, and do slices follow? | 2 workers, 1 slice, 2 values, 1 fault; one gNB with sessions, or one UPF with or without |
| `nfconfig` | do the endpoints agree with what is stored and with each other? | 2 slices over 37 documents, or 2 slices and 2 device groups over 9 and 10 |
| `bitrates` | what is left of a rate? | K = 3, 4-bit and 9-bit words; all rates of a rule; 11 IP domains, up to 3 per group |
| `startup` | what has a server that listens, and does every start end? | 2 deployments of MongoDB for three databases |

Why the bounds are enough for the cases they are meant for:
- Of two requests one can block on `syncChan` while the trigger of the other is buffered;
  of two syncs one runs or waits for its retry while the other waits for the mutex. Two
  versions tell "old", "current" and "newest" apart. `SpareTasks` makes sure the model
  never runs out of goroutines. More requests are what the proofs cover.
- Five account requests allow a creation that overtakes another, a deletion and two
  changes of password that are still to write. Requests are not reused, so the system
  may stop; deadlock is not checked in the runs over requests for that reason alone.
- Two IMSIs, two device groups and one slice are the smallest instance in which a
  device group a slice loses shares an IMSI with one it keeps. Workers take request
  after request without a bound, so sequences of any length are covered; the state is
  finite because a document is present or absent. Deadlock is checked here.
- Two workers are what interleaving two handlers needs; more make the lock queue longer
  and nothing else. `MaxFaults` bounds failing calls and restarts together. One fault
  cuts one request short at any of its calls; the requests after it, in any number, meet
  what it left.
- Documents stored twice are where the state of `prov_overlap` would not stay small. With
  all seven operations the run follows a behaviour up to the first state that is not
  `Single` (`Followed`, a constraint), which is where `alone` can no longer begin. Beyond
  it, it follows the sets of operations in `Fewer`: writers and deletions of slices and
  device groups, which can store both twice; those of a slice, a device group and a
  creation, which can store AM data twice; and those of subscribers and device groups,
  which can store AM data and authentication data twice and delete them. There it goes on
  with one document besides the first (`MaxExtra`), which is enough for an update or a
  deletion by name to miss one. `prov_ends` has neither limit.
- Requests for two different entries meet only in a slice that is written back whole,
  and then no property speaks of them; one entry with two requests has the conflicts.
- Two slices are enough to tie, to merge and to differ in each of their fields. Words in
  `Bitrates` are wide enough that a sum overflows only where a product can, as in the
  program (`BitratesAssumption`).

Symmetry is used in runs that check invariants and action properties, never with
fairness.

### What the violations show
- `sync_readme`: `README.md:69` says the configuration is updated whenever a successful
  write is made through the WebUI. Deleting a subscriber rewrites device groups, from
  which two endpoints are computed, through a route without the trigger. The new
  configuration is served only after the next unrelated write or restart.
- `accounts_readme`: `backend/auth/README.md:53` says only one user can be administrator;
  two creations on an empty database both become one.
- `prov_found`: the handlers of `/api/subscriber` decide by the AM data document whether
  a subscriber exists. Taking its IMSI out of a device group removes that document and
  keeps the authentication data: the list omits the subscriber, an update is answered
  404 and a creation 201.

### Further disagreements met while modelling
No run is about these; the models contain the behaviour.
- `Inventory`, `Panic`: `PostGnb` lets the TAC be absent
  (`configapi/api_inventory_test.go:369`, "Create a new gNB without TAC expects created
  status"), and `updateGnbInNetworkSlices` dereferences it when a slice already names the
  gNB: the answer is then 500 and the gNB is not created.
- `NFConfig`, `SliceId`: slices are merged by the text of their SST and served under the
  number parsed from it, so `"1"` and `"01"` of one PLMN give two entries with one S-NSSAI,
  where `config_access_and_mobility_test.go:109` expects one for "Two network slices with
  same PLMN and same SNSSAI". `TacsServed` shows that no TAC gets lost by it;
  `ServedStable` leaves out the order of such entries (`Ambiguous`).
- `Bitrates`, `StoreGroup`: a rate is stored in bit/s next to the unit it was sent in,
  which the model of the document calls "data rate unit for uplink and downlink"; writing
  back what was read multiplies it again.
- `Startup`, `Timeout`: after three minutes `InitMongoDB` logs "Connected to auth database"
  and goes on with a nil client, which handlers dereference. `ServesPrepared` therefore
  says nothing about the client of the auth database.
- Authentication data is written through the client of the common database and read
  through the client of the auth database; with an `AuthUrl` of its own the two are
  different servers. `Provisioning` takes them to be one.

## 4. Fairness

- `ConfigSync`: weak fairness of `Send`, of the worker and of each sync goroutine. The Go
  scheduler runs what is runnable, channel senders queue in order and `sync.Mutex`
  switches to handing over when a waiter starves. Weak fairness of `Restart` stands for
  the supervisor that runs the container. Failing reads are bounded in number: with a
  database that is down for ever nothing is served, and the code does not claim it.
  Nothing says that a request arrives, or that a handler returns.
- `Provisioning`: weak fairness of each handler's steps and strong fairness of taking
  `rwLock`, since others may take it again and again and a writer waiting on a
  `sync.RWMutex` gets its turn. Nothing says that a request arrives. `prov_ends` has no
  creation or update of a subscriber: their transaction could be repeated as long as
  others delete what it finds, and it is the driver that ends this, after two minutes and
  with an error (`CallFails`).
- `Startup`: weak fairness of calls, which the driver limits in time, of timers and of the
  starting servers; strong fairness of `Timeout`, because a `select` with a ticker and a
  timer that are both ready chooses at random and so does not prefer the ticker for ever.
  Nothing says that a call succeeds.
- `Accounts`, `Inventory`, `NFConfig`, `Bitrates` and the two modules above `Provisioning`
  state no liveness.

## 5. Proofs

The proofs hold for every value of the constants under the assumptions the modules name:
- `SyncAssumption`, `SpareTasks` (a goroutine for each trigger), `AccountsAssumption`,
  `ProvisioningAssumption`, `StartupAssumption`: `None` and the like are no members of the
  sets they are used with, requests and deployments have the shape the code gives them.
- `InventoryAssumption`: the same, and there are finitely many UPFs and slices, because the
  progress of a deletion is measured by counting the slices it has left.
- `BitratesAssumption`: 64 bits hold any 32-bit rate in the largest unit, as 2^31 times
  10^9 is below 2^63. `RequestsAssumption`: a rate is a word of the width of its field.
- `NFConfigAssumption`: finitely many names of slices and of device groups, an even word
  size, and documents of the types `SliceType` and `GroupType`. The names are those of the
  documents the database holds, so they are finite, and nothing bounds their number.

- `ConfigSyncProofs`: `TypeCorrect`, then four inductive invariants. `LockInv`: exactly
  the holder of `syncMutex` is inside a sync. `CurInv`: a goroutine that was not started
  is not cancelled, and the current one belongs to a running process. `OrderInv`: what a
  goroutine has read lies between what is served and what is stored, so a field can only
  move forward. `PublishInv`: while the holder assigns, the fields it has done agree with
  its snapshot and the others with each other. `TriggersAreNotLost` needs them because
  `NoLostTrigger` alone does not say that the current goroutine's snapshot is not older
  than what is served; `FieldsAgree` follows from `PublishInv`; `ServesForwardHolds` is
  step simulation of `ServedConfig`'s safety part, one lemma for `Publish` and one for
  `Restart`, all other steps being stutters, a `Store` or a `Promise`.
- `AccountsProofs`: `TypeCorrect`; `MemoryInv`, which ties the role a handler remembers to
  the account it was fetched from, makes `FirstAdminStays` inductive although stalled
  handlers hold stale roles; `SequenceInv`, which says at most one creation is between its
  count and its insertion, gives `OneAdminAlways` and `RolesAlwaysKept` while no two
  creations have overlapped. `AdminTokensAlways` follows from
  `TokenInv`: until two creations overlap only the first account logs in as an
  administrator, and that account stays one.
- `ProvisioningProofs`: `MutualExclusion`, with any failures and restarts, and
  `DocsStayTogether`, until a write or a removal has failed or a restart has cut a
  derivation short (`broken`), both for every number of handlers. `DocsTogether` alone is not inductive: it
  says nothing while a handler holds `rwLock`. Three invariants strengthen it. `JobInv`
  says each handler's job is in order: it has all its fields, stores only slices, and,
  while it derives, has a PLMN and one of two extents. `LockInv` says exactly the holder
  of `rwLock` is at a step that derives or removes documents; with `JobInv` it gives
  `MutualExclusion`. `DocsInv` says that, during a derivation, the IMSI being written has
  the documents before its k-th one (`Partial`) and every other IMSI is `Together`; the
  two actions that write are treated one by one, all others leave the documents alone.

- The second half of `ProvisioningProofs`, about what requests achieve. `BaseInv` is the
  foundation: `JobInv` and `LockInv` of the first half; `StoreInv`, the types of what
  is stored, with documents keyed as the code keys them; `RequestInv`, `TaskInv` and
  `PlanInv`, what a handler knows at each point (an operation, the document it writes and
  the one it read, what is left to derive and to remove); and `AloneInv`: while a request
  has run alone, all other handlers are idle. `TypeCorrect` follows from `BaseInv`. Three
  of its parts are about upserts: `ExtraInv`, only slices, device groups, AM data and
  authentication data are ever stored twice; `SeenInv`, a handler remembers a find only
  between it and the write; and, in `AloneInv`, what a request that runs alone finds is
  stored once and still what it has seen. From this `PostOnce`, `WriteDocOnce`,
  `RemoveOnce`, `StoreOnce` and the like conclude that such a request's upserts and
  removals act on the first document, as one step would. By
  `SoloStep` every step that leaves a request alone is that request's own, so that the rest
  are arguments about one handler, on a store of which nothing is assumed but its types and
  that no document is there twice: otherwise faults, restarts and overlaps may have left
  anything there.
  - `DeletionInv`: whatever still refers to what a deletion deletes is in its list of
    documents to write (`ToWrite`), and is written without the reference. It gives
    `ReferencesAlwaysFirst` and `DeletionsAlwaysRepair`; that an error is remembered until
    the end is part of it.
  - `ProgressInv`: each IMSI of a device group of the slice is `Settled`: it has all
    documents, or is still to be derived, or is about to be removed with a device group the
    slice lost. `GroupProgress` says the same of a device group, and that IMSIs already
    removed have no document left. They give `SliceAlwaysRepairs` and `GroupAlwaysRepairs`.
    The exception in `SliceRepairs` is where a first attempt at the invariant failed.
  - `OrphanInv`: as long as requests come one by one and succeed, an IMSI whose documents
    no slice accounts for is among those the request will clean up (`Pending`), what a
    handler has read is what is stored, and it derives only for IMSIs of device groups of
    slices (`InStep`). It needs `DeletionInv`: a device group that is deleted is in no
    slice, so no document loses its reason. It gives `NeverOrphans`. With two PLMNs
    it fails: the clean-up removes the documents of one.
- `SubscriberViewProofs`: `NotFoundAlwaysTrue` is a theorem about composition. The scopes
  it assumes (`OneByOne`) are those the run `overlap` has: where a client views, one handler
  writes at a time, without failures, slices of one PLMN and device groups that give all
  documents. A step of `SubscriberView` is one of `Provisioning` or leaves its variables
  alone, so `BaseInv` and `DeletionInv` carry over. `WritersInv` adds what such handlers do
  to the store: it keeps to the scope (`StoreIn`, `JobIn`), no document is stored twice (`Single`), nothing fails that leaves
  documents half done (`Unerring`), what `OrphanInv` says holds also after refused requests
  (`Tidy`), and therefore no IMSI has documents without authentication data (`Owned`): when
  a subscriber is deleted, no device group of a slice has it any more, and its one document
  goes in the same transaction. `ReaderInv` draws the conclusion: the client reads the
  authentication data first, so a miss there is a moment with nothing stored.
- `InventoryProofs`: the inductive invariant is `TypeOK` with `JobInv`, how far each request
  is (`RequestOK`, `WriteOK`, `WorkOK`); `HoldInv`, at most one open transaction has written
  an entry, and one that creates it has found none; `OverlapInv`, what the history variables
  say of the others; `FollowInv`, a slice that disagrees with an undisturbed request is still
  to be written; and `AdvanceInv`, a deletion has fewer slices left than it began with once
  it has taken the entry out of one. `CopiesAlwaysFollow` and `DeletionAdvancesAlways`
  follow. `EntriesAlwaysAtomic` is step simulation of `EntryStore`: `Status` says how far the
  abstract request is, the write without a session, the commit and the commit whose answer
  is lost are the abstract instants, an end of the process and an expired transaction fail
  the abstract requests that have not taken effect, and all else stutters.
- `BitratesProofs`: lemmas on remainders and quotients (`Remainder`, `Quotient`, `WrapWord`)
  say when a product or a sum that wraps is the true one, for every width; `BitratesInv` is
  that what is stored comes from what was asked. `RuleSaturatesAlways`, `GroupRateKeptAlways`
  and `AmbrOfTwoAlways` follow, the last because a true sum of two rates needs at most one
  bit more, which the unsigned conversion keeps. `AggregateOrderAlways` is for any number of
  profiles. Addition that wraps commutes (`WrapCommutes`), so the aggregate is a fold whose
  order does not matter: `Permutation` shows by induction over the length that two orders of
  one map give the same rates (`SameRate`), and the class with the lowest QCI is the same
  profile in any order (`LowestQci`).
- `NFConfigProofs`: the invariant is `StoredInv`, the types of what is stored, and
  `DerivedInv`, each list in memory is one that a sync may derive. It is inductive without
  strengthening and says little by itself, since `Sync` chooses from what `DerivedInv` names
  (`DerivedAlways` is a lemma for that reason); the work is in what a derivation yields for
  data of any size.
  - Sorting. `Before` is a strict weak order on tuples of one length (`BeforeTotal`,
    `BeforeAsymmetric`, `BeforeSplits`); hence every finite set has a sorted enumeration
    (`OrderExists`, by induction over its subsets), without which the `CHOOSE` of a sorted
    list would say nothing, and exactly one if no two elements have one key (`OrderUnique`,
    by the first place where two would differ). A stable sort always has one result
    (`StablyUnique`), as an index decides a tie, and it is a permutation (`StableList`).
  - `PlmnServed`, `PlmnSnssaiServed`, `AccessServed`, `SessionServed`, `PolicyServed` and
    `QosList` say which entries each list has. The agreement of the endpoints
    (`EndpointsAgreeAlways`, `TacsServedAlways`, `DnnsAgreeAlways`) is then a statement about
    sets of slices; `DnnsSorted` also needs that the IP domains of a slice, flattened out of
    its device groups, are a list of domains (`FlattenType`, by induction over its length).
    `QosServedAlways`: the first match in the list is an entry that matches, and there is one
    if any stored domain matches (`QosAnswer`).
  - `ServedStableAlways` rests on uniqueness: PLMNs are their own keys, sessions and
    policies are sorted stably, and the keys of access and mobility differ for different
    identifiers exactly when the stored data is not `Ambiguous`. The QoS of an IMSI may come
    from lists in different orders, but is the one stored if there is only one.
- `StartupProofs`: `StartInv` says what each step of the start has behind it, and that the
  servers listen after the last one only. `ServesPreparedAlways` follows.

Only model-checked:
- Liveness (`PromiseKept`, `TriggerReturns`, `SyncsEnd`, `RequestsEnd`, `StartDecided`),
  which needs fairness and `ENABLED`.

Every other property of a passing run is a theorem. Where a proof is by induction over data,
it is induction over a set: a set that has 0 and with each n also n + 1 has all natural
numbers (`SetInduction`), and one that has the empty set and every set of which it has all
subsets with one element less has all finite ones (`SubsetInduction`). Both follow from
`WellFoundedInduction` without an operator as a parameter.

## 6. Limits of what is modelled

- Documents' contents, names, HTTP decoding and validation that happen before the first
  database call: a request refused there changes nothing.
- What overlapping updates of one slice leave behind: the code reads the previous document
  before it takes the lock, so documents of removed device groups can stay.
  `SliceRepairs` speaks of what the next write of the slice completes, not of what stays.
- Whole slices and device groups are written back by deletions and by the inventory, so an
  update in between is lost and a document deleted in between comes back. The models
  contain this; no document of the program promises otherwise.
- A change of a slice's PLMN leaves the documents under the old PLMN. `NoOrphans` is
  therefore stated for one PLMN, and for a device group in two slices, which is provisioned
  for the first one found, `GroupRepairs` says nothing.
- A read that fails under `rwLock` counts as "nothing found" and is answered 2xx.
  `SliceRepairs` and `GroupRepairs` are therefore about requests none of whose calls failed.
- `NotFoundTrue` is about handlers that write one by one and without failures, and about
  the scopes of `OneByOne`: with a second PLMN a subscriber's deletion leaves documents.
- GET handlers that read `inMemoryConfig` during a sync: a data race in Go, whose outcome
  is undefined.
- Lists of slices, device groups, subscribers, gNBs and UPFs (GET) change nothing.
- What becomes of documents stored twice is in the model, and no property speaks of it but
  `DocsTogether`, `MutualExclusion` and `RequestsEnd`: the properties about repair, dangling
  references and orphans are about requests that found every document once. The code has
  nothing that looks for a second document, so there is no repair to state.
- What `SliceRepairs` and `GroupRepairs` leave out is what the code does: a subscriber of a
  device group a slice has just lost loses its documents although a device group it keeps
  has it as well, documents of what was removed while handlers overlapped stay, and a
  traffic class that is missing ends a derivation after three documents, answered with an
  error.

## 7. Plan

All modules of the first plan are written but two: the GET handlers as readers, whose
race is undefined behaviour, and a composition of `Provisioning` with `ConfigSync`, which
would add to the product of the two only that a request that succeeds sends a trigger.
Every invariant and action property of a passing run is proved. What could come next:
1. `Startup` and `ConfigSync` composed, so that the first sync of `Startup` is the one
   `ConfigSync` begins with.
2. The derived documents of a subscriber with their contents instead of their presence,
   which `Provisioning` leaves out.
3. Lists with repeated IMSIs in a device group.
