# Verification of com.bitplan.simplerest

TLA+ models of the stateful parts of this library, checked with TLC, and
theorems about them checked with TLAPS. Line numbers refer to
`src/main/java/com/bitplan` unless another path is given.

## The system and its components

| Component | State it keeps | Operations | Interacts through |
|---|---|---|---|
| Server lifecycle, `rest/RestServerImpl.java` | `httpServer`, `running`, `exception`, `starter`, the server thread | `startServer`, `run`/`startWebServer`, `createServer`, `stop`, `informStarter`, `uncaughtException` | the starter's monitor, TCP ports, unsynchronized fields |
| Test harness, `src/test/.../TestRestServer.java` | one static server, one static semaphore, a port counter per test object | `startServer` (scan, set starter, start, wait), `stopServer` | calls the lifecycle and waits on the semaphore |
| Click tracking, `rest/clicks/` | one manager: list of streams, bounded map by address, times of the last flush and rotation, log files | `addPageHit`, `flush`, `logRotate`, `getInstance` (and `reinit` of a manager read back, not modelled) | every request passes `ClickFilterProvider`; files under `~/.clickstream` |
| User management, `rest/users/`, `jaxb/ManagerImpl.java` | list of users and an index by id, XML file | `add`, `getById`, `setUsers`, `reinitUserById`, `saveAsXML`, `fromXml`, `getInstance` | authentication looks users up |
| Request and authentication pipeline, `RestServerImpl` probe, `rest/basicauth`, `rest/PrincipalCache.java` | static principal cache, headers of a request | `onRequestReceiveEvent`, `filter`, `authenticate`, `Authorizer`, `getPrincipal` | headers `remote_addr` and `principal_id`, user manager |
| Resources, `rest/resources/` | template engine, static instance of the manager resource | `templateResponse`, `getElementByIndex`, `formToMap`, `implode`, `redirect` | request context, managers |
| Settings, `rest/RestServerSettingsImpl.java` | option values, class path handlers | `parseArguments`, `fromXMLFile`, `fromOther`, `addClassPathHandler` | read by the lifecycle |
| Datatypes, `datatypes/` | static null representation | conversions, `setNullValueRepresentation`, `fromNullValue` | forms and displayers |
| JAXB and JSON, `jaxb/`, `json/` | lazily created context, Gson | `fromXML`, `asXML`, `fromJson`, `save` | users, click streams |
| `CryptImpl`, `CORSFilter`, `JsonProvider`, `HeaderPropagationFilter`, `SSLClientHelper` | little or none | encryption, headers, registration of types, TLS set-up | |
| Web assets under `src/main/resources/static` | none | vendored scripts and styles | |

What is hard here: the server thread, its starter and whoever calls `stop()`
share fields without a lock; `wait()` has no predicate and all servers of a JVM
share one semaphore; the click stream manager keeps two views of its streams
(map and list) that expire by different rules, and saves one of them now and
then. `PROJECT.json` lists each hazard at its line with the properties that
would catch it.

## Modules

### ServerLifecycle (`MCServerLifecycle`, `StartContract`, `ServerLifecycleProofs`, `ServerFailureProofs`, `ServerContractProofs`)

A thread is a server thread, named like its server object, or a client, which is
a thread that runs `TestRestServer.startServer`/`stopServer`. `pc` says where it
is; each action reads or writes one shared field, so that threads interleave as
in the unsynchronized code.

* `CreateServer`, `LoadHttpServer`, `Listen`, `Publish`, `InformStarter`,
  `LeaveLoop` are `createServer()` and `startWebServer()` in order. The Jersey
  configuration inside `createServer()` is abstracted to its two outcomes: an
  `HttpServer` in the field, or the exception "Couldn't create http server".
  `httpServer.start()` binds the port or throws a `BindException`; with
  `StartMayError` it may also throw an `Error`. `useServlet` is `false`, as nothing
  in the repository sets it: the branch of `createServer()` that has Grizzly create
  and start a server of its own (`RestServerImpl.java:550-573`), and
  `context.deploy(httpServer)` between `start()` and `running = true` (708-710), which
  may throw, are left out.
* `CatchException` and `UncaughtException`/`RecordUncaught` are the two places
  that store `exception`, one before and one after `stop()`. `Throw` sends the
  thread to the handler of the frame that it is in.
* `StopCheck`, `StopShutdown` (or `StopShutdownNull`, the NullPointerException),
  `StopClear`, `StopHalt`, `StopNotify` are the statements of `stop()`, run by
  any thread.
* `ScanPort`, `StartServer`, `Wait`, `StartReturns`, `BeginStop` are the test
  harness. A client keeps a server object (`held`) until it stops it, and no
  server object is started twice, as in the harness.
* `Notify` is `starter.notify()`: it wakes an arbitrary waiter of the semaphore.
  The critical sections contain one call each, so the lock itself is not a
  variable. `SpuriousWakeup` is what the Java platform permits of `wait()`.

The sleep counter is abstracted to whether the timeout elapses at all
(`Expiring`). `running` is not volatile; the model reads its current value, which
is what the sleeping loop does on the JVMs the library runs on.

`StartContract` is the abstract promise: per server a phase (new, starting, up,
failed, down) and what its caller does with it. `KeepsContract` says that
`ServerLifecycle` implements it under the mapping `PhaseOf`/`CallerOf`.

### ClickStreams (`MCClickStreams`, `ClickStreamsProofs`)

One request at a time: `AddPageHit` is the whole of `addPageHit()`, composed of
`RecordStreams`/`RecordManager` (find or make the stream, evict from the map) and
`Housekeeping` (flush when due, then rotate when due, which flushes again).
A stream is its position in the order of creation, so the insertion order of the
`LinkedHashMap` is the order of numbers and the eldest entry is the minimum.
A log file is the minute of the last rotation, a saved file the set of hits it
holds. `save()` succeeds, fails before the file is opened, or fails after it was
truncated. `LogRotate` is `logRotate()` called from outside (as
`TestClickFilter` does), `Restart` a new process. A tick is longer than a
request. `lastSave` is a history variable.

### ClickRequests (`MCClickRequests`, `ClickRequestsProofs`)

The same manager under concurrent requests. Each request runs on a worker thread
(`Workers` of them, as in a Grizzly pool) and takes one shared access per action:
test and assignment of `instance` in `getInstance()`, then in `addPageHit()` get,
put, add to the list, append the hit, test and start a flush, iterate over the
list, test and start a rotation, visit and remove streams. Files and clocks are those
of `ClickStreams`; here a flush, a rotation or the end of a session may be due
whenever a request looks. A stream and a manager bear the name of the request that
made them.

Two calls that modify one unsynchronized collection at the same moment are a data
race, and its outcome is a choice that the first of them to end makes:

* `put` beside `put` or `remove` on the map: any entries may be lost, the new one
  included, or a removal undone (`PutStream`, `Visit`). The map is torn from then on
  (`mapTorn`): its size no longer counts its entries, so a later put, also a lonely one,
  may evict too many or too few. A `get` beside a `put` may miss an entry (`GetMisses`).
* `add` or `removeAll` beside each other on the list: the append may be lost, any
  streams may drop out, as when two `removeAll` calls move the same array to the front,
  and the call may end in an exception (`AddToList`, `RemoveAll`). Afterwards the list
  may hold a null (`listTorn`), which a rotation dereferences.
* two hits added to one stream: one may be lost (`AppendHit`).

A list that changes under an iteration invalidates the iterator, and its next
step throws the ConcurrentModificationException that fails the request. `raced`
collects the requests whose call or whose stream a race befell; the properties exempt
these and nothing else. Left out: a stream that stands twice in the list after a race
(it is saved twice), calls that never end in a broken chain of the hash table, an
iteration that a lost change of the modification count spares, and reads of values
that another core has long replaced.

### RequestPipeline (`MCRequestPipeline`, `RequestPipelineProofs`)

User management and authentication together, since their hazards are in between.
`Receive` and `CachePrincipal` are the probe of `createServer()`, `FilterKnown`,
`FilterUnknown` and `NoFilter` the first half of `BasicAuthSecurityProvider.filter()`
(or its absence without a user manager), the `Authenticate` actions the branches of
`authenticate()`, `Resource` the call of `getPrincipal()`. Meanwhile adders run
`add()` in its two statements (`BeginAdd` to `ListUser`, then `IndexUser`), the exposed
list is cleared, saved, and read back by a new process. An account is an id and an
encrypted password; encryption is an injective function. Whether https,
certificates, basic authentication and a user manager are on is chosen in `Init`.

A request brings an authorization header (`credentials`), the subject of a client
certificate or none, and a header `principal_id` of its own or none (`claimed`). The
probe overwrites that header only when there is a certificate (`NameRequest`), and the
filter looks up the header (`Known`), not the certificate. `authenticate()` splits user
and password at colons and takes the second part, so a password counts up to its first
colon: `BeforeColon`. Accounts are made with the whole password (`UserImpl`).

Data races: an append that ends while or after another one ran may cut out accounts
listed since it began, lose its own, or end in an ArrayIndexOutOfBoundsException before
the index is reached (`ListUserRaces`). Puts into a `HashMap` that meet (`overlapped`)
may lose any entries (`IndexUserRaces`, `CachePrincipalRaces`), and a get may miss an
entry meanwhile (`AuthenticateMisses`, `FilterUnknown`). Left out: the nulls that an
overlapping append may leave in the list, which are accounts lost when it is saved; a
`clear()` during an append, which the test that clears does not do; a save that a
concurrent add ends with an exception; broken chains of the hash table; several servers
of one process with the one static cache.

History variables: `loose` holds the ids whose index entry may differ from the
list because calls of `add()` overlapped, a race lost an account or entry, or the list
was cleared; a later undisturbed `add()` of the id settles it. `seen` is what
the list said about the credentials of a request at each moment since it arrived,
`raced` the requests that a lost put or missed get of a `HashMap` misled.

### ServerSettings (`MCServerSettings`, `ServerSettingsProofs`)

One server object: `AddClassPathHandler` in its constructor, `StartServer` is
`parseArguments()` with the configuration file (`FromOther`) up to the loop of
`startWebServer()`, `Sleep`, `LeaveLoop` and `Stop` the loop. It refines what
`ServerLifecycle` abstracts to `Expiring`: the counter is an int and the limit a
long, both with `Wrapped` arithmetic of few bits. Three options stand for all:
one that is compared (`timeOut`), one that a file overrides (`port`) and one that
it does not (`options`). What follows the first mistake on a command line is left
out because args4j does not look at it.

## Runs

| Run | Instance | Shows |
|---|---|---|
| `start_stop` | 1 client, 3 servers, 3 ports, no timeouts, `createServer()` may fail | `startServer()` returns only for a running or failed server; stops do not collide; no port stays bound; a stopped server stays down; the exception is final; `stop()` ends the thread; refinement of `StartContract` |
| `timeout` | 1 client, 1 server that times out, every failure | timeout and `stop()` race, yet the port is freed and the thread ends |
| `undisciplined` | 2 clients, 2 servers, timeouts, spurious wake-ups, every failure | types; a failed start never looks like a running server |
| `bind_failure_hang` | 1 client, 2 servers | finding: the notification of a failed bind comes before the wait and the starter waits for ever |
| `timeout_wakes_starter` | 1 client, 3 servers, one times out | finding: the shared semaphore wakes the starter of another server, whose port is in use, before that server has noticed |
| `click_log` | 3 addresses, map of 2, 4 hits, 4 ticks, 1 restart | map and list agree; the log splits a visitor only after an eviction; only hits younger than the flush period miss the disk, unless a save failed and a rotation followed; saved hits stay |
| `rotation_young` | map of 2 | finding: a rotation removes a young stream from the map |
| `click_concurrent` | 3 requests on 2 workers, 2 addresses, map of 1; the third request only while nothing is lost or torn | every data race of two requests, flushes and rotations that overlap or fail half way: mapped streams are saved, only old ones leave the list, hits of ended requests are kept, no split without an overlap, but for what a race befell |
| `second_manager` | 2 requests, 1 address | finding: `getInstance()` hands out two managers |
| `rotation_disturbed` | 3 requests on 2 workers, 2 addresses, map of 1 | finding: a concurrent request makes the rotation throw the exception its comment says it avoids |
| `pipeline` | 2 requests, 2 adders, 2 certificates, 2 ids with 2 passwords, one the other with a colon and more, 3 users, 1 restart, 5 configurations, in three parts (see below) | index and list agree and a reload keeps logins, but for ids that a race, an overlap or a clear befell; logins are decided as some moment of the request demands; requests keep their own caller; certificates suffice; which requests end in an error |
| `settings` | 2 starts, every command line, 2 files, timeouts -1 to 17 with ints of 4 and longs of 6 bits | the loop ends in time and never early up to the overflows; a configuration file keeps deciding |

Bounds. A hand-shake involves one client, its server and at most one other
server; three servers let a port conflict, a failed creation and a running
server occur together. For the click log, two map entries under three addresses
force evictions, a period of 3 ticks with sessions and flushes of 2 lets a
request flush, rotate or do both, and rotate while a flush is not yet due, and 4 hits suffice to evict an address, see it
again and rotate. Concurrent requests interfere in pairs; the third request finds
what two others left, and a map of one entry evicts at the second address.
In `click_concurrent` a third request begins or goes on only while no race has lost
anything or torn a collection (`TwoOrSound`), since three requests with torn collections
are too many states; two requests race without limit, and the theorems have no such
bound. Users and requests meet only in a login, so `pipeline` explores three parts of
their product (`InParts`): the users alone, up to three, or two beside a file
(`DirectoryPart`); one login beside two adders and up to two users (`LoginPart`); two
requests that meet in the cache beside one user at most (`RequestPart`). In the first two
only one id has a password with a colon, and requests are not combined with saving and
restarting, which they never read. A list of three holds an id twice beside another id,
so that an append lost to that of another id shows. Two starts suffice for a setting
left by the first. With two sleeps a second the timeouts 3, 4 and 17 lie below
the overflow of the counter, beyond it, and beyond that of the product. Deadlock is not an error in any run: all servers may have been
used, a starter may wait for ever (that is a finding), and bounds stop the clock.

Fairness. Each thread is weakly fair, as a runnable Java thread is eventually
scheduled; calls of a client (starting or stopping) are not fair, since nobody
has to make them. In `settings` the server thread is weakly fair, nothing else.
The click and pipeline modules state no fairness: they claim no progress.

Assumptions of passing runs. In `start_stop` one thread starts and stops all
servers, no timeout elapses and `start()` throws no `Error`. Otherwise its properties
are false: with a timeout a starter may be woken by another server, or return only when
its own has stopped again, and two `stop()` calls may collide in a NullPointerException
(the first is a finding; of the other two no line of the repository promises
anything); after an `Error` the starter is informed before the exception is stored. In `click_log` no restart or outside
rotation happens within the minute that names the current file
(`ReuseMinute = FALSE`); otherwise the file is overwritten and hits are lost.
`OldHitsSaved` is about requests whose own saves succeeded. A failed save makes up
for itself at the next one, but `flush()` advances `lastFlush` although it failed:
when a rotation comes before the next flush is due, it drops old streams whose hits
were never written. The property leaves out exactly the streams that the request
itself rotates out after a save that failed. In the
pipeline the text "null", which stands for a missing user in the header, is nobody's
name. `DecisionFits` exempts a request whose header `principal_id` names the very id it
logs in with, since the cache may then decide, and `OwnPrincipal` takes that header for
the request's own name when there is no certificate, as the code does.

## Proofs

Every invariant and every action property that a passing run checks is proved
for all values of the constants. Only the named assumptions of the modules
(`LifecycleAssumption`, `SettingsAssumption` and so on: sizes are natural numbers,
`None` is nobody's name) and the hypotheses given here are used.

### The server

`ServerLifecycleProofs` proves, for every number of servers, clients and ports:

* `TypeCorrect`: `Spec => []TypeOK`, with one lemma per group of actions.
* `StartIsSettled`, `StopsNeverCollide`, `PortsAreReleased` and `StopIsFinal`: the
  safety properties of `start_stop`, under `Discipline` (one client, no timeouts,
  no Errors, no spurious wake-ups).

The argument: none of the properties is inductive, since each speaks of one point
of one thread. `IInv` adds, for each server seen from the one client, the
`Situation` it is in: fresh, launching, failing, failed, live, closing, cleared
or gone, each with the exact values of `httpServer`, `grizzly`, `running` and
`exception`, tied to where the client is. From it, a notification can only come
from the server the client waits for. `SituationFrame` and `OtherSituation` show
that steps on one server leave the others alone; the remaining lemmas go through
the actions one by one.

`ServerFailureProofs` leaves the discipline:

* `FailureIsFinal`: `FailedStartNeverRuns` without any hypothesis. Its invariant
  `FInv` says that a server has at most one client that gives birth to it
  (`Births`), that it is not up before the bind has succeeded, and that an exception
  of the start only exists on one that is not up (`Attempt`).
* `StopIsSilent` and `PortIsReleasedAlone`: with one server and one client (`Alone`),
  but with timeouts and Errors, a stopped server does not listen and no port stays
  bound. `Watched` says which `stop()`, of the two that may run at once, is still
  going to shut the listener down. With several servers and a timeout both are
  false: a client woken by the wrong server stops one that is not yet up.

`ServerContractProofs` builds on the same invariant, under the same discipline:

* `Refinement`: `Spec => KeepsContract`. Each step changes what the mapping shows
  of at most one server (`RunStepContract`, `ServerStopContract`,
  `ClientStopContract`, `ClientContract`), and that change is a transition of the
  contract (`ContractStep`). The steps of a server that is starting or failing
  are invisible except where it comes up or records its exception.
* `RecordedForGood`: `Spec => ExceptionSticks`. `CatchException` is the only step
  that stores an exception, and it finds none stored.

`ServerSettingsProofs` proves, for all timeouts, widths of integers, files and
command lines:

* `TypeCorrect`: `Spec => []TypeOK`; `WrappedRange` is the lemma on two's complement.
* `NeverTooEarly`: `Spec => NeverEarly`. The counter never runs ahead of the sleeps
  (`Behind`), since a wrap around only sets it back; the limit is the timeout as
  long as the product fits, and a negative timeout is over at once.
* `ConfigLasts`: `Spec => []ConfigDecides`, which is not inductive: `Lasting` adds that
  the file in force is the one last named.

### Users and authentication

`RequestPipelineProofs` proves all properties of `pipeline`, for every number of
requests and adders and every set of users and configurations, data races included. `IInv` has three parts:

* `DirectoryInv`, for `IndexFollowsList` and `ReloadIsFaithful`: a settled id has an
  entry exactly if it is listed, and it is the last listed (`Agree`, by `Match`);
  whoever adds an id that is not `loose` is alone with it, the entry is still right
  until its append ends, and from then on its account is the last of that id in the
  list (`Sole`). `LastUnique`, `AppendAccount`, `CutAccounts` and `ReinitAgrees` are the
  lemmas on lists and on the index that is built from one; `RaceCuts` says that an
  append with a race spares the ids that are not cut out.
* `Noted`, for `DecisionIsCurrent`: what the list says at this moment of a request's
  credentials is in `seen`. A lookup reads the index, which `Agree` ties to the list.
* `Identified`, for `PrincipalIsOwn`, `CertificateSuffices` and `ErrorsHaveNoUser`:
  what principal a request may have at each point; after the probe the header of a
  request with a certificate names its subject, whatever the client had put there, and
  the cache holds it when the filter asks, unless a race befell the request.

### Click tracking

`ClickStreamsProofs` proves all properties of `click_log`, for every set of addresses
and all capacities and periods. `Sound` is the invariant of streams, manager and
disk: the map is a part of the list with one entry per address (`OneCache`, for
`OneCachePerAddress`); while the addresses fit both are equal (`NothingEvicted`, for
`OneStreamEach`); the file in use holds hits of listed streams only and no later file
is used (`FileIsOwn`, for `SavedHitsRemain`, whose hypothesis is `~ReuseMinute`).
`FlushedIsSaved` adds that after a save that succeeded the hits older than the last
flush are in the file, for `OldHitsReachDisk`. Since `AddPageHit` is composed of
operators on a manager, the lemmas speak of any manager and are composed likewise.

The proof of `OldHitsReachDisk` first failed at a request that finds no flush due
and then rotates after an earlier save had failed. With `FLUSH_PERIOD = 1` the
instance always had a flush due when it rotated and TLC could not see this; the run
now has a period of 2 and the property names the exception.

`ClickRequestsProofs` proves all properties of `click_concurrent`, for every number of
requests, addresses and worker threads and every capacity. `IInv` consists of:

* `Flow`, `InsideList`, `FoundWasPut`: what a request has at each point, and that a
  sound iterator is inside its list.
* `Owned`, `Removed`: the collections of a manager hold streams made for it, and what
  a rotation is about to remove has aged and has left the map, unless a race has undone
  the removal. The latter makes
  `EntriesAreSaved` (`OfferedIsSaved`) inductive and gives `DroppedWasOld`.
* `HitsAreSafe`, for `HitsOutliveRequests`: each hit recorded so far is in a stream
  that is listed, about to be, aged or raced. That a found stream is safe follows
  from `EntriesAreSaved`.
* `Distinct`, `PutIsFound`, `SplitByOverlap`, for `SplitsAreOverlaps`: one entry per
  address; while the addresses fit, an address whose stream was put and has neither
  aged nor met a race (`Aged`) has an entry; so a request misses it only while the other is before its put.
  `FitsNew` is the counting argument: a full map without the address would hold more
  addresses than there are.
* `StartedFinite`: the requests begun so far are finitely many, which the counting needs.

`FilterPositions`, `EnteredProperties`, `PutProperties` and `WithoutProperties` are the
lemmas on the two collections. Each action is first reduced to what it changes (`PutStep`, `VisitStep`
and the like), so that the invariants need not go back to the definitions.

### Only model-checked

Liveness (`StopEndsThread`, `TimeoutShutsDown`, `LoopEnds`), which the prover cannot
do, and the findings, which are counterexamples.

Two promises of the documentation fail on reading, so no run is spent on them: the
list of streams exceeds the maximum that `ClickStreamManager.java:56-57` announces,
because only the map is bounded, and `-options` in a configuration file is dropped by
`fromOther()`, although `RestServerSettingsImpl.java:81` promises command line options in
XML. Both are modelled as the code has them.

## Not modelled, and plan

What is left to prove: which of the properties of `start_stop` hold with timeouts as
long as there is one server at a time, between `Discipline` and `Alone`; and that
`ClickRequests` with one worker only takes steps of `ClickStreams`.

Not modelled, and why:

* Datatypes, form mapping and template helpers convert between strings and
  values. Right or wrong is a matter of their wording, and they keep no state
  but the null representation, which is listed as a hazard.
* JAXB and JSON are calls of libraries; saving and reading back are steps of the
  modules that use them. A crash while `saveAsXML()` writes leaves a truncated
  file; `Save` is one step, so what `pipeline` says of a reload excludes it.
* `CORSFilter`, `JsonProvider`, `HeaderPropagationFilter`, `SSLClientHelper` and
  the certificate set-up of `RestServerImpl` keep no state of their own.
* Where the address of a visitor comes from (`remote_addr`, or `X-Forwarded-For` for
  local ones): an address, possibly null, is what `addPageHit()` has read.
* `reinit()` of a click manager that was read back from XML, which no request does, and
  the `useServlet` branch described above.
* Grizzly, Jersey, Rythm and the JDK appear as the outcomes the code handles.
* The scripts under `src/main/resources/static/js` (jQuery, jQuery UI, timepicker)
  are third-party code that the library serves as files.
