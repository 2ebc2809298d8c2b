# TapSDK-CPP in TLA+

A verification project for the TapSDK C++ core (`source/`): TLA+ modules for the
parts that keep state across threads, crashes and restarts, TLC configurations that
check them on small instances, and TLAPS proofs, for every instance, of all the safety
properties that the runs check and of two refinements.

    tlc -config DurCore.cfg MCDuration        # a run
    tlc -config Timer.cfg CoreTimer           # a run without an MC module
    tlapm Tracker_proofs.tla                  # the proofs of a module

`PROJECT.json` maps every definition to the lines it models and lists the
components, runs, hazards and theorems.

## 1. The system

The SDK sits in a game's process. The application sets the device, game and user and
tells the SDK when its window comes and goes; the SDK counts playing time and sends
it to a collector (duration statistics), stores log messages and uploads them to log
servers (tracker), and offers a login by QR code. `externals/` is vendored and not
modelled.

| part | state | operations | meets |
|---|---|---|---|
| duration statistics, `duration/duration.*` | session, game, user, foreground, config, report queue | handlers of game, window and user events, two heart beats, config request, reporter thread, stop | event bus (called), timer (callbacks), persistence, HTTP |
| duration persistence, `duration/persistence.*` | SQLite tables of events, the session, the config | AddOrMergeEvent, Delete, GetEvents, UpdateSession, UpdateConfig | duration statistics |
| tracker, `tracker/tracker_impl.cpp` | map of caches, indexes in use, the one upload, the cache that failed last | Init, FlushTracker, CheckAndUploadTrackers, the upload and its callback | disk cache, timer, HTTP |
| tracker disk cache, `tracker/cache.*` | a mapped file: header, config, records | Init, Push, Load, Clear, Destroy | tracker, file |
| file, `base/file.*` | FILE, cached size | Open, Size, Resize, Map, Commit, Close, Delete | disk cache |
| blocking queue, `base/blocking_queue.h` | bounded deque, stopped flag, two condition variables | Put, Take, Front, Back, SetCapacity, Stop | duration statistics |
| core timer and host event, `base/timer.*`, `base/event.h` | heap of messages, two auto-reset events, flags, online time | PostEvent, RemoveMessage, RemoveEvent, Looper, Advance, Pause, Resume | everything periodic |
| future, `sdk/result.h` | result, retrieved, callback | Set, Get, AWait | login, application |
| SDK start and C interface, `sdk/*` | two inited flags, device, config, game, user, window, cache of tracker configs | tapsdk_init, the setters, window calls, tracker calls | all of the above |
| login, `login/*` | the running login | Login: QR code, polling, cancel, time-out | HTTP, window, timer's clock |
| HTTP client, `net/*` | pool of clients, common headers | requests, unwrapping of responses | cinatra (external) |
| hashes, encodings, utility headers, bindings | none of the SDK's own | | |

What is hard here:

* **Crashes.** Both stores are outboxes: a row or record must stay until a server
  answered, whatever step the process ends at, and a restart must read what any step
  left. Push and Clear of the cache file are two plain stores to mapped memory each.
* **Three threads and callbacks.** Handlers, timer callbacks and the reporter share
  the session and the queue under different locks, or none; an upload's callback
  runs later, on another thread, or at once on the thread that started it.
* **Failure and retry.** An answer may be lost after the server took the data; a
  4xx means drop, everything else means try again; Commit may fail after the store.
* **Stop and restart of threads.** A config may disable and enable the reporter; a
  stop must reach it in a wait, in a retry, in a sleep. The destructor of the timer
  joins a thread that may stand in one of two waits or in a callback.
* **Hand-made synchronisation.** The queue, the timer and the future each test a
  condition and then sleep; between the two another thread may post, stop, resume or
  complete. The HTTP pool hands a connection from one thread to another.
* **Calls the host may make in any order.** A second or a failed start, setters from
  several threads with and without a lock, window calls before the first game, and
  structs that are filled in again with an old hash.
* **Clocks.** The login measures unsigned differences, in whole seconds, of a clock that
  another thread sets while it polls. The statistics set that clock from whole seconds of
  the server, so it steps back as a matter of course.

Correct means, in short: nothing accepted is lost before it is answered, but for the
exceptions named in section 3; nothing is sent that was not stored; sessions and order
survive restarts; what is cleared is what was sent; and everything stored is sent in the
end, as far as the code promises it.

## 2. Modules

| module | models |
|---|---|
| `DurPersistence` | tables and operations of `persistence.cpp` |
| `DurationStatistics` | `duration.cpp`, with the queue and the three threads (EXTENDS `DurPersistence`) |
| `DurationStatistics_proofs` | its theorems |
| `CacheContent` | what a cache file means apart from its layout: its records and its count; used by the next three |
| `RecordLog` | abstract specification of the cache file |
| `DiskCache` | `cache.cpp` over `file.cpp`, store by store; implements `RecordLog` |
| `DiskCache_proofs` | its theorems, the refinement among them |
| `Tracker` | `tracker_impl.cpp`; its files are values of `CacheContent`, the level at which `DiskCache` is shown to behave |
| `Tracker_proofs` | its theorems |
| `BlockingQueue` | `blocking_queue.h` with any number of producers and consumers |
| `CoreTimer` | `timer.cpp` and `event.h`: the timer thread, its callers, the destructor |
| `Future` | `Promise` and `Future` of `result.h` |
| `Login` | `tap_login.cpp` and the online clock of `timer.cpp`; EXTENDS `Future`, whose promise it completes |
| `HttpClient` | the connection pool and both forms of `RequestAsync`, with the unwrapping of a response |
| `Sdk` | `tapsdk_init` and `Init` store by store, the session calls of `tapsdk_api.cpp` |
| `TrackerApi` | the tracker calls of `tapsdk_api.cpp` |
| `CInterface` | `Sdk` and `TrackerApi` together, which share the flags the start raises |
| `BlockingQueue_proofs`, `CoreTimer_proofs`, `HttpClient_proofs`, `CInterface_proofs` | theorems of these |
| `Login_proofs` | theorems of `Future` and of `Login`, which uses it |
| `MCDuration`, `MCDiskCache`, `MCTracker`, `MCLogin`, `MCHttpClient`, `MCInterface` | values for constants that a .cfg cannot write, and symmetry; the other modules are run as they are |

Definitions marked `\* mutant` are wrong variants of the definition that follows
them, as a plausible slip in the code would produce. No specification uses one; with
its counterpart replaced by it, the property it is listed with in `PROJECT.json` is
violated.

### 2.1 Duration statistics

*State.* The tables (`dur_event`, `session_row`, `config_row`, `sqlite_seq`) survive a
crash; the rest is the object's members and the threads' locals. `app` is where the
handler of the application thread stands: idle, about to store, about to queue, or
in the tail of GameStart or OnNewUser. `event_lock` is held exactly while it is not
idle. `timer` is the online heart beat between its unlocked test and the lock,
`thread` the place of the reporter in its loop.

*Actions.* A handler is cut wherever it changes the disk or the queue: `OnForeground`,
`OnBackground`, `GameStart`, `Login`, `LoginAgain` and `Logout` build the event,
`StoreEvent` writes the row, `PutEvent` queues it. `EndPreviousSession` and `StartSession`
are Init, in two steps because a crash may fall between the row that ends the old
session and the one of the new. `ReportLoop`, `Take`, `Compose`, `Post…`,
`DeleteReported`, `DropRefused`, `AckHeatBeat` and `Retry` are the reporter. `Config`
is the answer to the config request.

*The first launch* finds empty tables, or (`CachedConfigs`) what an earlier process left: a config,
perhaps one that disables the reporter, and its last session. *The clock* steps by a member of `Skews`
when a config's answer sets the online time, and at a launch, which finds the device's own clock
again; `set_back` records that it went back in this process.

*Undefined values.* `report_success` is read uninitialized when a batch holds only heart
beats and the game is in the background; the model takes either value.

*Abstracted.* Names and ids are model values; JSON is reduced to whether ToJson throws
for the user (`BadUsers`). Time is a bounded clock. A batch's Delete is one step.
A launch numbers its session, as the generated UUID would.

### 2.2 Disk cache

*State.* `file` is the content that mapping and file share and that outlives the process,
`disk` what the last fsync wrote. Every store of Push, Reset and SaveConfig is an
action of its own, named for it, so `Kill` comes between any two. Sizes are in units;
`body[o]` says which unit of which record is at offset o, so that overlapping,
truncated and torn records exist. `PowerLoss` keeps, of what changed since the last
fsync, any combination of header, size, config and units.

*Load* is the loop of the code, as a recursive function over its rounds, with its
bounds test, magic and hash. What is read where there is no record header is `Garbage`.

*Not modelled:* the mode without a mapping (Windows, or a mmap that fails in Init),
whose Reset writes the bytes of the config object over the header (`cache.cpp:198`); a
power loss that tears the header itself; SerializeToBuffer failing.

### 2.3 Tracker

*State.* `files` outlive the process; `trackers_cache` and `tracker_cache_ids` are the two
maps, `upload` the cache that is out of the map, with what was sent. `lock` is
`tracker_lock`: FlushTracker holds it over several steps, the check and the callback
for one.

*Actions.* `FlushTracker` and its loop (`PassFull`, `UploadFull`, `PushTrue`,
`PushFalse`, and `PushStoredFalse`, where the record is in place and only Commit failed), the loop over free indexes (`CreateAndPush`,
`CreateAndPushFalse`, `CreateAndPushStoredFalse`, `CreateFails`, `Refuse`), `CheckAndUpload`, the callback
(`UploadSucceeded`, `ClearThrows`, `UploadFailed`), `Launch`, and the ends of the process,
of which two fall between the stores of a Push and of a Clear.

*Undefined behaviour.* `UploadFull` erases the map entry the loop stands on, and `ClearThrows`
leads to a second fclose of one FILE: the process goes on as if nothing happened, or
is `"undefined"`, from where only an end of the process leads on.

*Deadlock.* A coroutine that fails before its first wait runs its callback at once.
When the upload has nothing to load, or the endpoint is no address, the callback
locks `tracker_lock` in the thread that holds it: `lock = "dead"`.

### 2.4 Blocking queue

*State.* `queue_`, `capacity_` and `stopped` are the members; `full_` and `empty_` are the
threads asleep on each condition variable, `op[t]` the call thread t is in, `todo[t]` what
its Put has not pushed yet. What happens between taking and releasing `mtx` is one step.

*Actions.* `CallPut`, `CallTake`, `CallPeek`; `Put` (one task or a vector, up to a wait or
the end), `WaitEmpty`, `TakeNothing`, `Take`, `Peek` (Front and Back); `SetCapacity`, `Stop`,
and `WakeForNoReason`, a spurious wake-up. The queue is modelled as built with NDEBUG. Front does
not test `stopped`, and SetCapacity neither locks nor notifies, as in the code. The capacity
given to the constructor is any of `Capacities`, 0 included, which no caller passes and on which the
first Put waits, on an empty queue, for a wake-up that SetCapacity does not send.
`DurationStatistics` keeps its own, single-taker form of the queue.

### 2.5 Core timer

*State.* `msg_queue` is the heap as a set, ordered by `Before`; `host_event` and `pause_event`
are `is_set` of the two HostEvents; `looper` is where the thread stands in Looper and Advance,
`setting[t]` the event a caller still has to set after it released the lock, `dtor` the
place of the destructor.

*Actions.* `PostEvent`, `SetEvent`, `RemoveMessage`, `RemoveEvent`, `Pause`, `Resume` by the
callers, `Release` when the last owner of an event lets go, one action per step of the
thread (`Outer`, `Inner`, `Pop`, `Invoke`, `EnterCallback`, `Callback`, `Idle`, `Sleep`, `Woken`, `TimedOut`,
`PauseOver`) and one per store of the destructor.

`Event::Invoke` reads `active_` and then calls the callback with no lock held (`timer.cpp:18-22`): `Invoke`
is the read, `EnterCallback` the call, and RemoveEvent may come between the two. RemoveEvent does not
wait either, so a callback whose test it came too late for begins, or goes on, after it returned.

*Abstracted.* Posts are bounded: a callback that posts itself with no delay for ever keeps
Advance in its inner loop, which does not look at `shutting_down`, and the join then never
returns. The clock never goes back; `high_resolution_clock` may be the
system clock, which may.

### 2.6 Future and login

*Future.* `place[x]` is where a setter, waiter or callback stands; `timeout[g]` is the local of
`Get(timeout_ms)`. Callbacks are called outside the lock, so `Set` and `Call` are two steps.
`Get(timeout_ms)` does not return at its time-out: it loops while nothing was retrieved *or*
the last wait timed out (`result.h:99`), so it may wait on, unnotified, although the result is
there; `WaitsOnlyAfterTimeOut` says that no other wait outlives the result.

*Login.* The coroutine (`Login`, `QrCode`, `Test`, `Answer`, `Slept`) and the user's `Cancel`. The two
stores of `SetOnlineTime` are not atomic: between `SetOnlineTime` and `OnlineTimeSet` a reader
sees any mixture. The clock is in milliseconds; `TimeSecNow` cuts a time to seconds, as
`tap_login.cpp:21-23` does, and the login subtracts two times so cut. Elapsed times are unsigned and wrap
at `Wrap`. Window and server answer nondeterministically.

### 2.7 HTTP client

`Acquire` and `RecycleClient` are the pool, `Send`, `Answered` a request. The callback form
unwraps first and recycles then; the coroutine recycles first (`coro_httpclient.cpp:183`) and then
reads the body, which is a view into the connection if the answer was chunked, so that the
next request on the connection may empty it: `chunk[c]`. Data that does not fit makes the
callback form throw on the client's thread, where nothing catches it (`httpclient.h:134,148`): outcome
`"threw"`, which ends the process (`Alive`). `UnwrapCode` is `TapUnwrapResult`,
by cases on the fields that are present. cinatra is external: what `Send` and `Answered` say of it is
read off its use. Headers, parameters and the HMAC are text without state, and so are DownloadAsync and
UploadAsync.

### 2.8 SDK start and C interface

*State.* The globals of `tapsdk_api.cpp`, `tapsdk.cpp`, `platform.cpp` and `runtime.cpp`; `dur_user`,
`dur_game` and `foreground` are what the statistics hold, `window` what the last window call said.
`saved_user` is the user of the last session in the database, which the start of the statistics restores
(`duration.cpp:207`). Each store of `tapsdk_init` is a step, since nothing locks it.

*Actions.* `tapsdk_init`, `StoreConfig`, `CheckInited`, `MarkInited`, `StartTimer`, `CreateBus`,
`StartModules` (or one of them fails), `ReturnSuccess`; `tapsdk_user_set`, `tapsdk_game_set`, `BeginWindow` for the two
window calls, and the notification of each. A window call before the first game ends in a std::logic_error
that leaves an `extern "C"` function; whether the host catches it is the host's. A second call of `tapsdk_init` that finds the SDK started still
overwrites device and config. `TrackerApi` has `Refill` (the host), `Create` and `Flush`; a flush is
answered by `Tracker` at its own level, here nondeterministically. `CInterface` lets an idle thread make
a tracker call once `sdk_inited` is up and passes `tracker::inited` on.

## 3. Runs

| run | instance | distinct states | what it shows |
|---|---|---|---|
| `dur_core` | 1 user, 1 game, 2 launches, 2 events and a GAME_END per launch, queue 2, clock 1..2 that may step back | 3.9 M | all safety properties of the statistics, with crashes anywhere and configs that disable and enable |
| `dur_fair` | 1 launch on empty tables or after a config that disables, 3 events, reports of 1, a user whose report cannot be encoded | 175 k | stored events are reported in the end; a stop ends the reporter |
| `disk_kill` | messages of 1, 2, 5, 7 units, step 6, limit 13, 2 ends | 270 k | the file against ends of the process and failing mmap; `DiskCache` implements `RecordLog` |
| `disk_power` | messages of 1, 2, 1 units, step 5, limit 9, 2 ends | 739 k | the file against power loss |
| `trk_safe` | 2 configs, one malformed, 4 messages, 2 indexes, group size 2, 1 crash, 2 failing file operations | 650 k | all safety properties of the tracker |
| `trk_live` | 2 configs, 3 messages, 1 index each, 1 crash, 1 failure | 47 k | accepted messages are delivered |
| `queue` | 2 producers, 2 consumers, vectors and limits of 1 and 2, capacities 0, 1 and 2 (and 3, the largest), 2 tasks each | 67 k | no lost wake-up, order, Put returns |
| `timer` | 2 threads, 1 event, 3 posts, delays 0 and 1 | 278 k | no message slept past, or tested after its removal and run; messages leave; the join returns |
| `future` | 2 setters, 2 waiters, 1 timed waiter, 2 callbacks | 8 k | callbacks and waiters against Set in every order |
| `login` | expires_in -1, 0, 2, two settings of the clock, steps of 500 ms, numbers wrap at 16 | 175 k | time-outs are due but for the cut to seconds, logins and canceled logins end |
| `http` | 2 coroutine requests, 1 with callbacks, pool of 1, four answers | 192 k | one user per connection, right outcome |
| `interface` | 2 threads, 2 configs, 1 user, 2 games, 1 struct, 2 configurations, 2 messages | 316 k | start and session calls, or start and tracker calls, in any order |

*Why the bounds are enough.* Two launches show what a second one finds of the first,
and the proofs cover any number. Two events and a queue of two give a merge, a batch
of two, an event that arrives while a batch is in flight, and one that merges into a row that is. `dur_core`
lets the clock step back by one, within the two times an event may have; `dur_fair` begins after a config
that disabled the reporter, so that a second one that disables and one that enables start it on a stopped
queue. The file's sizes are
chosen so that there is a message that fits, one that makes the file grow, one that
fills a whole step and one that is larger than a step, and so that the limit refuses
some; two ends give a recovery that is itself cut. Two indexes give a full cache, a
cache being uploaded and a free index at once, for two configs; one crash suffices
for each cut, and two failures for a failing recovery from a failure. The queue has two
threads on either side because a lost wake-up takes a second sleeper, and vectors of two on a
capacity of one, so that a Put waits in the middle. Two posting threads put one post
between the tests of the other and of the timer; three messages of one event give one in
the thread's hands, one queued and one posted again after a removal. The login's clock is set at
most until half a second after the start, before and after the polling begins, forwards and back; steps of half a
second let the polling begin in the middle of a second, and 16 seconds are
more than any honest difference, so that only a clock set back wraps. Two requests for one pooled
connection and a third beside them give every hand-over. Two threads and two configs give overlapping, repeated and failed
starts; two games show one thread's left with the other's, and two messages from one struct a hash that is known, or
stale, at the second. Session calls and tracker calls share nothing but the two flags that the start raises, so
`interface` follows each kind from every start and goes no further once both were made (`OneKindOfCall`). The theorems of section 4 cover any sizes.

*Symmetry.* `trk_safe` treats the messages of one config as interchangeable, `http` the
connections and the requests of a kind, `interface` threads, users, games, fields and messages. These runs
check no temporal property.

*Deadlock checking* is off where the system may stop: the bounds on launches and
messages end a behaviour, and a process in an undefined state need not go on.

### Properties

Duration: `KeptUntilAnswered` (an event leaves the disk only after an answer to it or to one it shares its row with),
`StoredFirst` (nothing is sent that is not stored), `SessionEndsOnce`, `ReportedInOrder`,
`EventsAreOnTheirWay` (none of the running session is forgotten, also one whose row is gone), `AbortsOnlyWhenReenabled`, `IntervalsAdvance` (an action property),
`EventsAreReported`, `StopEndsReporter`.

Disk cache: `KeptIsLoaded` (what Push confirmed is loaded until Clear), `Reopens` (a file
once initialised is accepted without a config), `InsideMapping`, `IsRecordLog` (the refinement).

Tracker: `AcceptedIsKept`, `TwiceOnlyAfterMishap`, `OneCachePerFile`,
`ClearsWhatWasSent`, `DeadlockNeedsCutStore`, `AcceptedIsDelivered`.

Queue: `NoLostWakeUp`, `BoundedFifo`, `PutReturns`. Timer: `NoLostWakeUp` (no message and no
Resume is slept past), `RemovedStaysSilent`, `MessagesLeave`, `JoinReturns`. Future:
`CalledUnlessReplaced`, `WaitsOnlyAfterTimeOut`. Login: `TimeoutIsDue`, `LoginEnds`, `CancelEnds`. HTTP:
`OneUserPerClient`, `OutcomeIsTheServers`. C interface: `StartsOnce`, `StatisticsAgree`,
`MessagesGoRight`.

Several of them name the exact exceptions the code has, and would fail without them:

* `KeptUntilAnswered`: AddOrMergeEvent gives a repetition the id of the newest row, which may
  be in flight. The answer to the first deletes that row (`duration.cpp:144`), and the second is then only in
  memory: a process that ends before its own post loses it unanswered.
* `IntervalsAdvance`: once SetOnlineTime turned the clock back, a handler's own event takes the start of
  the next interval back with it; a heart beat never does.
* `StopEndsReporter`: a config that disables, cached, a second that disables and one that enables start the reporter
  on a queue that stays stopped. Take then returns nothing for ever and the thread spins, until the
  destructor.
* `KeptIsLoaded`, `AcceptedIsKept`: a Clear cut between `record_count = 0` and
  `record_size = 0` leaves a valid file that counts nothing and holds the old
  records; later pushes are counted, and Load returns the old records instead.
* `AcceptedIsKept`: CreateCache deletes a file it could not open, with its messages.
* `InsideMapping`: after a failed Map the file is larger than its mapping, and the file
  grows by one step even for a message larger than a step; either way Push writes past the
  mapping.
* `DeadlockNeedsCutStore`: the two ways into the self-deadlock above.
* `AbortsOnlyWhenReenabled`: a config that disables and one that enables again assign
  over a joinable thread.
* `TwiceOnlyAfterMishap`: Commit failing after the store makes FlushTracker store the
  message twice.
* `BoundedFifo`: the assert of Put (`blocking_queue.h:25`) holds only until Stop or
  SetCapacity; a Put on a full queue that is stopped fails it, or with NDEBUG grows the
  queue past its capacity.
* `NoLostWakeUp` of the queue: SetCapacity wakes nobody, and Front sleeps through Stop.
* `RemovedStaysSilent` begins at the test of `active_`: a message tested before the removal still runs (section
  2.5). Posting an event again activates the removed message that the thread
  still holds.
* `CalledUnlessReplaced`: a promise keeps one callback; a second AWait drops the first.
* `PutReturns`: a queue constructed with capacity 0 is excluded.
* `TimeoutIsDue`: both times are cut to seconds, so the time-out may come up to a second, but not a whole one,
  early; and a clock set back while the login polls ends it at once.
  `LoginEnds`: a negative expires_in never ends.
* `OutcomeIsTheServers`: a response with success = false and code 0 counts as a success, and
  a chunked success may reach the coroutine as a failure (section 2.7).
* `StartsOnce`: two calls of tapsdk_init at once both pass the check, and the second
  replaces a running thread's handle: std::terminate.
* `StatisticsAgree`: until a user is set the SDK has none and the statistics have that of the last session;
  tapsdk_game_set and the window calls have no lock, so the last of two that overlap need not win; the end of a game
  is not told; and a window call before the first game throws through the C interface and is lost.
* `MessagesGoRight`: fields changed under a hash that is known go to the old configuration.

### Fairness

`dur_fair`: threads are scheduled and get the lock in the end (WF on handler
steps, the reporter, Init and the join; SF where a lock is contended), a request ends
(the HTTP client has a time-out), and one repeated for ever is accepted in the end.
Nothing is assumed of the application, and a crash is never owed. `EventsAreReported`
asks for the foreground for good because a batch of heart beats only, taken in the
background, may spin on the uninitialized `report_success`.

`trk_live`: the application is launched again after a crash, flushes and callbacks run
on, the timer repeats the check, and for each cache one of the uploads started for
ever is received and answered (SF). The last is needed for every cache: the check
prefers the cache that failed last, so one endpoint that never answers starves the
others.

`queue`: threads inside an operation run (WF), and consumers call Take again and again (SF,
since another operation may be chosen each time), as the reporter does. `timer`: time
passes, the thread runs, callbacks return, and a call that has begun ends (WF); nobody needs
to call anything. `login`: time passes, requests are answered or time out, sleeps end, and a
waiter that was woken goes on (WF); polls may fail for ever.

## 4. Proofs

All theorems hold for every value of the constants under the named assumptions of the
modules (`DurAssumption`, `TrackerAssumption`, `NoFileAssumption`, `QueueAssumption`,
`TimerAssumption`, `FutureAssumption`, `LoginAssumption`, `HttpAssumption`, `ResponsesAssumption`, `SdkAssumption`,
`DiskAssumption`), which say no more than that limits and times are numbers, the group size is positive as `Init`
makes it, an expires_in is below 2^64, actors of different kinds differ, the null values differ
from real ones, an answer has the fields that are unwrapped, and a cache file of the least size has
room for header and config and is within the limit.

**Duration** (`TypeCorrect`, `Kept`, `StoredBeforeSent`, `EndsOnce`, `InOrder`, `OnTheirWayAll`,
`AbortsReenabled`, `IntervalsOnlyAdvance`). KeptUntilAnswered is
not inductive: it needs that the reporter reaches a Delete only with a batch whose
stored events were all answered, that a heart beat has no id a Delete could act on,
that all that is queued or in flight was stored, and that events share an id only as repetitions in one session, since
no id is given out twice (`SharedRows`). `OutboxInv` adds these.
SessionEndsOnce needs `SessionInv`: a launch that ended the previous session and was cut
before its own began must find that GAME_END as the newest row, so that ending it
again merges; the invariant follows that row while its session is the latest.
`OrderInv` carries ReportedInOrder: batch, queue and the event about to be
queued, in a row, have increasing ids; until the reporter exits, every row of the running session is
among them (`OnTheirWay`); no event among them is newer than the newest row, if that row is of the session
(`NewestCovers`, which a merge relies on); and a batch the reporter is done with has no row left
(`BatchGone`). EventsAreOnTheirWay speaks of events instead of rows, since a merged one may have lost its row:
`WayInv` adds that a batch the reporter is about to forget was answered as a whole. `AbortInv`: a started reporter
that is told to stop finds the queue stopped. `IntervalInv`: until the clock is turned back, the start of the next
interval, and every time a thread is about to write over it, is behind the clock; and the session on disk is that in
memory. IntervalsOnlyAdvance assumes nothing of the server's clock.

**Disk cache** (`DiskTypeCorrect`, `StaysInMapping`, `FileReopens`, `KeptAreLoaded`,
`ImplementsRecordLog`), for any messages, sizes and limits. `HeaderInv`, `PushInv` and `MapInv` say what the
operation under way has stored up to each of its points; with them the record area stays within
`max_cache_size` and the mapping is as large as the file unless a Map failed. `GoodInv` is about files no
power loss tore: if the header has the hash, the file is valid with its config, so Open never resets
it, and between operations the disk has all of it but perhaps the last growth (`Synced`); without
the hash it has no record. Only a complete Reset leads from a torn file back to a good one.
`LaidInv` says that the record area is a row of whole records, each beginning where the last ends (`Laid`),
with every confirmed message among them, and that the header counts them all, one more between
the two stores of a Push. What Load returns is a recursive function over the rounds of its loop:
`RoundsExist` shows that the function exists, `LaidRounds` that on a row it returns the first records of the row, as many as there are
rounds. `ImplementsRecordLog` maps the file to the messages of its row: Open, the two stores of
Push and the two of Reset are steps of the log, an end of the process, a failing Init and a write past the
mapping its End, and all other steps stutter. It assumes `PowerFails = FALSE`, as the run `disk_kill` does: a power loss
may turn the content back to what the last fsync wrote, which the log does not describe.

**Tracker** (`TypeCorrect`, `OneCache`, `ClearedWasSent`, `Kept`, `NoDeadlock`, `TwiceNeedsMishap`). `FilesInv` says
that files hold flushed messages only, that caches in the map and the one being
uploaded have a file, and that what a server received of an upload is delivered.
`UseInv` is OneCachePerFile and ClearsWhatWasSent, each of which needs the other and FilesInv:
a push goes to a cache in the map or to a free index, neither of which is the one
being uploaded. `CountInv` relates the two numbers of a header: equal unless a store was
cut, and the count no smaller unless a Clear was cut; hence Load returns every record.
`KeptInv` puts an accepted message into some file; a Clear removes only what was sent,
all of which was delivered. `OnceInv`: unless one of the mishaps happened, a message is a record
of one file at most, one that was delivered only of the file whose upload was received and is to be
cleared, and the message being flushed is nowhere yet.

**Queue** (`WakesUp`, `KeepsOrder`). NoLostWakeUp needs to know who sleeps where (`WaitersOK`),
since an operation that ends must not be a sleeper's, and that Put pushes either all it has
or all there is room for (`RoomFits`). BoundedFifo needs `FifoInv`: for each producer, what was taken, is queued and is
still to be pushed, in a row, are its tasks in the order it numbered them, with none left out.

**Timer** (`WakesUp`, `Silent`). NoLostWakeUp is inductive once messages have times.
RemovedStaysSilent, from the test on, needs `CancelledOK`, that what was called off belongs to an inactive
event, and `HeldOK`, that the message in the thread's hands is not in the queue as well,
which follows from handles being given once.

**Future** (`FutureTypeCorrect`, `CallbackCalled`, `SameResult`, `NoLostNotification`). `CallInv` follows the
one thread that owes a call: a callback is called by the setter that completed the promise
or by its own AWait, never by both.

**Login** (`LoginUsesFuture`, `LoginTellsItsUsers`, `TimeoutDue`). Every step of the login is a step of its future or
leaves it alone, so the theorems of `Future` hold of it; it completes the future with one of
four results, which `Results` must include. `SameClock`: without a jump the clock still has the origin the polling
began with, so the difference of the two times, before they are cut, is the time that really passed. `Seconds`: two times
of which the later, cut, is n seconds after the earlier, cut, are more than n - 1 seconds apart; and reducing the difference
modulo 2^64 cannot make it larger.

**HTTP** (`OneUser`, `HttpTypeCorrect`, `ToldTheAnswer`). OneUserPerClient is inductive with `PoolInv`: the pool, the users and
the unused connections are disjoint. OutcomeIsTheServers needs `ToldInv`, which follows an answer
from the connection through the unwrapping, and who may have emptied the body the coroutine still has to read.

**C interface** (`Starts`, `Agrees`, `GoRight`). `InitInv` says, as long as no two starts overlapped, which
config the one under way carries and that the flags it has not passed are down; `TimerInv` that
one start at most gets past the timer, and no gate opens before it returns; `BusInv` that whoever may notify finds a bus; the session invariants tie the lock or the absence of
overlap to the argument still to be told. `ApiInv` adds that an unflushed message is not
stored.

*Induction over data.* The library's induction theorems have operator parameters that the provers
cannot instantiate. `Induct` of `DiskCache_proofs` states induction over a set of numbers instead, from the
least counterexample (`WFMin` on the natural numbers), and that suffices for Load. For the same reason
`LoadRounds` is a function of the rounds rather than of a filtered sequence, and `BoundedFifo` speaks of places in
sequences rather than of `SelectSeq`.

*Only model-checked:* liveness, which is out of the prover's reach: `EventsAreReported`, `StopEndsReporter`,
`AcceptedIsDelivered`, `PutReturns`, `MessagesLeave`, `JoinReturns`, `LoginEnds` and `CancelEnds`. Every other
property of the runs is a theorem.

## 5. Plan

1. Proofs: the step from `DiskCache` to `Tracker`, whose files are values of `CacheContent`: what
   `Tracker` does to a file between two of its steps is what `RecordLog` allows.
2. The queue of `DurationStatistics` as a use of `BlockingQueue`.
3. Pure functions against reference definitions over bounded inputs: base64, the hex
   conversion of the HMAC.

Where the repository's words and its code differ: the README describes
`tapsdk_window_on_foreground` as the call for entering the background and the reverse
(`README.md:125-128`; `platform.h:35-38` and the code agree with the names), and `base/file.h:28-33`
says that opening for ReadWrite fails when the file does not exist, while `File::Open` creates
it. The models follow the code. Other places a reader of the code should know: `Result::Success()`
(`result.h:50`) is inverted; `config_retry_times` is a local of the callback (`duration.cpp:177`), so retries of the config request are
never used up; `api::User` keeps the caller's pointer (`tapsdk_api.cpp:111`).

## 6. Not modelled

Hashes (third-party code), thread names, logging, the spin lock (unused), the SWIG
bindings (generated), vendored libraries, and the content of messages and reports. The
row-by-row effect of a batch's Delete when the process ends inside it; a heart beat's
unlocked reads of single fields; a record's stored time, which Load does not read back.

The share of all lines under `source/` that the map covers is small because `externals/`
(OpenSSL, SQLite, cinatra, JSON, Catch and others, some 900 000 lines) is vendored; of the
SDK's own files all that keep state are modelled, with the exceptions named here.
DiskCache's mode without a mapping writes the memory of an object with pointers into the file, so
there is no content to state a property of. Torn reads of single fields under the data
races of the heart beats are left out; the races that decide control flow are modelled as
interleavings.
