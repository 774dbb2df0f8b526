# wdb2ts in TLA+

wdb2ts is an Apache module that serves weather forecasts for a place or an area
from WDB, a PostgreSQL database. This directory models the parts of it in which
threads, processes, failures and gaps in the data meet, checks them with TLC on
small instances and proves the safety of all but one of them for every instance
with TLAPS.

## The system

A request arrives at `mod_metno_wdb2ts`, is dispatched by path and version to a
content handler (`webFW`), and is answered in these steps:

1. the handler asks `NoteManager` whether another list of *provider reference
   times* is to be used (which model run of each data provider), and resolves
   its provider list again if so,
2. `WdbDataRequestManager` runs the configured queries in worker threads, each
   with a connection of the `DbConnectionPool` of its database,
3. the workers decode rows into time series, which are merged and completed
   (topography, nearest land),
4. the encoder walks the series from hour to hour, taking each from the first
   model that has it, and writes moments, periods with rain and symbols, and
   meta data as XML.

A request to the *update* URL makes `LocationForecastUpdateHandler` compute a
new list of reference times and publish it as a note, which `FileLockHelper`
also writes to a file, so that it survives a restart and reaches the other
Apache processes.

| Component | State | Operations | Talks to |
|---|---|---|---|
| `pgconpool` | list of connections, in-use marks, use counts, enabled flag, condition variable | newConnection, release, disable, enable | threads; WDB (`wci.begin`) |
| `DbManager`, `Wdb2TsApp` | table of pools, height map and its loading flag, WCI protocol | init, newWciConnection, getHight, onShutdown | pool, map loader thread, handlers |
| `webFW` registry | handlers by path and version, defaults | find, add, setDefault | request threads |
| `webFW` requests | thread-specific data, abort handlers by id | dispatch, doGet, register and remove abort handlers, checkAboretedConnections | Apache's threads, the checking thread |
| `NoteManager` | notes with versions, persistent notes, listeners | checkForUpdatedNotes, setNote, getNote, register | files, handlers (callbacks) |
| `FileLockHelper` | a file, a mutex, a file lock | write, read | other processes |
| `LocationForecastUpdateHandler`, reference times | its mutex; run, version, status and time of each model | get, updateProviderRefTimes | note manager, WDB |
| `LocationForecastHandler2` and siblings | `providerReftimes`, provider list, parameter list, query maker, their flags | noteUpdated, extraConfigure, getProviderReftimes, getProtectedData, get | note manager, request manager, encoder |
| `WdbDataRequest(Manager/Command)` | request list, cursors, running threads, ready queue | requestData, runRequests, startThreads, waitForCompleted, mergeData; the worker | pool, workers through `queuemt` |
| point data (`LocationData`, `LocationElem`) | time series, iterators, the model last used | init, next, hasNext, the getters | encoders |
| encoder 4 | symbol buffer, break times, pending moment | encode, encodeMoment, encodePeriods | point data |
| symbols, projections, nearest land, configuration | per request or once | pure computation | |

What is hard here: a condition variable used without a predicate loop; a pool
that is disabled while threads wait in it; callbacks made outside the mutex
that decided on them; the same note written under two different locks; a file
that is emptied before it is locked; a manager that waits without a timeout for
workers, some of which it abandons; handler state replaced while requests have
copies of it, or use it without one; thread-specific data and pointers that must not outlive their
request; a walk that starts over in the middle of a series; periods and their
borders; an update that asks the database several times while it changes.
`PROJECT.json` lists these hazards, each at its line.

## The modules

| Module | Models |
|---|---|
| `LeasePool` | what any pool promises: exclusive leases within a capacity, none granted while closed, an answer to everybody who asks |
| `DbConnectionPool` | `pgconpool`, with the sizes as `DbManager` passes them on |
| `WebApp`, `MCWebApp` | an Apache child: the application, the registry of handlers, the life of requests, the abort checker and the map loader |
| `NoteManager`, `MCNoteManager` | the persistent note of reference times in several processes, with forecast and update requests |
| `FileLockHelper` | `FileLockHelper::write` and `read` between threads and processes |
| `UpdateProviderReftimes`, `MCUpdateProviderReftimes` | what an update request makes of the list of reference times |
| `LocationForecastHandler2`, `MCLocationForecastHandler2` | the state the threads of a forecast handler share |
| `WdbDataRequest`, `MCWdbDataRequest` | `WdbDataRequestManager`, its workers and their queue |
| `EncodeLocationForecast4`, `MCEncodeLocationForecast4` | the walk of the XML encoder 4 over a time series |
| `LocationElem`, `MCLocationElem` | the rain of a period |
| `DbConnectionPoolProofs`, `WebAppProofs`, `NoteManagerProofs`, `FileLockHelperProofs`, `UpdateProviderReftimesProofs`, `LocationForecastHandler2Proofs`, `WdbDataRequestProofs`, `EncodeLocationForecast4Proofs` | the theorems about the module of that name |

The modules meet at their borders. A request is `WebApp`'s between `dispatch`
and `flush`, and inside `get` it is `LocationForecastHandler2`'s; that one asks
with what `NoteManager` has made of the note that `UpdateProviderReftimes`
computes; its request to the database is `WdbDataRequest`'s, whose connections
are `DbConnectionPool`'s, and what it returns is the series that
`EncodeLocationForecast4` walks and `LocationElem` adds up. Each takes what its
neighbours may do as a choice: a connection is granted or refused at any time,
a list of models is any generation, a series has any gaps.

### DbConnectionPool

Every member function runs in the pool's mutex from its first line and is one
action. `newConnection` gives the mutex up in `cond.timed_wait` and is split
there: `newConnection` (up to the wait), `WaitTimedOut`, `SpuriousWakeup` and
`AfterWait`. A notification moves a thread from *waiting* to *woken*; until it
is back in the mutex anybody may overtake it. `release` is what the destructor
of the last handle does, including the replacement of a used-up connection.
`leaked` holds sessions that `createConnection` opens and loses when
`onCreateConnection` throws. Connections are a set: the order of the list only
decides which idle one is taken. `inUse` and the handles are kept apart, so that
their agreement (`ExclusiveHandles`) is a claim and not a definition.

### WebApp

An Apache child from `child_init` on. `init` reads the configuration into the
registry (`configureRequestsHandlers`) and starts the map loader; then threads
take requests. `dispatch` finds the handler (`findRequestHandlerPathImpl`: from
the longest suffix of the path to the shortest, a version or the default) and
puts the thread's data in place; `get` may register and remove abort handlers,
ask for a height (which is unavailable while the map is loading) and for a
connection (the first one creates the database manager); `cleanupThreadData`
runs on every exit, and the answer is the HTTP status the Apache handler makes
of the response's. In between the client may go away, the checking thread
removes the handlers of requests that were aborted, the loader ends with or
without a map, and the child is shut down. Each of these is one hold of a mutex.
The registry is filled in one step, because `child_init` runs before any thread
does; nothing in the application changes it afterwards, so removals are left
out. `deleted` counts how often an
abort handler is deleted and `dangling` the thread data nobody has any more.

### NoteManager

A list of reference times is a number; each list made gets a new one. A process
has one note, each of its handlers a `helper` (the note its `NoteHelper` has
seen) and `reftimes` (what it uses). `checkForUpdatedNotes` loads, compares
versions and decides on a callback in the mutex; `callListeners` and
`noteUpdated` run outside it, as separate steps. `setNote` is two steps because
the file is empty in between. An update request is read, compute, save under
the update handler's mutex; a forecast handler that has no list makes one and
saves it without that mutex. The file may be there at the start or not, and
reading and writing it may fail. `saving` says who is inside `setNote`, and a
helper's `loaded` whether the note had been loaded when it saw it; only
properties read these.

### FileLockHelper

One step for each call of the operating system, because other processes can
run in between; threads of one process are kept apart by the object's mutex.
The file lock is advisory. Opening for writing empties the file at once. A
failure may happen at every call that is tested for one, and a process may die
inside a call, which drops its locks. `last`, `broken` and `quiet` are history
variables that only properties read.

### UpdateProviderReftimes

The list maps a model, a provider and a placename, to the run it serves, the
time it has done so from, its status and its version. Update requests run one
at a time; each resolves the priority list anew
(`providerPrioritySetPlacename`), which leaves out a provider whose look-up fails
or gives nothing and is empty without a connection; then it queries the database once for every provider of the priority
list (`existingProviders`) and once for every key that needs it
(`updateProviderRefTimes`), and between any two queries runs arrive (`NewRun`)
or are deleted (`DeleteRun`). An empty priority list goes on as if all were well,
and empties the note. `browse` is what `wci.browse` answers: the latest
of the runs asked for of each grid of a provider. `statusUpdated`, `StopsThere`,
`entryOf` and `updatedList` are the body of the loop; `setNote` filters by the
models that exist, publishes and answers. A failed query ends the request
without a change (`dbError`), as *no data* if it was one of the loop's; a missing
note with the priority list is counted as one. Providers are configured without
placenames here. The decoding of the query is left out: a request is a sequence of the records that
`decodeQueryValue` makes. Reference times are numbers; *recent* is the window
of 48 hours.

### LocationForecastHandler2

The members that all threads of a handler share (`handler`), the generation of
the models in the database (`db`), the note, the version the handler's
`NoteHelper` has seen (`seen`), and where each thread is in `get`, with the
copies it has taken. What a thread does in one hold of
the handler's mutex is one action (`noteUpdated`, `extraConfigure`,
`getProviderReftimes`, `getProtectedData`); what it does outside reads the
members as they are by then. A provider list and the provider groups of a
parameter list are represented by the generation of models they were resolved
against, a query maker by the protocol it speaks; look-ups may fail, and the
list then counts as resolved. Shared pointers that are replaced are copies from
then on, which is what the properties are about.

Two pointers are used outside the mutex: the list of reference times while it is
copied for the caller (`useReftimes`, `copyReftimes`) and the query maker, which
is not copied at all (`requestWdbSpecific`, `getWdbReadQuerys`). A thread that
resets one of them meanwhile puts its users into `raced` (`StepUnder`). For these
anything may happen: they go on with the old or the new object, or the process
dies (`crash`). The projection is used outside the mutex, too; it is not part of
the model.

### WdbDataRequest

The manager's control is `manager`, with one action for each turn of
`startThreads`' loop, each branch of `runRequests` and each id popped in
`waitForCompleted`. A worker performs, validates, releases its connection and
pushes its id. `newWciConnection` grants, refuses (`DbConnectionPoolMaxUseEx`,
`DbConnectionPoolCreateEx`) or fails, at any time: what it does is the subject
of `DbConnectionPool`. Time is counted as the age of the wait, up to one
second more than the limit, which is all that is compared. Data are, for each
location, the times there are and whether they have values, with time 0 for
constant fields; `Decode` puts everything to one location unless the request is
for a polygon, and `MergeInto` keeps the iterator that `mergeData` looks up too
early. `toManyThreads`, which no constructor sets, starts with either value. A
worker in the endless loop of `validatePrognosisLength` has no next step.

### EncodeLocationForecast4

The input is chosen at the start: the models in order of priority, the values
each has for each hour (`Values`), which topography there is and what the client
asked for. The values are those that decide something: temperature, temperature
over land and the one not to be corrected for height, wind, clouds, percentiles
and the rain of the symbol's hours. `NN`, the clouds, stands for the other
values as well that count as data of a moment (pressure, humidity, fog and so
on), and rain is one value for the whole period.

`makeLocationData` cleans the series up (`cleanup`); `computeHeight` finds a
height or a topography; `encodeMoment` is one turn of the encoder's loop: the next
dataset, what `MomentTags1` takes from which model (`getValue`, `TA`,
`momentProvider`, `symbolData`), the restart when the model changes
(`changesProvider`, `restart`), else the pending moment (`deliver`), the symbol
buffer (`collect`, `encodePeriods`) and the break times (`updateBreakTimes`).
A getter that "tries hard" leaves the element with the model it has found a value
in, or with none; `MomentTags1` puts the model back each time, and `momentProvider`
is the one it ends with. The buffer keeps the models of the temperature and of the
clouds of an hour, which may differ. `encodeLast`, the percentiles and the meta
data (`compactBreakTimes`, one entry after the other: `Shortened`) follow.
`compactBreakTimes` erases a run of more than two through iterators that are no
longer valid: there the model may also crash (`erasesTwice`).

Left out: the provider a client asks for (`MomentTags1.cpp:193-199`), and what the
symbol library makes of averages that are not valid. Version 3 is not modelled:
its `MomentTags.cpp` does not put the model back after its getters, and its
symbols come from a table made for each model beforehand.

### LocationElem

For each dataset in turn and each length of period `encodePeriods` asks for the
rain, through `PRECIP_MIN_MAX_MEAN`, `PRECIP_MEAN`, `PRECIP_1H` and `PRECIP_N`
in the order of the code (`PRECIP_DATA`). Amounts are integers, 200 for 0.1 mm,
so that the weights `a[]` of the estimate, hundredths that are halved, stay
exact; values are clipped as in the code. `forecastProvider`, which getters
change, is state: the answer to one question depends on those before.

## What the runs check

| Run | Bounds | Shows |
|---|---|---|
| `pool` | 4 threads, 2 pooled connections of 3 sessions, 2 uses each | safety invariants, liveness and refinement of `LeasePool` |
| `webapp` | 2 threads, 2 abort handlers, 1 path with 4 configured versions, 5 URLs | thread data and abort handlers belong to live requests |
| `notes` | 1 process, 1 handler, 2 forecast and 2 update requests, 3 saves, with and without a file, failing reads and writes | versions name notes, no update replaces what another has read, handlers catch up |
| `file_calls` | 2 processes, 3 threads, 2 contents | last write survives, exclusion, calls end |
| `reftimes` | 3 models of 2 providers, 2 runs, 2 versions, 3 update requests of 9 kinds and the debug query, 2 changes of the database, priority lists that come back shorter | status, time and run of a model change as requests say |
| `handler` | 2 threads, 2 generations of models, 2 notes | requests have what they dereference, updates take effect, only notes bring races about |
| `request` | 3 queries, 2 workers, 3 answers, one point or a polygon, no waiting time | workers and queue agree, joining, stopping, merging; requests end, connections come back |
| `encode` | 5 hours, 1 to 3 models, a start at the fourth hour, 2 hours of symbol data, 2 restarts | symbols, moments, meta data and NoData agree with the series |
| `precipitation` | 4 hours, periods of 1 to 4 hours, estimates up to 3 | periods add up, estimates are in order |
| `notes_overtaking`, `notes_late_load`, `request_hang` | smallest that show it | what a comment or document says and the code does not do |

Bounds. In the pool three threads are needed for one to hold, one to wait and
one to overtake, a fourth for two waiters; three sessions leave one for a
replacement while two are pooled, and two uses make a connection both return
and be used up. `CfgMinPoolSize = 2 > CfgMaxPoolSize = 1` exercises the exchange
of the sizes. In `webapp` two threads race for the registry, the abort map and
the first connection, and two ids let one handler go while another stays. Two
saves are enough to overtake, three to overtake and catch up, or for two updates
and a forecast handler's own save to meet; one process is enough because no
process reads what another has written once it has loaded the note. Three update
requests are a first list, a change of status and what follows it; two changes
of the database let a run arrive and another go between two queries. In
`handler` one thread brings a note while the other is anywhere in its request;
two generations tell old from new. Three queries are the least for one worker
to end while another runs and a third has to wait. The waiting limit is 0 or 1
second instead of 10: only whether it has passed is ever asked. Five hours have
room for a model that ends, one that takes over and one that comes back, with
the hours before the start that symbols need, of which the first dataset is
skipped; with four hours the walk that goes from the second model to the first
and back, which needs a dataset without temperature, does not fit. Two restarts
stand for the ten after which the encoder no longer follows a change. Three models
and two grids of one meet with whole datasets only, two models with every kind of
dataset in turn, and one model with all requests. Periods of up to four hours
with estimates up to three have the routines take over from each other as six
and twelve hours do. Symmetry is used only in `handler`, which checks
invariants.

Fairness. In the pool, timed waits end, woken threads get the mutex and whoever
has a connection gives it back; nothing is assumed about new requests, disable
or spurious wakeups. The runs of the notes assume that requests under way proceed and
that every handler is asked again and again, strongly because they compete for
a mutex. `file_calls` assumes that the system grants a lock that is free again
and again; `CallsReturn` is conditional on the readers leaving a gap, because a
POSIX lock gives writers no precedence. Requests assume that threads run and
that time passes; not that the pool ever grants a connection, nor that an
abandoned worker is waited for.

Deadlock is checked in the passing runs of the pool, the application, the
notes, the file, the handler and the requests; a request that has ended
stutters (`Over`). It is not in `encode` and `precipitation`, where a series
ends, nor in `reftimes`, where the update requests do; nor in `request_hang`,
where the worker stays in its loop.

Some properties hold under a condition that the code shows to be needed.
`MetaCoversMoments` and `MomentsInOrder` are for at most two models of one grid
each (`FewModels`), the latter of whole datasets only (`InOrder`); `NoDataIsTrue`
and `SymbolsFromTheFirst` are for series of whole datasets: with temperature and
clouds, and without a temperature over land, for which the walk leaves the model
it follows (`WholeDatasets`). `SymbolsFromOneModel` holds for any series, but
allows clouds of another model where the model has none, as the code takes them.
`PartsFitTheWhole` is for one model (`tryHard` off) and for the parts and the whole
answered by routines of the same kind. `ServedSince` leaves out requests with a
placename for the provider's other grids and those in which two keys name the
model. `RequestTakesEffect` is for requests during which the database does not
change, and names its exception, outdated grids. `HandlersCatchUp` is for
behaviours without overtaking callbacks (`Serial`) and without a late load
(`LoadedFirst`); that handlers follow the note without these conditions (`HandlersFollow`) is refuted
by two runs. `NoLostUpdate` and `VersionNamesNote` name what they except. What
happens outside these conditions is in the list below.

### Disagreements found

Three runs are expected to fail, each on one property that quotes the repository;
`PROJECT.json` has the findings. In short:

- a location with constant fields only makes `validatePrognosisLength` loop for
  ever, and its request with it (`request_hang`);
- callbacks outside the mutex can deliver notes in the wrong order for good
  (`notes_overtaking`);
- a note is not marked as loaded when it is set, so the next check loads it back
  from its own file with version 0: a handler that has seen the empty note of
  version 0 is never told of the first update of a fresh installation
  (`notes_late_load`).

Met while modelling, most of them visible in the models, and without a run of
their own:

*Pool, application and requests to it*

- `DbConnectionPoolMaxUseEx` ("Max connection in use!") is also thrown when
  connecting failed or a woken thread was overtaken;
- `App::isShutdown_` is never set; a shutdown before the first connection
  disables nothing, and a later request creates an enabled pool;
- `getHight` documents a `logic_error` for a map that cannot be read and returns
  `INT_MIN`;
- `wciProtocol` takes WCI 0.9.0 and 0.9.1 for protocol 6 and 0.9.2 for 3, where
  its comment knows of 1 and 2;
- `configureRequestsHandlers` ignores the result of `doConfigure`;
  `setDefaultRequestHandler` looks a handler up and takes the lock again to set
  it; a version followed by a slash is not read as one.

*Notes, file and reference times*

- a process reads a persistent note once and never sees another process's
  update (`isLoaded`); `NoteManager.h` says the check "also reads the persistent
  loads saved to disk";
- a forecast handler that initialises its own list sets the note without the
  update handler's mutex, so an update that is under way is lost, or loses that
  list (`NoLostUpdate` excepts it);
- `FileLockHelper::write` empties the file before it locks it
  (`FileLockHelper.cpp:300`), so a reader of another process may find it empty;
- an update of one grid (`A [p1]=enable`) is looked up by provider, and the
  provider's other grids are written as if they were new: with the status of
  the request, without a version and with a new time
  (`UpdateProviderReftimes.cpp:186`);
- a request with a key for a provider and one for a grid of it
  (`A=1&A [p1]=2`) takes the grid to run 1 and back to run 2: the note then says
  that run 2 has been served from now on although it was served before (met when
  the proof of `ServedSince` failed; `NamedOnce` is its condition since);
- an update to a new run forgets a version that was asked for earlier; a version
  request marks all grids of a provider, those without that version too;
- a grid whose data are all older than 48 hours leaves the list when another
  grid of its provider has newer ones, even if the request asked for its run
  (`UpdateProviderReftimes.cpp:238-244`); a disabled model that leaves the list
  comes back enabled if the key that brings it does not say otherwise;
- a priority list that cannot be looked up counts as an empty one, and updating
  with an empty one succeeds and empties the note
  (`UpdateProviderReftimes.cpp:220`);
- a listed run that was deleted stays
  listed while its model has others, because models are compared by name;
- a value with time and version is handed to `ptimeFromIsoString` whole;
- a failed query in the update proper is answered as *no data*.

*Forecast handler*

- `wciProtocol` is read by `noteUpdated` before anything has set it
  (`LocationForecastHandler2.cpp:304`). It resets the query maker while another
  thread may be inside it: `requestWdbSpecific` follows the pointer without the
  mutex or a copy (790), and `getProviderReftimes` copies its list after the mutex
  is released (376). In a handler with an `updateid` the process may die of it;
  `RacesNeedNotes` says that it is the notes alone that bring it about. The
  projection is used outside the mutex, too; `paramDefListRresolveProviderGroups` writes into a
  list that requests share;
- the provider list counts as resolved although the look-up failed, and
  `configureWdbProjection` reports success when loading did not succeed;
- the reference times and the provider list of one request may be of different
  generations.

*Request manager*

- the ten seconds for a connection run from the first refusal of a request,
  also when connections were granted since (`WdbDataRequest.cpp:343`);
- a `must_have_data` query without a reference time does not empty the result,
  as the manual says it should (`WdbDataRequest.cpp:111`);
- `validate` compares the prognosis length before it removes times without
  values;
- of a point of a polygon that is new to the result, `mergeData` keeps the last
  element only (`NothingLost` asks for all times of a single point, and of a
  polygon for its points).

*Encoder and rain*

- when the model changes in the hours before `from` that are read for the
  symbols only, those hours are delivered
  (`EncodeLocationForecast4.cpp:434`; "we shall not deliver the data between
  'dataFrom' to 'from'", 376-381);
- with three models, or two grids of one, a second change may deliver hours
  twice or out of order, and the meta data no longer cover them;
- two models deliver hours twice, too, if a dataset lacks its temperature or has
  one over land: the encoder may then start with the second, change to the first and, in an hour
  for which that has none, back (met when the proof of `MomentsInOrder` failed;
  whole datasets are its condition since);
- clouds are taken from another model where the model in use has none, although
  the comment says "We must get the cloud data from the same provider (model)."
  (`MomentTags1.cpp:279`); the moment is credited to the model of the temperature;
- version 3 loses the model in use at the first getter that looks in all models
  (`MomentTags.cpp:121`), and nothing restores it;
- after a change the walk returns to no model of higher priority than the new
  one's first grid; the first dataset is always skipped;
- `compactBreakTimes` advances an iterator past an erased element, and does not
  compact the last run; with no model topography `modeltopography` dereferences
  the end of the map;
- where the mean has the time of the hour itself, missing hours count as dry;
  `PRECIP_1H` may mix models, and a failed look-up in all models leaves none;
  `PRECIP_MIN_MAX_MEAN` adds negative means that `PRECIP_MEAN` clips; a series
  finer than hourly would index the weights beyond their end.

## What is proved

Each theorem holds for every value of the constants that satisfies the named
assumption of its module. The assumptions say what the constants are (numbers,
sets of records, sequences, a `None` that is nothing else) and no more; TLC
evaluates them in every run. Proofs are by an inductive invariant `IInv`, with
one lemma for each action or group of actions, put together in a lemma
`Invariance`.

| Module | Theorems (the run's property in brackets) |
|---|---|
| `DbConnectionPoolProofs` | `TypeCorrect` (`TypeOK`), `CapacityRespected` (`WithinCapacity`), `HandlesExclusive` (`ExclusiveHandles`), `DisabledIsDrained` (`DrainedWhenDisabled`), `WakeupsNotLost` (`NoLostWakeup`), `UsesBounded` (`UsesAreCounted`), `PoolImplementsLeases` |
| `FileLockHelperProofs` | `TypeCorrect` (`TypeOK`), `Exclusion` (`LockExcludes`), `LastWriteKept` (`LastWriteSurvives`) |
| `NoteManagerProofs` | `TypeCorrect` (`TypeOK`), `VersionsName` (`VersionNamesNote`), `NoUpdateIsLost` (`NoLostUpdate`) |
| `WdbDataRequestProofs` | `TypeCorrect` (`TypeOK`), `QueueIsRunning` (`QueueMatchesRunning`), `NobodyLeftBehind` (`WorkersJoined`), `StopIsObeyed` (`StopMeansStop`), `MergeLosesNothing` (`NothingLost`) |
| `LocationForecastHandler2Proofs` | `TypeCorrect` (`TypeOK`), `RacesOnlyWithNotes` (`RacesNeedNotes`), `ListIsThere` (`RequestHasReftimes`), `NoteIsServed` (`UpdateTakesEffect`) |
| `WebAppProofs` | `DataIsOwn` (`ThreadDataIsOwn`), `AbortHandlersLive` (`AbortHandlersOfLiveRequests`) |
| `EncodeLocationForecast4Proofs` | `SymbolsOfOneModel` (`SymbolsFromOneModel`), `HoursInOrder` (`MomentsInOrder`), `FirstHaveSymbols` (`SymbolsFromTheFirst`), `NothingKeptBack` (`NoDataIsTrue`), `TypeCorrect` (`TypeOK`), `MetaNamesModels` (`MetaCoversMoments`) |
| `UpdateProviderReftimesProofs` | `StatusIsKept` (`StatusOnlyOnRequest`), `TimeIsKept` (`ServedSince`), `KeysTakeEffect` (`RequestTakesEffect`) |

**Pool.** `IInv` is the conjunction of the six invariants. None but the
capacity is inductive alone. Use counts never go below zero because an idle
connection has a use left; that a connection is put back only with a use left
needs the counts of those in use to be in their range, and that idle and used
connections are told apart needs `ExclusiveHandles`. A thread that takes a
connection after its wait does not look at `isEnabled`; that it gets nothing
from a disabled pool is `DrainedWhenDisabled`. `NoLostWakeup` is an argument by
counting: each idle connection was put there by a release that woke somebody,
and a woken thread that leaves takes one with it or found none. The refinement
of `LeasePool` has `handle` as the leases and the waiting and woken threads as
those who ask; it uses `ExclusiveHandles` (a connection that is taken is leased
to nobody) and `WithinCapacity`.

**File.** `LocksHeld` says who has the advisory lock at each point of a call;
with the mutex of `TypeOK` it gives `Exclusion`. An empty file is one that a
thread inside `write` is about to fill, or that a failed write has left
(`EmptyIsPending`): a writer that has opened the file is still counted when it
waits for the lock, which is why emptying it outside the lock loses nothing.
`QuietSoFar` carries what a read has got from one system call to the next.

**Notes.** A version counts the calls of `setNote` that have ended, so it stays
below those that are begun (`VersionsCounted`, by cardinality). `VersionsName` is
by `Lag`: what a helper has seen since the load of the note, or without one, is
the note of its process or has a smaller version. `NoUpdateIsLost` is by `Owners`:
an update under way has the mutex of the update handler of its process, and
`saving` names who is inside `setNote`, so that whoever replaces the note is that
update, a forecast handler with its own save, or the load. There is no hypothesis
on the file, on failures or on the number of requests.

**Requests to the database.** `Reports` is the heart: the workers waited for are
those that have yet to push their id and those whose id is in the queue, each
once. `Quiet` says that nobody runs where the manager merges, decides or
returns other than with ResourceLimit, `Stops` that a `stopIfData` request is
through, without data, wherever the manager may go on to start another.
`MergeLosesNothing` is by induction over the list of requests.

**Forecast handler.** `IInv` is a predicate on the handler (`HandlerOK`) and one
on each thread (`ThreadOK`): what it points at was made, it has a list of
reference times where it uses one, and what it has copied is as new as the note
it brought. The last needs that the handler is resolved again before anybody
copies, although another thread may have configured it in between. `RaceInv` is
on top of it: a note on its way to the handler is one its helper has seen, and
`extraConfigure` and `getProviderReftimes`, which also reset pointers, do so only
where `IInv` says that nobody has got far enough to use them.

**Application.** The registry has handlers only (`RegistryOK`) after any
configuration, by two inductions, over the versions of a request and over the
requests. `Registrations` ties an entry of the abort map to the list of its
request, and counts the deletions of every id, which is why the request and the
checking thread never delete one handler twice.

**Reference times.** The three are action properties: `OnlySetNote` says which
step may change the list, `IInv` what the list under way has become by then. By
the keys that are done it relates, for each model, the status (`StatusOK`), the run
and its time (`ModelOK`) to those in the note, and the runs to the database
(`Listed`), until a later key is about the same provider. `Looked` says which
models count as existing; with the order of the two look-ups, recent runs first,
that makes an outdated grid the only one that is filtered away although it was
found. `KeyDone` states what one key does to a list, `StatusIs`, `EntryOfIs` and
`UpdatedListIs` what the operators do that it is made of.

**Encoder.** `TurnIs` sums a turn of the loop up: it skips an hour, starts over
or collects. `BufferOfOne` says that the data in the buffer are of the
model the walk has last changed to (`PureData`: but for temperatures not to be
corrected and clouds the model does not have), which is all that
`SymbolsOfOneModel` needs. For the order,
`Ahead` says that what is written is before the next dataset, or before the hour
of the change, and `Locked` why there is only one change: the walk starts with
the second model only if the first has nothing from there on, and once it has
changed to the second it falls back on no other. `Filled` (the buffer has every
hour of the model in use since the first a symbol may need) gives the symbols of
the first hours; the theorem has the hypothesis that a symbol spans an hour at
least, because `slice` of a single hour is empty. `Counted` says that something
has been written, is pending, or is still to come on the way of the walk
(`Coming`): after a restart that is the hour of the change itself.

`MetaNamesModels` needs that an entry, once it names the model of a moment, never
shrinks. `updateBreakTimes` sets the end of the last entry to whatever hour comes
next with its model, so an hour before that end would uncover moments.
`LastStands` says why there is none: the next hour that counts is not before that
end (`Forward`), or it is of another model. The walk goes back twice at most: from
the second model to the first and, while the buffer is filled again, in an hour
before that change to the second for good (`AtTheSecond`). Hours are then written
again, but by the second model, after an entry of the first, and a new entry
begins. At the end an entry is kept, or its run is put together under its first
(`CompactKeeps`): a run has one entry (`RunIsOne`), because neighbours are of
different models (`Chained`) and two models have different names. `ShortenedHas` is
the induction over the list. `TypeCorrect` holds without any of this, for any list
of models.

Inductions over numbers are made in the form of a set that has 0 and the
successor of each of its members (`NumberInduction`, `Induction`), from the
library's theorem that a non-empty set of numbers has a least element, because
the provers cannot apply a theorem that takes an operator.

Only model-checked: the liveness properties (`DisabledPoolDrains`,
`HandlersCatchUp`, `CallsReturn`, `RequestReturns`, `ConnectionsComeBack`) and
`ImplementsLeasePool` with its fairness, which are out of the prover's reach,
and the two invariants of `LocationElem`, `PartsFitTheWhole` and
`EstimateIsOrdered`. These are computations rather than invariants: folds over
the datasets of a period, a sort and weighed sums, whose values for every input
would need induction over data; and they hold for series whose hourly values
are consistent, as those of the run are, not for any numbers.

## What is not modelled

The tables that make symbols, projections, nearest land and height (floating
point geometry), the text of the answers, the older XML encoders, the GML and
CSV encoders (which do not go back for symbols), the
configuration and database setup parsers, the tuple container and string
helpers, logging, profiling and the command line tools. Most of the
repository's lines are in these, in vendored code and in tests; they hold
neither shared state nor control that a model checker would add anything to.

Of the modelled parts: the destructor of the pool, the table of pools by
database id, notes that are not persistent, registration and removal of
listeners, the `fcntl` variant of `FileLockHelper`, failure to allocate memory,
the text of queries, the decoding of the update query, the WCI protocol number,
requests for one provider of the client's choice in the encoder, the rounding
to 0.0001 and the probability of rain.

## Plan

Done, in order of importance: the pool with its abstract specification and
proofs; notes; the file; the request manager; the application with its registry
and the life of requests; the forecast handler; the encoder's walk; the rain of
a period; the update of the reference times; the proofs of all modules but that
of the rain. Left:

1. A composition of `WdbDataRequest` with `LeasePool`: several requests that
   share a pool.
2. The state machine of `ConfigParser`.
