---------------------------- MODULE WdbDataRequest ----------------------------
(***************************************************************************)
(* WdbDataRequestManager: the queries of one forecast request, run in      *)
(* worker threads. The manager takes a connection for each worker, starts  *)
(* it, waits for the workers on a queue (queuemt) in which each puts its   *)
(* id when it is through, and merges what they have read.                  *)
(*                                                                         *)
(* A worker's id is the place of its query in threadInfos: nextThreadId    *)
(* and nextToStart advance together. The pool is seen from here as         *)
(* newWciConnection, which hands out a connection, refuses or fails.       *)
(*                                                                         *)
(* What a query reads is, per location, a time series: a function from     *)
(* times to whether there is a value. Time 0 is constFieldTime, of the     *)
(* fields that do not vary in time; it is the first of all times.          *)
(***************************************************************************)
EXTENDS Integers, Sequences, FiniteSets, SequencesExt

CONSTANTS
  Queries,       \* what a <query> element may be configured as
  MaxQueries,    \* bound: queries of one request
  Requests,      \* what isPolygon may be
  Answers,       \* what the database may answer
  nParalell,     \* workers at the same time, 0: no limit
  WaitSeconds,   \* WAIT_SECONDS
  MayFail        \* queries, connections and threads may fail

ASSUME RequestAssumption ==
  /\ Queries \subseteq [mustHaveData : BOOLEAN, stopIfData : BOOLEAN, minEnd : Nat]
  /\ MaxQueries \in Nat
  /\ Requests \subseteq BOOLEAN
  /\ nParalell \in Nat
  /\ WaitSeconds \in Nat
  /\ MayFail \in BOOLEAN
  /\ \A a \in Answers : a = [loc \in DOMAIN a |-> a[loc]] /\ DOMAIN a \subseteq Nat

VARIABLES
  isPolygon,     \* a request for the points of a polygon, not for one point
  urlQuerys,     \* the configured queries, until threadInfos is made
  threadInfos,   \* the queries to run
  nextToStart, lastStarted, waitingForDbConnection, toManyThreads,
  runningThreads,
  completed,     \* the requests whose worker has been joined
  readyQueue,
  worker,        \* where each worker is
  data, ok,      \* what each has read, and whether that went well
  holding,       \* the requests that have a connection
  manager,       \* where the manager is
  waitAge,       \* seconds since waitUntil was set, or -1
  result         \* what requestData returned, or how it ended

queue == <<readyQueue, runningThreads, completed>>
reads == <<worker, data, ok>>
inputs == <<isPolygon, urlQuerys, threadInfos>>
cursor == <<nextToStart, lastStarted, waitingForDbConnection, toManyThreads>>
vars == <<inputs, cursor, queue, reads, holding, manager, waitAge, result>>

NoData == <<>>
NRequests == Len(threadInfos)
Ids == 1..NRequests
Unread == [w \in 1..MaxQueries |-> NoData]

\* Any configuration. toManyThreads is not initialised by the constructor.
Init ==
  /\ isPolygon \in Requests
  /\ urlQuerys \in BoundedSeq(Queries, MaxQueries)
  /\ threadInfos = <<>>
  /\ nextToStart = 1
  /\ lastStarted = 0
  /\ waitingForDbConnection = FALSE
  /\ toManyThreads \in BOOLEAN
  /\ runningThreads = {}
  /\ completed = {}
  /\ readyQueue = <<>>
  /\ worker = [w \in 1..MaxQueries |-> "none"]
  /\ data = Unread
  /\ ok = [w \in 1..MaxQueries |-> TRUE]
  /\ holding = {}
  /\ manager = [pc |-> "populate"]
  /\ waitAge = -1
  /\ result = [how |-> "none", data |-> NoData]

At(pc) == manager.pc = pc
Goto(pc) == manager' = [pc |-> pc]

\* The request ends: the commands no worker holds are deleted.
Ends(how, value) ==
  /\ Goto("returned")
  /\ result' = [how |-> how, data |-> value]
  /\ holding' = {w \in holding : worker[w] # "none"}

\* waitForCompleted( atLeast ), and where the manager goes on after it.
WaitForCompleted(atLeast, then) ==
  manager' = [pc |-> "join", atLeast |-> atLeast, n |-> 0, then |-> then]

\* A query that has no reference time (NoReftime) is left out; place[w] is
\* where the w-th of the others was configured.
populateThreadInfos ==
  /\ At("populate")
  /\ \/ /\ urlQuerys = <<>>
        /\ Ends("error", NoData)
        /\ UNCHANGED threadInfos
     \/ /\ urlQuerys # <<>>
        /\ \E n \in 0..Len(urlQuerys) : \E place \in [1..n -> DOMAIN urlQuerys] :
             /\ \A v, w \in 1..n : v < w => place[v] < place[w]
             /\ threadInfos' = [w \in 1..n |-> urlQuerys[place[w]]]
        /\ Goto("loop")
        /\ UNCHANGED <<holding, result>>
  /\ urlQuerys' = <<>>
  /\ UNCHANGED <<isPolygon, cursor, queue, reads, waitAge>>

----------------------------------------------------------------------------
(* startThreads: one turn of its loop                                      *)

MaxRunning == nParalell > 0 /\ Cardinality(runningThreads) >= nParalell

StartTooMany ==
  /\ At("start")
  /\ MaxRunning
  /\ toManyThreads' = TRUE
  /\ Goto("started")
  /\ UNCHANGED <<inputs, nextToStart, lastStarted, waitingForDbConnection, queue,
                 reads, holding, waitAge, result>>

\* newWciConnection and setConnection for the next request.
TakeConnection ==
  /\ At("start")
  /\ ~MaxRunning
  /\ holding' = holding \cup {nextToStart}
  /\ waitingForDbConnection' = FALSE
  /\ toManyThreads' = FALSE

\* Is startThreads through when request w has been started? Mutant: it goes
\* on after a request that may be the last one.
StartsMoreAlways(w) == w < NRequests
StartsMore(w) == w < NRequests /\ ~threadInfos[w].stopIfData

StartThread ==
  /\ TakeConnection
  /\ worker' = [worker EXCEPT ![nextToStart] = "run"]
  /\ runningThreads' = runningThreads \cup {nextToStart}
  /\ lastStarted' = nextToStart
  /\ nextToStart' = nextToStart + 1
  /\ Goto(IF StartsMore(nextToStart) THEN "start" ELSE "started")
  /\ UNCHANGED <<inputs, readyQueue, completed, data, ok, waitAge, result>>

\* The thread cannot be created: logic_error, the connection stays with the
\* command.
StartThreadFails ==
  /\ MayFail
  /\ TakeConnection
  /\ WaitForCompleted(0, "failed")
  /\ UNCHANGED <<inputs, nextToStart, lastStarted, queue, reads, waitAge, result>>

\* DbConnectionPoolMaxUseEx and DbConnectionPoolCreateEx.
ConnectionRefused ==
  /\ At("start")
  /\ ~MaxRunning
  /\ waitingForDbConnection' = TRUE
  /\ Goto("started")
  /\ UNCHANGED <<inputs, nextToStart, lastStarted, toManyThreads, queue, reads,
                 holding, waitAge, result>>

\* Any other exception of newWciConnection.
ConnectionFails ==
  /\ MayFail
  /\ At("start")
  /\ ~MaxRunning
  /\ WaitForCompleted(0, "failed")
  /\ UNCHANGED <<inputs, cursor, queue, reads, holding, waitAge, result>>

----------------------------------------------------------------------------
(* waitForCompleted                                                        *)

\* Mutant: enough when atLeast workers have been joined, others still run.
EnoughOne == manager.n >= 1 /\ readyQueue = <<>>
Enough == manager.atLeast > 0 /\ manager.n >= manager.atLeast /\ readyQueue = <<>>

\* waitAndPop or tryPop gives an id, and its worker is joined.
JoinWorker ==
  /\ At("join")
  /\ runningThreads # {}
  /\ readyQueue # <<>>
  /\ readyQueue' = Tail(readyQueue)
  /\ manager' = [manager EXCEPT !.n = @ + 1]
  /\ completed' = completed \cup ({Head(readyQueue)} \cap runningThreads)
  /\ runningThreads' = runningThreads \ {Head(readyQueue)}
  /\ UNCHANGED <<inputs, cursor, reads, holding, waitAge, result>>

JoinEnds ==
  /\ At("join")
  /\ runningThreads = {} \/ Enough
  /\ Goto(manager.then)
  /\ UNCHANGED <<inputs, cursor, queue, reads, holding, waitAge, result>>

----------------------------------------------------------------------------
(* runRequests                                                             *)

stop == manager.pc = "loop" /\ "stop" \in DOMAIN manager

\* nextToStart != threadInfos.end(). Mutant: one past the last.
MoreToStartPastEnd == nextToStart <= NRequests + 1
MoreToStart == nextToStart <= NRequests

\* The loop, until all are started or one with data says stop.
RunLoop ==
  /\ At("loop")
  /\ IF MoreToStart /\ ~stop THEN Goto("start") ELSE WaitForCompleted(0, "merge")
  /\ UNCHANGED <<inputs, cursor, queue, reads, holding, waitAge, result>>

AfterStartThreads ==
  /\ At("started")
  /\ IF toManyThreads THEN WaitForCompleted(1, "waiting") ELSE Goto("waiting")
  /\ UNCHANGED <<inputs, cursor, queue, reads, holding, waitAge, result>>

\* A connection was refused. The time to wait runs from the first refusal
\* of the whole request: inWaitingForDbConnection is never reset.
WaitForConnection ==
  /\ At("waiting")
  /\ waitingForDbConnection
  /\ waitAge <= WaitSeconds
  /\ waitAge' = IF waitAge = -1 THEN 0 ELSE waitAge
  /\ IF runningThreads # {} THEN WaitForCompleted(1, "loop") ELSE Goto("loop")
  /\ UNCHANGED <<inputs, cursor, queue, reads, holding, result>>

\* ResourceLimit: thrown past all handlers, nobody is waited for.
\* Mutant: one that waits for ever.
NeverGivesUp ==
  /\ At("waiting")
  /\ waitingForDbConnection
  /\ waitAge > WaitSeconds
  /\ Goto("loop")
  /\ UNCHANGED <<inputs, cursor, queue, reads, holding, waitAge, result>>
ThrowResourceLimit ==
  /\ At("waiting")
  /\ waitingForDbConnection
  /\ waitAge > WaitSeconds
  /\ Ends("limit", NoData)
  /\ UNCHANGED <<inputs, cursor, queue, reads, waitAge>>

\* After a stopIfData request all workers are waited for.
CheckLastStarted ==
  /\ At("waiting")
  /\ ~waitingForDbConnection
  /\ IF lastStarted # 0 /\ threadInfos[lastStarted].stopIfData
     THEN WaitForCompleted(0, "decide")
     ELSE Goto("loop")
  /\ UNCHANGED <<inputs, cursor, queue, reads, holding, waitAge, result>>

onlyConstFieldsOrEmpty(d) == \A loc \in DOMAIN d : DOMAIN d[loc] \subseteq {0}

Decide ==
  /\ At("decide")
  /\ manager' = IF data[lastStarted] # NoData /\ ~onlyConstFieldsOrEmpty(data[lastStarted])
                THEN [pc |-> "loop", stop |-> TRUE]
                ELSE [pc |-> "loop"]
  /\ UNCHANGED <<inputs, cursor, queue, reads, holding, waitAge, result>>

\* A logic_error for whatever was thrown, once all workers are joined.
Failed ==
  /\ At("failed")
  /\ Ends("error", NoData)
  /\ UNCHANGED <<inputs, cursor, queue, reads, waitAge>>

----------------------------------------------------------------------------
(* mergeData                                                               *)

LastTime(ts) == CHOOSE t \in DOMAIN ts : \A u \in DOMAIN ts : u <= t
FirstLocation(d) == CHOOSE loc \in DOMAIN d : \A other \in DOMAIN d : loc <= other
AllTimes(d) == UNION {DOMAIN d[loc] : loc \in DOMAIN d}

Times(d) == [loc \in DOMAIN d |-> DOMAIN d[loc]]

\* Mutant: the data read first is overwritten.
MergeIntoNothing(merged, d) == Times(d)

\* For one point everything goes to the first location there is. Of the
\* points of a polygon, one that is new gets a new time series for each
\* element merged, the iterator that was looked up before stays at the end.
MergeInto(merged, d) ==
  IF isPolygon
  THEN [loc \in DOMAIN merged \cup DOMAIN d |->
          CASE loc \notin DOMAIN d -> merged[loc]
            [] loc \in DOMAIN merged \cap DOMAIN d -> merged[loc] \cup DOMAIN d[loc]
            [] OTHER -> {LastTime(d[loc])}]
  ELSE IF merged = NoData
  THEN IF d = NoData THEN NoData ELSE [loc \in {FirstLocation(d)} |-> AllTimes(d)]
  ELSE [merged EXCEPT ![FirstLocation(merged)] = @ \cup AllTimes(d)]

\* The next command's data is added, if it completed. Nothing is before the
\* first that did.
MergeNext(before, w) ==
  IF w \notin completed THEN before
  ELSE IF \A v \in completed : w <= v THEN Times(data[w])
  ELSE MergeInto(before, data[w])

\* What the first w commands make.
Merged[w \in 0..NRequests] == IF w = 0 THEN NoData ELSE MergeNext(Merged[w - 1], w)

\* A request that failed, or that has no data and must have, leaves nothing.
mergeData ==
  LET spoils(w) == ~ok[w] \/ (threadInfos[w].mustHaveData /\ data[w] = NoData)
  IN IF \E w \in completed : spoils(w) THEN NoData ELSE Merged[NRequests]

Merge ==
  /\ At("merge")
  /\ Ends("ok", mergeData)
  /\ UNCHANGED <<inputs, cursor, queue, reads, waitAge>>

----------------------------------------------------------------------------
(* WdbDataRequestCommand: a worker                                         *)

\* What decodePData makes of the rows: unless the request is for a polygon
\* it puts all of them to the location of the first row. Which one that is
\* makes no difference to MergeInto: here, the first location.
Decode(a) ==
  IF isPolygon \/ a = NoData THEN a
  ELSE [loc \in {FirstLocation(a)} |->
          [t \in AllTimes(a) |-> \E l \in DOMAIN a : t \in DOMAIN a[l] /\ a[l][t]]]

Decoded == {Decode(a) : a \in Answers}

\* The query is performed, twice at most, and its rows are decoded.
Perform(w) ==
  /\ worker[w] = "run"
  /\ \E a \in Decoded : data' = [data EXCEPT ![w] = a]
  /\ worker' = [worker EXCEPT ![w] = "validate"]
  /\ UNCHANGED <<inputs, cursor, queue, ok, holding, manager, waitAge, result>>

\* It fails with whatever was decoded before the exception.
PerformFails(w) ==
  /\ MayFail
  /\ worker[w] = "run"
  /\ \E a \in Decoded : data' = [data EXCEPT ![w] = a]
  /\ ok' = [ok EXCEPT ![w] = FALSE]
  /\ worker' = [worker EXCEPT ![w] = "release"]
  /\ UNCHANGED <<inputs, cursor, queue, holding, manager, waitAge, result>>

minEnd(w) == threadInfos[w].minEnd

\* validatePrognosisLength: at a location that has constant fields only the
\* loop starts anew without having moved on, and again: the worker stays where
\* it is.
ConstantOnly(ts) == LastTime(ts) = 0
Loops(w) == minEnd(w) > 0 /\ \E loc \in DOMAIN data[w] : ConstantOnly(data[w][loc])

LongEnough(w) ==
  IF minEnd(w) = 0 THEN data[w]
  ELSE [loc \in {l \in DOMAIN data[w] : LastTime(data[w][l]) >= minEnd(w)} |-> data[w][loc]]

removeEmptyData(d) ==
  LET valued(ts) == {t \in DOMAIN ts : ts[t]}
  IN [loc \in {l \in DOMAIN d : valued(d[l]) # {}} |-> [t \in valued(d[loc]) |-> TRUE]]

Validate(w) ==
  /\ worker[w] = "validate"
  /\ ~Loops(w)
  /\ data' = [data EXCEPT ![w] = removeEmptyData(LongEnough(w))]
  /\ worker' = [worker EXCEPT ![w] = "release"]
  /\ UNCHANGED <<inputs, cursor, queue, ok, holding, manager, waitAge, result>>

\* connection_.reset(). Mutant: the connection goes with the command.
ReleaseNothing(w) ==
  /\ worker[w] = "release"
  /\ worker' = [worker EXCEPT ![w] = "push"]
  /\ UNCHANGED <<inputs, cursor, queue, data, ok, holding, manager, waitAge, result>>
Release(w) ==
  /\ worker[w] = "release"
  /\ holding' = holding \ {w}
  /\ worker' = [worker EXCEPT ![w] = "push"]
  /\ UNCHANGED <<inputs, cursor, queue, data, ok, manager, waitAge, result>>

\* Mutant: a worker that failed is not reported.
PushIfOk(w) ==
  /\ worker[w] = "push"
  /\ readyQueue' = IF ok[w] THEN Append(readyQueue, w) ELSE readyQueue
  /\ worker' = [worker EXCEPT ![w] = "gone"]
  /\ UNCHANGED <<inputs, cursor, runningThreads, completed, data, ok, holding, manager,
                 waitAge, result>>
Push(w) ==
  /\ worker[w] = "push"
  /\ readyQueue' = Append(readyQueue, w)
  /\ worker' = [worker EXCEPT ![w] = "gone"]
  /\ UNCHANGED <<inputs, cursor, runningThreads, completed, data, ok, holding, manager,
                 waitAge, result>>

----------------------------------------------------------------------------

Older(age) == IF age = -1 \/ age > WaitSeconds THEN age ELSE age + 1

\* A second passes. Ages are counted up to WaitSeconds + 1.
Tick ==
  /\ waitAge' = Older(waitAge)
  /\ waitAge' # waitAge
  /\ UNCHANGED <<inputs, cursor, queue, reads, holding, manager, result>>

RunRequests ==
  \/ RunLoop
  \/ StartTooMany
  \/ StartThread
  \/ StartThreadFails
  \/ ConnectionRefused
  \/ ConnectionFails
  \/ AfterStartThreads
  \/ WaitForConnection
  \/ ThrowResourceLimit
  \/ CheckLastStarted
  \/ Decide
  \/ JoinWorker
  \/ JoinEnds
  \/ Failed

Manager == populateThreadInfos \/ RunRequests \/ Merge

Worker(w) ==
  \/ Perform(w)
  \/ PerformFails(w)
  \/ Validate(w)
  \/ Release(w)
  \/ Push(w)

Alive(w) == worker[w] \in {"run", "validate", "release", "push"}

\* The request is over.
Over ==
  /\ At("returned")
  /\ \A w \in Ids : ~Alive(w)
  /\ UNCHANGED vars

Next ==
  \/ Manager
  \/ \E w \in 1..MaxQueries : Worker(w)
  \/ Tick
  \/ Over

SafeSpec == Init /\ [][Next]_vars

\* Threads run, and time passes.
Fairness ==
  /\ WF_vars(Manager)
  /\ \A w \in 1..MaxQueries : WF_vars(Worker(w))
  /\ WF_vars(Tick)

Spec == SafeSpec /\ Fairness

----------------------------------------------------------------------------

Returned == At("returned")

TypeOK ==
  /\ threadInfos \in BoundedSeq(Queries, MaxQueries)
  /\ nextToStart \in 1..(NRequests + 1)
  /\ lastStarted \in 0..NRequests
  /\ waitingForDbConnection \in BOOLEAN
  /\ toManyThreads \in BOOLEAN
  /\ runningThreads \subseteq Ids
  /\ completed \subseteq Ids
  /\ Range(readyQueue) \subseteq Ids
  /\ \A w \in 1..MaxQueries : worker[w] \in {"none", "run", "validate", "release", "push", "gone"}
  /\ ok \in [1..MaxQueries -> BOOLEAN]
  /\ holding \subseteq Ids
  /\ waitAge \in -1..(WaitSeconds + 1)
  /\ result.how \in {"none", "ok", "error", "limit"}

\* waitForCompleted never meets an id it does not wait for ("FATAL: A thread
\* not waited for completed"), and never waits for an id that cannot come:
\* those running are the ones alive and the ones in the queue, once each.
QueueMatchesRunning ==
  /\ runningThreads = {w \in Ids : Alive(w)} \cup Range(readyQueue)
  /\ \A w \in Range(readyQueue) : ~Alive(w)
  /\ Cardinality(Range(readyQueue)) = Len(readyQueue)

\* requestData returns data or a logic_error only when every worker it
\* started is joined, so that none writes what mergeData reads.
WorkersJoined == Returned /\ result.how # "limit" => {w \in Ids : Alive(w)} = {}

\* A stopIfData request that has data is the last one: nothing after it is
\* ever asked of the database (runRequests waits for it and stops).
StopMeansStop ==
  \A w \in completed :
    threadInfos[w].stopIfData /\ ~onlyConstFieldsOrEmpty(data[w]) => nextToStart = w + 1

\* What requestData returns has every time of every series a worker has read:
\* mergeData drops nothing, in whatever order the answers came. For a polygon it
\* has every point for which some request has data, whichever request had it
\* (not with all its times: MergeInto).
NothingLost ==
  Returned /\ result.how = "ok" /\ result.data # NoData =>
    \A w \in completed :
      IF isPolygon THEN DOMAIN data[w] \subseteq DOMAIN result.data
      ELSE AllTimes(data[w]) \subseteq UNION {result.data[loc] : loc \in DOMAIN result.data}

\* requestData returns, with data or an exception, whatever the pool does.
RequestReturns == At("populate") ~> Returned

\* Each connection is given back, also by the workers that ResourceLimit
\* leaves behind.
ConnectionsComeBack == [](holding # {} => <>(holding = {}))

===============================================================================
