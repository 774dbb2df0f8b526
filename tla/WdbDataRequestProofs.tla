-------------------------- MODULE WdbDataRequestProofs --------------------------
(***************************************************************************)
(* Proofs about WdbDataRequest, for any queries, answers, limits and       *)
(* failures: the manager waits for exactly the workers that will report,   *)
(* leaves none behind unless it throws ResourceLimit, asks nothing after a *)
(* query that has stopped the request, and merges without losing anything. *)
(***************************************************************************)
EXTENDS WdbDataRequest, FiniteSetTheorems, WellFoundedInduction, TLAPS

Workers == 1..MaxQueries
WorkerStates == {"none", "run", "validate", "release", "push", "gone"}

\* Where the manager may be. It waits for all before it merges, gives up or
\* looks at a stopIfData request, and for one when it needs room.
Points == {"populate", "loop", "start", "started", "waiting", "decide", "merge",
           "failed", "returned"}
ForAll == {"merge", "failed", "decide"}
ForOne == {"waiting", "loop"}
Managers ==
  [pc : Points]
  \cup [pc : {"loop"}, stop : {TRUE}]
  \cup [pc : {"join"}, atLeast : {0}, n : Nat, then : ForAll]
  \cup [pc : {"join"}, atLeast : {1}, n : Nat, then : ForOne]

\* What every variable the control depends on may be.
Types ==
  /\ isPolygon \in BOOLEAN
  /\ urlQuerys \in Seq(Queries) /\ Len(urlQuerys) <= MaxQueries
  /\ threadInfos \in Seq(Queries) /\ NRequests <= MaxQueries
  /\ waitingForDbConnection \in BOOLEAN
  /\ toManyThreads \in BOOLEAN
  /\ readyQueue \in Seq(Workers)
  /\ worker \in [Workers -> WorkerStates]
  /\ DOMAIN data = Workers
  /\ ok \in [Workers -> BOOLEAN]
  /\ holding \subseteq Ids
  /\ manager \in Managers
  /\ waitAge \in -1..(WaitSeconds + 1)
  /\ result.how \in {"none", "ok", "error", "limit"}

\* Requests are started in order, each once.
InOrder ==
  /\ nextToStart \in 1..(NRequests + 1)
  /\ lastStarted = nextToStart - 1
  /\ \A w \in Workers : worker[w] = "none" <=> nextToStart <= w
  /\ completed \subseteq 1..lastStarted
  /\ At("populate") => threadInfos = <<>>
  /\ At("start") => nextToStart <= NRequests

\* The workers that will push their id.
AliveNow == {w \in Workers : Alive(w)}

\* The workers waited for are those that have yet to report and those that
\* have reported and are gone, each once.
Reports ==
  /\ runningThreads = AliveNow \cup Range(readyQueue)
  /\ \A i \in 1..Len(readyQueue) : worker[readyQueue[i]] = "gone"
  /\ \A i, j \in 1..Len(readyQueue) : readyQueue[i] = readyQueue[j] => i = j

\* Nobody runs when the manager merges, decides or returns.
Quiet ==
  \/ manager.pc \in {"merge", "failed", "decide"}
  \/ At("returned") /\ result.how # "limit"
  => runningThreads = {}

\* Request w is through and has not stopped the manager.
Cleared(w) == worker[w] = "gone" /\ onlyConstFieldsOrEmpty(data[w])

\* Where the manager may go on to start another request.
GoesOn ==
  \/ At("start")
  \/ At("loop") /\ ~stop
  \/ At("started") /\ (toManyThreads \/ waitingForDbConnection)
  \/ At("waiting") /\ waitingForDbConnection
  \/ At("join") /\ manager.then \in ForOne

\* A stopIfData request is cleared before another is started.
Stops ==
  \A w \in 1..lastStarted :
    threadInfos[w].stopIfData /\ (w < lastStarted \/ GoesOn) => Cleared(w)

\* The inductive invariant.
IInv == Types /\ InOrder /\ Reports /\ Quiet /\ Stops

----------------------------------------------------------------------------
(* The manager                                                              *)

\* What the manager's state says of its fields.
LEMMA Place ==
  ASSUME NEW m \in Managers
  PROVE  /\ m.pc \in Points \cup {"join"}
         /\ m.pc = "join" => /\ m.then \in ForAll \cup ForOne
                             /\ m.then \in ForAll => m.atLeast = 0
                             /\ m.n \in Nat
                             /\ [m EXCEPT !.n = @ + 1] \in Managers
                             /\ [m EXCEPT !.n = @ + 1].pc = "join"
                             /\ [m EXCEPT !.n = @ + 1].then = m.then
<1> DEFINE W(all, then) == [pc : {"join"}, atLeast : all, n : Nat, then : then]
<1>1. CASE m \in [pc : Points] \cup [pc : {"loop"}, stop : {TRUE}]
  BY <1>1 DEF Points
<1>2. CASE m \in W({0}, ForAll)
  <2>1. [m EXCEPT !.n = @ + 1] \in W({0}, ForAll)
    BY <1>2
  <2> QED BY <1>2, <2>1 DEF Managers, Points, ForAll, ForOne
<1>3. CASE m \in W({1}, ForOne)
  <2>1. [m EXCEPT !.n = @ + 1] \in W({1}, ForOne)
    BY <1>3
  <2> QED BY <1>3, <2>1 DEF Managers, Points, ForAll, ForOne
<1> QED BY <1>1, <1>2, <1>3 DEF Managers

\* The states the manager goes to.
LEMMA Places ==
  /\ \A pc \in Points : /\ [pc |-> pc] \in Managers
                        /\ [pc |-> pc].pc = pc
                        /\ "stop" \notin DOMAIN [pc |-> pc]
  /\ [pc |-> "loop", stop |-> TRUE] \in Managers
  /\ [pc |-> "loop", stop |-> TRUE].pc = "loop"
  /\ "stop" \in DOMAIN [pc |-> "loop", stop |-> TRUE]
  /\ \A then \in ForAll :
       /\ [pc |-> "join", atLeast |-> 0, n |-> 0, then |-> then] \in Managers
       /\ [pc |-> "join", atLeast |-> 0, n |-> 0, then |-> then].pc = "join"
       /\ [pc |-> "join", atLeast |-> 0, n |-> 0, then |-> then].then = then
  /\ \A then \in ForOne :
       /\ [pc |-> "join", atLeast |-> 1, n |-> 0, then |-> then] \in Managers
       /\ [pc |-> "join", atLeast |-> 1, n |-> 0, then |-> then].pc = "join"
       /\ [pc |-> "join", atLeast |-> 1, n |-> 0, then |-> then].then = then
BY DEF Managers, Points, ForAll, ForOne

\* A sequence of at most n elements.
LEMMA Bounded ==
  ASSUME NEW S, NEW n \in Nat, NEW s \in BoundedSeq(S, n)
  PROVE  s \in Seq(S) /\ Len(s) <= n
<1>1. PICK m \in 0..n : s \in [1..m -> S]
  BY DEF BoundedSeq, SeqOf
<1> QED BY <1>1

\* The manager is not started before it is configured.
LEMMA InitEstablishes == Init => IInv
<1> SUFFICES ASSUME Init PROVE IInv
  OBVIOUS
<1> USE RequestAssumption DEF Init
<1>1. urlQuerys \in Seq(Queries) /\ Len(urlQuerys) <= MaxQueries
  BY Bounded
<1>2. manager \in Managers /\ manager.pc = "populate"
  BY Places DEF Points
<1>3. threadInfos \in Seq(Queries) /\ NRequests = 0 /\ readyQueue \in Seq(Workers)
      /\ Len(readyQueue) = 0
  BY DEF NRequests
<1>4. Types
  <2>1. worker \in [Workers -> WorkerStates] /\ DOMAIN data = Workers
        /\ ok \in [Workers -> BOOLEAN]
    BY DEF Workers, WorkerStates, Unread
  <2>2. isPolygon \in BOOLEAN /\ waitAge \in -1..(WaitSeconds + 1)
    OBVIOUS
  <2>3. NRequests <= MaxQueries /\ result.how = "none" /\ holding = {}
    BY <1>3
  <2> QED BY <1>1, <1>2, <1>3, <2>1, <2>2, <2>3 DEF Types
<1>5. InOrder
  BY <1>2, <1>3 DEF InOrder, At, Workers
<1>6. Reports
  <2>1. AliveNow = {} /\ Range(readyQueue) = {}
    BY DEF AliveNow, Alive, Workers, Range
  <2> QED BY <1>3, <2>1 DEF Reports
<1>7. Quiet
  BY <1>2 DEF Quiet, At
<1>8. Stops
  BY DEF Stops
<1> QED BY <1>4, <1>5, <1>6, <1>7, <1>8 DEF IInv

----------------------------------------------------------------------------
(* Steps of the manager that start and join nobody                          *)

\* The last stopIfData request does not stand in the way of another.
LastCleared == lastStarted # 0 /\ threadInfos[lastStarted].stopIfData => Cleared(lastStarted)

\* The manager moves on.
LEMMA MoveStep ==
  ASSUME IInv,
         UNCHANGED <<inputs, nextToStart, lastStarted, queue, reads>>,
         waitingForDbConnection' \in BOOLEAN, toManyThreads' \in BOOLEAN,
         holding' \subseteq Ids, waitAge' \in -1..(WaitSeconds + 1),
         result'.how \in {"none", "ok", "error", "limit"},
         manager' \in Managers,
         manager'.pc = "populate" => manager.pc = "populate",
         manager'.pc = "start" => nextToStart <= NRequests,
         GoesOn' => GoesOn \/ LastCleared,
         Quiet'
  PROVE  IInv'
<1> USE DEF inputs, queue, reads
<1>1. Types'
  BY DEF IInv, Types, NRequests, Ids
<1>2. InOrder'
  BY DEF IInv, InOrder, At, NRequests
<1>3. Reports'
  BY DEF IInv, Reports, AliveNow, Alive, Range
<1>4. Stops'
  <2>1. GoesOn' => LastCleared
    BY DEF IInv, InOrder, Stops, LastCleared
  <2> SUFFICES ASSUME NEW w \in 1..lastStarted, threadInfos[w].stopIfData,
                      w < lastStarted \/ GoesOn'
               PROVE  Cleared(w)
    BY DEF Stops, Cleared, onlyConstFieldsOrEmpty
  <2> QED BY <2>1 DEF IInv, Stops, InOrder, LastCleared
<1> QED BY <1>1, <1>2, <1>3, <1>4 DEF IInv

\* The loop of runRequests and what it does when a connection was refused.
LEMMA LoopStep ==
  ASSUME IInv, RunLoop \/ AfterStartThreads \/ WaitForConnection \/ CheckLastStarted
  PROVE  IInv'
<1> USE DEF inputs, queue, reads, cursor
<1>1. manager \in Managers /\ nextToStart \in 1..(NRequests + 1)
  BY DEF IInv, Types, InOrder
<1>2. UNCHANGED <<inputs, cursor, queue, reads, holding, result>>
  BY DEF RunLoop, AfterStartThreads, WaitForConnection, CheckLastStarted
<1>3. waitAge' \in -1..(WaitSeconds + 1)
  BY RequestAssumption DEF IInv, Types, RunLoop, AfterStartThreads, WaitForConnection,
                           CheckLastStarted
<1>4. /\ manager' \in Managers
      /\ manager'.pc \in {"start", "join", "waiting", "loop"}
      /\ manager'.pc = "start" => nextToStart <= NRequests
      /\ GoesOn' => GoesOn \/ LastCleared
  <2>1. CASE RunLoop
    <3>1. CASE MoreToStart /\ ~stop
      <4>1. manager' = [pc |-> "start"]
        BY <2>1, <3>1 DEF RunLoop, Goto
      <4> QED BY <2>1, <3>1, <4>1, Places DEF RunLoop, Points, GoesOn, MoreToStart
    <3>2. CASE ~(MoreToStart /\ ~stop)
      <4>1. manager' = [pc |-> "join", atLeast |-> 0, n |-> 0, then |-> "merge"]
        BY <2>1, <3>2 DEF RunLoop, WaitForCompleted
      <4> QED BY <4>1, Places DEF ForAll, ForOne, GoesOn, At
    <3> QED BY <3>1, <3>2
  <2>2. CASE AfterStartThreads
    <3>1. CASE toManyThreads
      <4>1. manager' = [pc |-> "join", atLeast |-> 1, n |-> 0, then |-> "waiting"]
        BY <2>2, <3>1 DEF AfterStartThreads, WaitForCompleted
      <4> QED BY <2>2, <3>1, <4>1, Places DEF AfterStartThreads, ForOne, GoesOn
    <3>2. CASE ~toManyThreads
      <4>1. manager' = [pc |-> "waiting"]
        BY <2>2, <3>2 DEF AfterStartThreads, Goto
      <4> QED BY <1>2, <2>2, <4>1, Places DEF AfterStartThreads, Points, GoesOn, At
    <3> QED BY <3>1, <3>2
  <2>3. CASE WaitForConnection
    <3>1. GoesOn
      BY <2>3 DEF WaitForConnection, GoesOn
    <3>2. \/ manager' = [pc |-> "join", atLeast |-> 1, n |-> 0, then |-> "loop"]
          \/ manager' = [pc |-> "loop"]
      BY <2>3 DEF WaitForConnection, WaitForCompleted, Goto
    <3> QED BY <3>1, <3>2, Places DEF Points, ForOne
  <2>4. CASE CheckLastStarted
    <3>1. CASE lastStarted # 0 /\ threadInfos[lastStarted].stopIfData
      <4>1. manager' = [pc |-> "join", atLeast |-> 0, n |-> 0, then |-> "decide"]
        BY <2>4, <3>1 DEF CheckLastStarted, WaitForCompleted
      <4> QED BY <4>1, Places DEF ForAll, ForOne, GoesOn, At
    <3>2. CASE ~(lastStarted # 0 /\ threadInfos[lastStarted].stopIfData)
      <4>1. manager' = [pc |-> "loop"] /\ LastCleared
        BY <2>4, <3>2 DEF CheckLastStarted, Goto, LastCleared
      <4> QED BY <4>1, Places DEF Points
    <3> QED BY <3>1, <3>2
  <2> QED BY <2>1, <2>2, <2>3, <2>4
<1>5. Quiet'
  BY <1>4 DEF Quiet, At
<1> QED BY <1>2, <1>3, <1>4, <1>5, MoveStep DEF IInv, Types

\* startThreads ends without having started anybody.
LEMMA StartEndsStep ==
  ASSUME IInv, StartTooMany \/ StartThreadFails \/ ConnectionRefused \/ ConnectionFails
  PROVE  IInv'
<1> USE DEF inputs, queue, reads, cursor
<1>1. At("start") /\ GoesOn /\ nextToStart \in Ids
  BY DEF StartTooMany, StartThreadFails, ConnectionRefused, ConnectionFails, TakeConnection,
         GoesOn, IInv, InOrder, Ids
<1>2. UNCHANGED <<inputs, nextToStart, lastStarted, queue, reads, waitAge, result>>
  BY DEF StartTooMany, StartThreadFails, ConnectionRefused, ConnectionFails
<1>3. /\ waitingForDbConnection' \in BOOLEAN /\ toManyThreads' \in BOOLEAN
      /\ holding' \subseteq Ids
  BY <1>1 DEF StartTooMany, StartThreadFails, ConnectionRefused, ConnectionFails,
              TakeConnection, IInv, Types
<1>4. \/ manager' = [pc |-> "started"]
      \/ manager' = [pc |-> "join", atLeast |-> 0, n |-> 0, then |-> "failed"]
  BY DEF StartTooMany, StartThreadFails, ConnectionRefused, ConnectionFails, Goto,
         WaitForCompleted
<1>5. manager' \in Managers /\ manager'.pc \in {"started", "join"}
  BY <1>4, Places DEF Points, ForAll
<1>6. Quiet'
  BY <1>5 DEF Quiet, At
<1> QED BY <1>1, <1>2, <1>3, <1>5, <1>6, MoveStep DEF IInv, Types

\* The request ends: with nobody running, or with ResourceLimit.
LEMMA EndStep ==
  ASSUME IInv, ThrowResourceLimit \/ Failed \/ Merge
  PROVE  IInv'
<1> USE DEF inputs, queue, reads, cursor
<1>1. PICK how, value :
        /\ how \in {"limit", "error", "ok"}
        /\ Ends(how, value)
        /\ how # "limit" => manager.pc \in {"failed", "merge"}
  BY DEF ThrowResourceLimit, Failed, Merge, At
<1>2. UNCHANGED <<inputs, cursor, queue, reads, waitAge>>
  BY DEF ThrowResourceLimit, Failed, Merge
<1>3. manager' = [pc |-> "returned"] /\ result'.how = how /\ holding' \subseteq Ids
  BY <1>1 DEF Ends, Goto, IInv, Types
<1>4. manager' \in Managers /\ manager'.pc = "returned"
  BY <1>3, Places DEF Points
<1>5. ~GoesOn'
  BY <1>4 DEF GoesOn, At
<1>6. Quiet'
  <2>1. how # "limit" => runningThreads = {}
    BY <1>1 DEF IInv, Quiet
  <2> QED BY <1>2, <1>3, <1>4, <2>1 DEF Quiet, At
<1> QED BY <1>1, <1>2, <1>3, <1>4, <1>5, <1>6, MoveStep DEF IInv, Types

\* waitForCompleted returns.
LEMMA JoinEndsStep ==
  ASSUME IInv, JoinEnds
  PROVE  IInv'
<1> USE DEF inputs, queue, reads, cursor
<1>1. UNCHANGED <<inputs, cursor, queue, reads, holding, waitAge, result>>
  BY DEF JoinEnds
<1>2. At("join") /\ manager' = [pc |-> manager.then] /\ manager \in Managers
  BY DEF JoinEnds, Goto, IInv, Types
<1>3. PICK then \in ForAll \cup ForOne :
        /\ then = manager.then
        /\ then \in ForAll => manager.atLeast = 0
  BY <1>2, Place DEF At
<1>4. /\ manager' \in Managers /\ manager'.pc = then
      /\ then \in {"merge", "failed", "decide", "waiting", "loop"}
  BY <1>2, <1>3, Places DEF Points, ForAll, ForOne
<1>5. GoesOn' => GoesOn
  BY <1>1, <1>2, <1>3, <1>4 DEF GoesOn, At, ForOne, ForAll
<1>6. Quiet'
  <2>1. then \in ForAll => runningThreads = {}
    BY <1>3 DEF JoinEnds, Enough
  <2> QED BY <1>1, <1>4, <2>1 DEF Quiet, At, ForAll
<1> QED BY <1>1, <1>4, <1>5, <1>6, MoveStep DEF IInv, Types

\* A started request that is not running is through.
LEMMA NobodyRuns ==
  ASSUME IInv, runningThreads = {}
  PROVE  /\ AliveNow = {}
         /\ \A w \in Workers : w <= lastStarted => worker[w] = "gone"
<1>1. AliveNow = {}
  BY DEF IInv, Reports
<1>2. \A w \in Workers : w <= lastStarted => worker[w] # "none" /\ ~Alive(w)
  BY <1>1, RequestAssumption DEF IInv, InOrder, AliveNow, Workers, Types, NRequests
<1> QED BY <1>1, <1>2 DEF IInv, Types, WorkerStates, Alive

\* The data of a stopIfData request decides whether the loop goes on.
LEMMA DecideStep ==
  ASSUME IInv, Decide
  PROVE  IInv'
<1> USE DEF inputs, queue, reads, cursor
<1>1. At("decide") /\ UNCHANGED <<inputs, cursor, queue, reads, holding, waitAge, result>>
  BY DEF Decide
<1>2. runningThreads = {}
  BY <1>1 DEF IInv, Quiet, At
<1>3. CASE data[lastStarted] # NoData /\ ~onlyConstFieldsOrEmpty(data[lastStarted])
  <2>1. manager' = [pc |-> "loop", stop |-> TRUE]
    BY <1>3 DEF Decide
  <2>2. manager' \in Managers /\ manager'.pc = "loop" /\ ~GoesOn'
    BY <2>1, Places DEF GoesOn, At, stop
  <2>3. Quiet'
    BY <2>2 DEF Quiet, At
  <2> QED BY <1>1, <2>2, <2>3, MoveStep DEF IInv, Types
<1>4. CASE ~(data[lastStarted] # NoData /\ ~onlyConstFieldsOrEmpty(data[lastStarted]))
  <2>1. manager' = [pc |-> "loop"]
    BY <1>4 DEF Decide
  <2>2. manager' \in Managers /\ manager'.pc = "loop"
    BY <2>1, Places DEF Points
  <2>3. onlyConstFieldsOrEmpty(data[lastStarted])
    BY <1>4 DEF onlyConstFieldsOrEmpty, NoData
  <2>4. LastCleared
    <3>1. lastStarted # 0 => lastStarted \in Workers
      BY RequestAssumption, SMTT(30) DEF IInv, InOrder, Types, NRequests, Workers
    <3> QED BY <1>2, <2>3, <3>1, NobodyRuns DEF LastCleared, Cleared, IInv, InOrder
  <2>5. Quiet'
    BY <2>2 DEF Quiet, At
  <2> QED BY <1>1, <2>2, <2>4, <2>5, MoveStep DEF IInv, Types
<1> QED BY <1>3, <1>4

\* A second passes.
LEMMA TickStep ==
  ASSUME IInv, Tick
  PROVE  IInv'
<1> USE DEF inputs, queue, reads, cursor
<1>1. UNCHANGED <<inputs, cursor, queue, reads, holding, manager, result>>
  BY DEF Tick
<1>2. waitAge' \in -1..(WaitSeconds + 1)
  BY RequestAssumption DEF Tick, Older, IInv, Types
<1>3. Quiet' /\ (GoesOn' => GoesOn)
  BY <1>1 DEF IInv, Quiet, At, GoesOn, stop
<1> QED BY <1>1, <1>2, <1>3, MoveStep DEF IInv, Types, InOrder, At

----------------------------------------------------------------------------
(* Steps that make the list of requests, start a worker or join one         *)

\* Before the list is made nobody has been started.
LEMMA NobodyYet ==
  ASSUME IInv, At("populate")
  PROVE  /\ NRequests = 0 /\ nextToStart = 1 /\ lastStarted = 0
         /\ AliveNow = {} /\ runningThreads = {} /\ completed = {}
         /\ Len(readyQueue) = 0
<1>1. NRequests = 0 /\ nextToStart = 1 /\ lastStarted = 0
  BY DEF IInv, InOrder, NRequests
<1>2. \A w \in Workers : worker[w] = "none"
  BY <1>1, RequestAssumption DEF IInv, InOrder, Workers
<1>3. AliveNow = {}
  BY <1>2 DEF AliveNow, Alive
<1>4. Len(readyQueue) = 0
  <2>1. readyQueue \in Seq(Workers)
    BY DEF IInv, Types
  <2>2. Len(readyQueue) # 0 => readyQueue[1] \in Workers /\ worker[readyQueue[1]] = "gone"
    BY <2>1 DEF IInv, Reports
  <2> QED BY <1>2, <2>2
<1>5. Range(readyQueue) = {}
  BY <1>4 DEF Range, IInv, Types
<1>6. runningThreads = {}
  BY <1>3, <1>5 DEF IInv, Reports
<1> QED BY <1>1, <1>3, <1>4, <1>6 DEF IInv, InOrder

\* The queries without a reference time are left out.
LEMMA PopulateStep ==
  ASSUME IInv, populateThreadInfos
  PROVE  IInv'
<1> USE DEF inputs, queue, reads, cursor
<1>1. At("populate") /\ UNCHANGED <<isPolygon, cursor, queue, reads, waitAge>>
      /\ urlQuerys' = <<>>
  BY DEF populateThreadInfos
<1>2. /\ NRequests = 0 /\ nextToStart = 1 /\ lastStarted = 0
      /\ AliveNow = {} /\ runningThreads = {} /\ completed = {}
      /\ Len(readyQueue) = 0
  BY <1>1, NobodyYet
<1>3. /\ threadInfos' \in Seq(Queries) /\ Len(threadInfos') <= MaxQueries
      /\ manager' \in {[pc |-> "returned"], [pc |-> "loop"]}
      /\ holding' \subseteq holding
      /\ result'.how \in {"none", "ok", "error", "limit"}
  <2>1. CASE urlQuerys = <<>> /\ Ends("error", NoData) /\ UNCHANGED threadInfos
    BY <2>1 DEF Ends, Goto, IInv, Types, NRequests
  <2>2. CASE /\ \E n \in 0..Len(urlQuerys) : \E place \in [1..n -> DOMAIN urlQuerys] :
                  threadInfos' = [w \in 1..n |-> urlQuerys[place[w]]]
             /\ Goto("loop")
             /\ UNCHANGED <<holding, result>>
    <3>0. PICK n \in 0..Len(urlQuerys) :
            \E place \in [1..n -> DOMAIN urlQuerys] :
              threadInfos' = [w \in 1..n |-> urlQuerys[place[w]]]
      BY <2>2
    <3>1. PICK place \in [1..n -> DOMAIN urlQuerys] :
            threadInfos' = [w \in 1..n |-> urlQuerys[place[w]]]
      BY <3>0
    <3>2. urlQuerys \in Seq(Queries) /\ Len(urlQuerys) <= MaxQueries
      BY DEF IInv, Types
    <3>3. n \in Nat /\ n <= MaxQueries
      BY <3>2, RequestAssumption
    <3>4. threadInfos' \in [1..n -> Queries]
      BY <3>1, <3>2
    <3>5. threadInfos' \in Seq(Queries) /\ Len(threadInfos') = n
      BY <3>1, <3>3, <3>4
    <3> QED BY <2>2, <3>3, <3>5 DEF Goto, IInv, Types
  <2> QED BY <2>1, <2>2 DEF populateThreadInfos
<1>4. manager' \in Managers /\ manager'.pc \in {"returned", "loop"}
  BY <1>3, Places DEF Points
<1>5. Types'
  <2>1. holding' = {}
    BY <1>2, <1>3 DEF IInv, Types, Ids
  <2>2. Len(<<>>) <= MaxQueries /\ <<>> \in Seq(Queries)
    BY RequestAssumption
  <2> QED BY <1>1, <1>3, <1>4, <2>1, <2>2 DEF IInv, Types, NRequests, Ids
<1>6. InOrder'
  BY <1>1, <1>2, <1>3, <1>4 DEF IInv, InOrder, At, NRequests
<1>7. Reports'
  BY <1>1 DEF IInv, Reports, AliveNow, Alive, Range
<1>8. Quiet'
  BY <1>1, <1>2 DEF Quiet
<1>9. Stops'
  BY <1>1, <1>2 DEF Stops
<1> QED BY <1>5, <1>6, <1>7, <1>8, <1>9 DEF IInv

\* A worker is started.
LEMMA StartStep ==
  ASSUME IInv, StartThread
  PROVE  IInv'
<1> USE DEF inputs, queue, reads, cursor
<1>0. PICK w \in Ids : w = nextToStart
  BY DEF StartThread, TakeConnection, IInv, InOrder, Ids, At
<1>1. /\ At("start") /\ w \in Workers /\ lastStarted = w - 1 /\ worker[w] = "none"
      /\ w \in Nat /\ NRequests \in Nat
  BY <1>0, RequestAssumption, SMTT(30) DEF StartThread, TakeConnection, IInv, InOrder, Types, Ids, Workers,
                                 NRequests
<1>2. /\ UNCHANGED <<inputs, readyQueue, completed, data, ok, waitAge, result>>
      /\ worker' = [worker EXCEPT ![w] = "run"]
      /\ runningThreads' = runningThreads \cup {w}
      /\ holding' = holding \cup {w}
      /\ lastStarted' = w /\ nextToStart' = w + 1
      /\ ~waitingForDbConnection' /\ ~toManyThreads'
      /\ waitingForDbConnection' \in BOOLEAN /\ toManyThreads' \in BOOLEAN
  BY <1>0 DEF StartThread, TakeConnection
<1>3. /\ manager' \in Managers
      /\ manager'.pc = IF StartsMore(w) THEN "start" ELSE "started"
  BY <1>0, Places DEF StartThread, Goto, Points
<1>4. Types'
  BY <1>1, <1>2, <1>3 DEF IInv, Types, WorkerStates, NRequests, Ids
<1>5. InOrder'
  BY <1>1, <1>2, <1>3 DEF IInv, InOrder, At, NRequests, Types, Workers, StartsMore, Ids
<1>6. Reports'
  <2>1. AliveNow' = AliveNow \cup {w}
    BY <1>1, <1>2 DEF AliveNow, Alive, IInv, Types
  <2>2. \A i \in 1..Len(readyQueue) : readyQueue[i] \in Workers /\ readyQueue[i] # w
    BY <1>1 DEF IInv, Reports, Types
  <2> QED BY <1>2, <2>1, <2>2 DEF IInv, Reports, Range, Types
<1>7. Quiet'
  BY <1>3 DEF Quiet, At
<1>8. Stops'
  <2> SUFFICES ASSUME NEW v \in 1..w, threadInfos[v].stopIfData, v < w \/ GoesOn'
               PROVE  Cleared(v)'
    BY <1>2 DEF Stops
  <2>1. CASE v < w
    <3>1. v \in 1..lastStarted /\ v \in Workers
      BY <1>1, <2>1, RequestAssumption DEF Workers
    <3>2. Cleared(v)
      BY <1>1, <3>1 DEF IInv, Stops, GoesOn
    <3> QED BY <1>2, <2>1, <3>1, <3>2 DEF Cleared, IInv, Types, onlyConstFieldsOrEmpty
  <2>2. CASE v = w
    <3>1. manager'.pc = "started"
      BY <1>3, <2>2 DEF StartsMore
    <3> QED BY <1>1, <1>2, <2>2, <3>1 DEF GoesOn, At
  <2> QED BY <1>1, <2>1, <2>2
<1> QED BY <1>4, <1>5, <1>6, <1>7, <1>8 DEF IInv

\* What is in a queue is its head and what is in its tail.
LEMMA RangeOfTail ==
  ASSUME NEW S, NEW s \in Seq(S), s # <<>>
  PROVE  Range(s) = Range(Tail(s)) \cup {Head(s)}
<1>1. /\ Len(s) \in Nat /\ Len(s) > 0 /\ Head(s) = s[1]
      /\ DOMAIN s = 1..Len(s) /\ DOMAIN Tail(s) = 1..(Len(s) - 1)
      /\ \A i \in 1..(Len(s) - 1) : Tail(s)[i] = s[i + 1]
  OBVIOUS
<1>2. ASSUME NEW x \in Range(s)
      PROVE  x \in Range(Tail(s)) \cup {Head(s)}
  <2>1. PICK i \in 1..Len(s) : x = s[i]
    BY <1>1 DEF Range
  <2>2. CASE i = 1
    BY <1>1, <2>1, <2>2
  <2>3. CASE i # 1
    <3>1. i - 1 \in 1..(Len(s) - 1) /\ (i - 1) + 1 = i
      BY <1>1, <2>3
    <3>2. Tail(s)[i - 1] = x
      BY <1>1, <2>1, <3>1
    <3> QED BY <1>1, <3>1, <3>2 DEF Range
  <2> QED BY <2>2, <2>3
<1>3. ASSUME NEW x \in Range(Tail(s)) \cup {Head(s)}
      PROVE  x \in Range(s)
  <2>1. \A i \in 1..(Len(s) - 1) : i + 1 \in 1..Len(s)
    BY <1>1
  <2>2. 1 \in 1..Len(s)
    BY <1>1
  <2> QED BY <1>1, <2>1, <2>2 DEF Range
<1> QED BY <1>2, <1>3

\* A worker is joined.
LEMMA JoinStep ==
  ASSUME IInv, JoinWorker
  PROVE  IInv'
<1> USE DEF inputs, queue, reads, cursor
<1> DEFINE w == Head(readyQueue)
           m == [manager EXCEPT !.n = @ + 1]
<1>0. readyQueue \in Seq(Workers) /\ readyQueue # <<>> /\ manager \in Managers
  BY DEF JoinWorker, IInv, Types
<1>1. /\ At("join") /\ UNCHANGED <<inputs, cursor, reads, holding, waitAge, result>>
      /\ readyQueue' = Tail(readyQueue)
      /\ completed' \subseteq completed \cup runningThreads
      /\ runningThreads' = runningThreads \ {w}
      /\ manager' = m
  BY DEF JoinWorker
<1>2. m \in Managers /\ m.pc = "join" /\ m.then = manager.then
  BY <1>0, <1>1, Place, Zenon DEF At
<1> HIDE DEF m
<1>3. Len(readyQueue) > 0 /\ w = readyQueue[1] /\ w \in Workers
  BY <1>0
<1>4. /\ Tail(readyQueue) \in Seq(Workers)
      /\ Len(Tail(readyQueue)) = Len(readyQueue) - 1
      /\ \A i \in 1..(Len(readyQueue) - 1) : Tail(readyQueue)[i] = readyQueue[i + 1]
  BY <1>0, <1>3
<1>5. \A v \in runningThreads : v \in 1..lastStarted
  <2>1. \A v \in Workers : worker[v] # "none" => v \in 1..lastStarted
    BY RequestAssumption DEF IInv, InOrder, Workers, Types, NRequests
  <2>2. \A v \in AliveNow : v \in Workers /\ worker[v] # "none"
    BY DEF AliveNow, Alive
  <2>3. \A v \in Range(readyQueue) : v \in Workers /\ worker[v] # "none"
    BY <1>0 DEF Range, IInv, Reports
  <2> QED BY <2>1, <2>2, <2>3 DEF IInv, Reports
<1>6. Types'
  BY <1>1, <1>2, <1>4 DEF IInv, Types, NRequests, Ids
<1>7. InOrder'
  BY <1>1, <1>2, <1>5 DEF IInv, InOrder, At, NRequests
<1>8. Reports'
  <2>1. AliveNow' = AliveNow /\ w \notin AliveNow
    BY <1>1, <1>3 DEF AliveNow, Alive, IInv, Reports
  <2>2. Range(readyQueue) = Range(Tail(readyQueue)) \cup {w}
    BY <1>0, RangeOfTail
  <2>3. w \notin Range(Tail(readyQueue))
    <3>1. \A i \in 1..(Len(readyQueue) - 1) : readyQueue[i + 1] # readyQueue[1]
      BY <1>0, <1>3 DEF IInv, Reports
    <3> QED BY <1>0, <1>3, <1>4, <3>1 DEF Range
  <2>4. runningThreads' = AliveNow' \cup Range(readyQueue)'
    <3>1. Range(readyQueue)' = Range(Tail(readyQueue))
      BY <1>1 DEF Range
    <3>2. runningThreads = AliveNow \cup Range(readyQueue)
      BY DEF IInv, Reports
    <3> QED BY <1>1, <2>1, <2>2, <2>3, <3>1, <3>2
  <2>5. /\ \A i \in 1..Len(readyQueue') : worker'[readyQueue'[i]] = "gone"
        /\ \A i, j \in 1..Len(readyQueue') : readyQueue'[i] = readyQueue'[j] => i = j
    BY <1>0, <1>1, <1>3, <1>4 DEF IInv, Reports
  <2> QED BY <2>4, <2>5 DEF Reports
<1>9. Quiet'
  BY <1>1, <1>2 DEF Quiet, At
<1>10. Stops'
  <2>1. GoesOn' => GoesOn
    BY <1>1, <1>2 DEF GoesOn, At
  <2> QED BY <1>1, <2>1 DEF IInv, Stops, Cleared, onlyConstFieldsOrEmpty
<1> QED BY <1>6, <1>7, <1>8, <1>9, <1>10 DEF IInv

----------------------------------------------------------------------------
(* Steps of a worker                                                        *)

\* A worker that has yet to report goes on; it may change its own data.
LEMMA WorkStep ==
  ASSUME IInv, NEW w \in Workers,
         Perform(w) \/ PerformFails(w) \/ Validate(w) \/ Release(w)
  PROVE  IInv'
<1> USE DEF inputs, queue, reads, cursor
<1>1. /\ UNCHANGED <<inputs, cursor, queue, manager, waitAge, result>>
      /\ holding' \subseteq holding
      /\ ok' \in [Workers -> BOOLEAN]
      /\ DOMAIN data' = Workers
      /\ \A v \in Workers \ {w} : data'[v] = data[v]
  BY DEF Perform, PerformFails, Validate, Release, IInv, Types
<1>2. PICK pc \in {"validate", "release", "push"} :
        Alive(w) /\ worker' = [worker EXCEPT ![w] = pc]
  BY DEF Perform, PerformFails, Validate, Release, Alive
<1>3. /\ worker[w] # "none" /\ worker[w] # "gone"
      /\ worker'[w] # "none" /\ worker'[w] # "gone"
      /\ \A v \in Workers \ {w} : worker'[v] = worker[v]
  BY <1>2 DEF Alive, IInv, Types
<1>4. Types'
  BY <1>1, <1>2 DEF IInv, Types, WorkerStates, NRequests, Ids
<1>5. InOrder'
  BY <1>1, <1>3 DEF IInv, InOrder, At, NRequests
<1>6. Reports'
  <2>1. AliveNow' = AliveNow
    BY <1>2 DEF AliveNow, Alive, IInv, Types
  <2>2. \A i \in 1..Len(readyQueue) :
          readyQueue[i] \in Workers /\ worker[readyQueue[i]] = "gone"
    BY DEF IInv, Types, Reports
  <2> QED BY <1>1, <1>3, <2>1, <2>2 DEF IInv, Reports, Range
<1>7. Quiet'
  BY <1>1 DEF IInv, Quiet, At
<1>8. Stops'
  <2>1. GoesOn' => GoesOn
    BY <1>1 DEF GoesOn, At, stop
  <2> SUFFICES ASSUME NEW v \in 1..lastStarted, threadInfos[v].stopIfData,
                      v < lastStarted \/ GoesOn
               PROVE  Cleared(v)'
    BY <1>1, <2>1 DEF Stops
  <2>2. v \in Workers
    BY RequestAssumption DEF IInv, InOrder, Types, NRequests, Workers
  <2>3. Cleared(v)
    BY DEF IInv, Stops
  <2>4. v # w
    BY <1>3, <2>3 DEF Cleared
  <2> QED BY <1>1, <1>3, <2>2, <2>3, <2>4 DEF Cleared, onlyConstFieldsOrEmpty
<1> QED BY <1>4, <1>5, <1>6, <1>7, <1>8 DEF IInv

\* What is in a queue when an element is put in.
LEMMA RangeOfAppend ==
  ASSUME NEW S, NEW s \in Seq(S), NEW x \in S
  PROVE  Range(Append(s, x)) = Range(s) \cup {x}
<1>1. /\ Len(s) \in Nat /\ DOMAIN s = 1..Len(s)
      /\ DOMAIN Append(s, x) = 1..(Len(s) + 1)
      /\ Append(s, x)[Len(s) + 1] = x
      /\ \A i \in 1..Len(s) : Append(s, x)[i] = s[i]
  OBVIOUS
<1>2. \A i \in 1..(Len(s) + 1) : i \in 1..Len(s) \/ i = Len(s) + 1
  BY <1>1
<1>3. (\A i \in 1..Len(s) : i \in 1..(Len(s) + 1)) /\ Len(s) + 1 \in 1..(Len(s) + 1)
  BY <1>1
<1> QED BY <1>1, <1>2, <1>3 DEF Range

\* A worker reports and is gone.
LEMMA PushStep ==
  ASSUME IInv, NEW w \in Workers, Push(w)
  PROVE  IInv'
<1> USE DEF inputs, queue, reads, cursor
<1>1. /\ UNCHANGED <<inputs, cursor, runningThreads, completed, data, ok, holding, manager,
                     waitAge, result>>
      /\ readyQueue' = Append(readyQueue, w)
      /\ worker' = [worker EXCEPT ![w] = "gone"]
      /\ worker[w] = "push"
  BY DEF Push
<1>2. /\ worker'[w] = "gone"
      /\ \A v \in Workers \ {w} : worker'[v] = worker[v]
  BY <1>1 DEF IInv, Types
<1>3. /\ readyQueue \in Seq(Workers) /\ readyQueue' \in Seq(Workers)
      /\ Len(readyQueue) \in Nat /\ Len(readyQueue') = Len(readyQueue) + 1
      /\ readyQueue'[Len(readyQueue) + 1] = w
      /\ \A i \in 1..Len(readyQueue) : readyQueue'[i] = readyQueue[i]
  BY <1>1 DEF IInv, Types
<1>4. \A i \in 1..Len(readyQueue) : readyQueue[i] \in Workers /\ readyQueue[i] # w
                                    /\ worker[readyQueue[i]] = "gone"
  BY <1>1, <1>3 DEF IInv, Reports
<1>5. Types'
  BY <1>1, <1>3 DEF IInv, Types, WorkerStates, NRequests, Ids
<1>6. InOrder'
  BY <1>1, <1>2 DEF IInv, InOrder, At, NRequests
<1>7. Reports'
  <2>1. AliveNow' = AliveNow \ {w} /\ w \in AliveNow
    BY <1>1 DEF AliveNow, Alive, IInv, Types
  <2>2. Range(readyQueue)' = Range(readyQueue) \cup {w}
    BY <1>1, <1>3, RangeOfAppend DEF Range
  <2>3. runningThreads = AliveNow \cup Range(readyQueue)
    BY DEF IInv, Reports
  <2>4. runningThreads' = AliveNow' \cup Range(readyQueue)'
    BY <1>1, <2>1, <2>2, <2>3
  <2>5. \A i \in 1..Len(readyQueue') : i \in 1..Len(readyQueue) \/ i = Len(readyQueue) + 1
    BY <1>3
  <2>6. \A i \in 1..Len(readyQueue') : worker'[readyQueue'[i]] = "gone"
    BY <1>2, <1>3, <1>4, <2>5
  <2>7. \A i, j \in 1..Len(readyQueue') : readyQueue'[i] = readyQueue'[j] => i = j
    BY <1>3, <1>4, <2>5 DEF IInv, Reports
  <2> QED BY <2>4, <2>6, <2>7 DEF Reports
<1>8. Quiet'
  BY <1>1 DEF IInv, Quiet, At
<1>9. Stops'
  <2>1. GoesOn' => GoesOn
    BY <1>1 DEF GoesOn, At, stop
  <2>2. \A v \in Workers : Cleared(v) => Cleared(v)'
    BY <1>1, <1>2 DEF Cleared, onlyConstFieldsOrEmpty
  <2>3. \A v \in 1..lastStarted : v \in Workers
    BY RequestAssumption DEF IInv, InOrder, Types, NRequests, Workers
  <2> QED BY <1>1, <2>1, <2>2, <2>3 DEF IInv, Stops
<1> QED BY <1>5, <1>6, <1>7, <1>8, <1>9 DEF IInv

\* Every step keeps the invariant.
LEMMA Invariance == IInv /\ [Next]_vars => IInv'
<1> SUFFICES ASSUME IInv, [Next]_vars PROVE IInv'
  OBVIOUS
<1>1. CASE Manager
  BY <1>1, PopulateStep, LoopStep, StartEndsStep, StartStep, EndStep, DecideStep, JoinStep,
     JoinEndsStep DEF Manager, RunRequests
<1>2. CASE \E w \in 1..MaxQueries : Worker(w)
  BY <1>2, WorkStep, PushStep DEF Worker, Workers
<1>3. CASE Tick
  BY <1>3, TickStep
<1>4. CASE Over \/ UNCHANGED vars
  <2>1. UNCHANGED <<inputs, cursor, queue, reads, holding, manager, waitAge, result>>
    BY <1>4 DEF Over, vars
  <2>2. Quiet' /\ (GoesOn' => GoesOn)
    BY <2>1 DEF IInv, Quiet, At, GoesOn, stop, queue, cursor
  <2> QED BY <2>1, <2>2, MoveStep DEF IInv, Types, InOrder, At, cursor
<1> QED BY <1>1, <1>2, <1>3, <1>4 DEF Next

\* A running request is one of the list's, and so is a worker alive.
LEMMA RunningIds ==
  ASSUME IInv
  PROVE  /\ runningThreads \subseteq Ids
         /\ {w \in Ids : Alive(w)} = AliveNow
         /\ \A w \in Ids : w \in Workers
<1>1. NRequests \in Nat /\ MaxQueries \in Nat /\ NRequests <= MaxQueries
  BY RequestAssumption DEF IInv, Types, NRequests
<1>2. \A w \in Workers : worker[w] # "none" => w \in Ids
  BY <1>1 DEF IInv, InOrder, Workers, Ids
<1>3. \A w \in Ids : w \in Workers
  BY <1>1 DEF Ids, Workers
<1>4. {w \in Ids : Alive(w)} = AliveNow
  BY <1>2, <1>3 DEF AliveNow, Alive
<1>5. \A w \in Range(readyQueue) : w \in Workers /\ worker[w] = "gone"
  BY DEF Range, IInv, Reports, Types
<1> QED BY <1>2, <1>3, <1>4, <1>5 DEF IInv, Reports

----------------------------------------------------------------------------
(* The theorems                                                             *)

\* The invariant gives the types.
LEMMA TypesFollow == IInv => TypeOK
<1> SUFFICES ASSUME IInv PROVE TypeOK
  OBVIOUS
<1>1. NRequests \in Nat /\ MaxQueries \in Nat /\ NRequests <= MaxQueries
  BY RequestAssumption DEF IInv, Types, NRequests
<1>2. threadInfos \in BoundedSeq(Queries, MaxQueries)
  <2>1. threadInfos \in [1..NRequests -> Queries] /\ NRequests \in 0..MaxQueries
    BY <1>1 DEF IInv, Types, NRequests
  <2> QED BY <2>1 DEF BoundedSeq, SeqOf
<1>3. lastStarted \in 0..NRequests /\ completed \subseteq Ids
  BY <1>1 DEF IInv, InOrder, Ids
<1>4. Range(readyQueue) \subseteq Ids /\ runningThreads \subseteq Ids
  BY RunningIds DEF IInv, Reports
<1>5. \A w \in 1..MaxQueries :
        worker[w] \in {"none", "run", "validate", "release", "push", "gone"}
  BY DEF IInv, Types, Workers, WorkerStates
<1> QED BY <1>2, <1>3, <1>4, <1>5 DEF TypeOK, IInv, Types, InOrder, Workers

\* The types hold for any configuration, whatever fails: the iterators stay
\* in the list, and only requests of the list are run, joined or given a
\* connection.
THEOREM TypeCorrect == SafeSpec => []TypeOK
BY InitEstablishes, Invariance, TypesFollow, PTL DEF SafeSpec

\* A queue without repetition has as many elements as it is long.
LEMMA QueueLength ==
  ASSUME NEW S, NEW s \in Seq(S),
         \A i, j \in 1..Len(s) : s[i] = s[j] => i = j
  PROVE  Cardinality(Range(s)) = Len(s)
<1>1. Len(s) \in Nat /\ DOMAIN s = 1..Len(s) /\ s \in [1..Len(s) -> Range(s)]
  BY DEF Range
<1>2. s \in Bijection(1..Len(s), Range(s))
  BY <1>1 DEF Bijection, Injection, Surjection, IsInjective, Range
<1>3. IsFiniteSet(1..Len(s)) /\ Cardinality(1..Len(s)) = Len(s)
  BY <1>1, FS_Interval, SMTT(30)
<1>4. ExistsBijection(1..Len(s), Range(s))
  BY <1>2, Zenon DEF ExistsBijection
<1> QED BY <1>3, <1>4, FS_Bijection

\* waitForCompleted waits for exactly the workers that will put their id in
\* the queue or have done so, once each, for any number of workers, whatever
\* fails: it neither waits for ever nor meets an id it did not wait for.
THEOREM QueueIsRunning == SafeSpec => []QueueMatchesRunning
<1>1. IInv => QueueMatchesRunning
  <2> SUFFICES ASSUME IInv PROVE QueueMatchesRunning
    OBVIOUS
  <2>1. runningThreads = {w \in Ids : Alive(w)} \cup Range(readyQueue)
    BY RunningIds DEF IInv, Reports
  <2>2. \A w \in Range(readyQueue) : ~Alive(w)
    BY DEF IInv, Types, Reports, Range, Alive
  <2>3. Cardinality(Range(readyQueue)) = Len(readyQueue)
    BY QueueLength DEF IInv, Types, Reports
  <2> QED BY <2>1, <2>2, <2>3 DEF QueueMatchesRunning
<1> QED BY <1>1, InitEstablishes, Invariance, PTL DEF SafeSpec

\* requestData leaves no worker behind unless it throws ResourceLimit: every
\* other way out of it passes through a waitForCompleted for all.
THEOREM NobodyLeftBehind == SafeSpec => []WorkersJoined
<1>1. IInv => WorkersJoined
  <2> SUFFICES ASSUME IInv, Returned, result.how # "limit"
               PROVE  {w \in Ids : Alive(w)} = {}
    BY DEF WorkersJoined
  <2>1. runningThreads = {}
    BY DEF IInv, Quiet, Returned
  <2> QED BY <2>1, RunningIds, NobodyRuns
<1> QED BY <1>1, InitEstablishes, Invariance, PTL DEF SafeSpec

\* After a stopIfData request that has data nothing more is asked, whatever
\* limits and refusals the manager meets on the way.
THEOREM StopIsObeyed == SafeSpec => []StopMeansStop
<1>1. IInv => StopMeansStop
  <2> SUFFICES ASSUME IInv, NEW w \in completed, threadInfos[w].stopIfData,
                      ~onlyConstFieldsOrEmpty(data[w])
               PROVE  nextToStart = w + 1
    BY DEF StopMeansStop
  <2>1. w \in 1..lastStarted /\ lastStarted = nextToStart - 1 /\ nextToStart \in Int
    BY DEF IInv, InOrder
  <2>2. ~(w < lastStarted)
    BY <2>1 DEF IInv, Stops, Cleared
  <2> QED BY <2>1, <2>2
<1> QED BY <1>1, InitEstablishes, Invariance, PTL DEF SafeSpec

----------------------------------------------------------------------------
(* mergeData                                                                *)

\* A set of numbers has a least one, if it has any.
LEMMA Least ==
  ASSUME NEW T, T \subseteq Nat, T # {}
  PROVE  \E x \in T : \A y \in T : x <= y
<1>1. PICK x \in T : \A y \in T : <<y, x>> \notin OpToRel(<, Nat)
  BY WFMin, NatLessThanWellFounded, Zenon
<1>2. \A y \in T : ~(y < x)
  BY <1>1, Zenon DEF OpToRel
<1> QED BY <1>2

\* Induction over the numbers, on a set.
LEMMA Induction ==
  ASSUME NEW S, 0 \in S, \A n \in Nat : n \in S => n + 1 \in S
  PROVE  Nat \subseteq S
<1> SUFFICES ASSUME Nat \ S # {} PROVE FALSE
  OBVIOUS
<1>1. PICK x \in Nat \ S : \A y \in Nat \ S : x <= y
  BY Least, Zenon
<1>2. x - 1 \in Nat
  BY <1>1
<1> QED BY <1>1, <1>2

\* There is such a function as Merged.
LEMMA MergedIs ==
  ASSUME NRequests \in Nat
  PROVE  /\ Merged[0] = NoData
         /\ \A w \in 1..NRequests : Merged[w] = MergeNext(Merged[w - 1], w)
<1> DEFINE Is(g, n) == g = [w \in 0..n |-> IF w = 0 THEN NoData ELSE MergeNext(g[w - 1], w)]
           S == {n \in Nat : \E g : Is(g, n)}
<1>1. 0 \in S
  <2> DEFINE g == [w \in 0..0 |-> NoData]
  <2>1. Is(g, 0)
    OBVIOUS
  <2> QED BY <2>1
<1>2. ASSUME NEW n \in Nat, n \in S
      PROVE  n + 1 \in S
  <2>1. PICK g : Is(g, n)
    BY <1>2
  <2> DEFINE k == [w \in 0..(n + 1) |-> IF w = n + 1 THEN MergeNext(g[n], n + 1) ELSE g[w]]
  <2>2. \A w \in 0..n : g[w] = IF w = 0 THEN NoData ELSE MergeNext(g[w - 1], w)
    BY <2>1
  <2>3. \A w \in 0..(n + 1) : k[w] = IF w = 0 THEN NoData ELSE MergeNext(k[w - 1], w)
    <3> SUFFICES ASSUME NEW w \in 0..(n + 1)
                 PROVE  k[w] = IF w = 0 THEN NoData ELSE MergeNext(k[w - 1], w)
      OBVIOUS
    <3>1. CASE w = n + 1
      <4>1. k[w] = MergeNext(g[n], n + 1) /\ k[w - 1] = g[n] /\ w # 0
        BY <3>1
      <4> QED BY <3>1, <4>1
    <3>2. CASE w = 0
      BY <2>2, <3>2
    <3>3. CASE w # n + 1 /\ w # 0
      <4>1. w \in 0..n /\ w - 1 \in 0..n /\ w - 1 # n + 1
        BY <3>3
      <4>2. k[w] = g[w] /\ k[w - 1] = g[w - 1]
        BY <3>3, <4>1
      <4> QED BY <2>2, <3>3, <4>1, <4>2
    <3> QED BY <3>1, <3>2, <3>3
  <2>4. k = [w \in 0..(n + 1) |-> k[w]]
    OBVIOUS
  <2> HIDE DEF k
  <2>5. Is(k, n + 1)
    BY <2>3, <2>4
  <2> QED BY <2>5
<1> HIDE DEF S
<1>3. NRequests \in S
  BY <1>1, <1>2, Induction
<1> USE DEF S
<1>4. \E g : Is(g, NRequests)
  BY <1>3
<1>5. Is(Merged, NRequests)
  BY <1>4, Zenon DEF Merged
<1> QED BY <1>5

\* A result is a function of locations.
Located(d) == d = [loc \in DOMAIN d |-> d[loc]] /\ DOMAIN d \subseteq Nat

\* All there is at the locations of m.
Everything(m) == UNION {m[loc] : loc \in DOMAIN m}

\* m has what request w has read.
Has(m, w) == IF isPolygon THEN DOMAIN data[w] \subseteq DOMAIN m
             ELSE AllTimes(data[w]) \subseteq Everything(m)

\* A result that is not empty has a first location.
LEMMA First ==
  ASSUME NEW d, Located(d), d # NoData
  PROVE  FirstLocation(d) \in DOMAIN d /\ FirstLocation(d) \in Nat
<1>1. DOMAIN d # {}
  BY DEF Located, NoData
<1>2. \E loc \in DOMAIN d : \A other \in DOMAIN d : loc <= other
  BY <1>1, Least DEF Located
<1> QED BY <1>2 DEF FirstLocation, Located

\* Merging loses nothing of either.
LEMMA MergeIntoKeeps ==
  ASSUME NEW m, Located(m), NEW d, Located(d)
  PROVE  /\ Located(MergeInto(m, d))
         /\ isPolygon => DOMAIN MergeInto(m, d) = DOMAIN m \cup DOMAIN d
         /\ ~isPolygon => Everything(m) \cup AllTimes(d) \subseteq Everything(MergeInto(m, d))
<1>1. CASE isPolygon
  <2>1. PICK f : MergeInto(m, d) = [loc \in DOMAIN m \cup DOMAIN d |-> f[loc]]
    <3> DEFINE f == [loc \in DOMAIN m \cup DOMAIN d |->
                       CASE loc \notin DOMAIN d -> m[loc]
                         [] loc \in DOMAIN m \cap DOMAIN d -> m[loc] \cup DOMAIN d[loc]
                         [] OTHER -> {LastTime(d[loc])}]
    <3>1. MergeInto(m, d) = f
      BY <1>1, Zenon DEF MergeInto
    <3>2. f = [loc \in DOMAIN m \cup DOMAIN d |-> f[loc]]
      OBVIOUS
    <3> QED BY <3>1, <3>2
  <2> QED BY <1>1, <2>1 DEF Located
<1>2. CASE ~isPolygon /\ m = NoData
  <2>1. Everything(m) = {}
    BY <1>2 DEF Everything, NoData
  <2>2. CASE d = NoData
    <3>1. MergeInto(m, d) = m
      BY <1>2, <2>2 DEF MergeInto
    <3>2. AllTimes(d) = {}
      BY <2>2 DEF AllTimes, NoData
    <3> QED BY <1>2, <2>1, <3>1, <3>2
  <2>3. CASE d # NoData
    <3> DEFINE first == FirstLocation(d)
               all == AllTimes(d)
    <3>1. MergeInto(m, d) = [loc \in {first} |-> all]
      BY <1>2, <2>3 DEF MergeInto
    <3>2. first \in Nat
      BY <2>3, First
    <3> HIDE DEF first, all
    <3>3. Located([loc \in {first} |-> all]) /\ all \subseteq Everything([loc \in {first} |-> all])
      BY <3>2 DEF Located, Everything
    <3>4. all = AllTimes(d)
      BY DEF all
    <3> QED BY <1>2, <2>1, <3>1, <3>3, <3>4
  <2> QED BY <2>2, <2>3
<1>3. CASE ~isPolygon /\ m # NoData
  <2> DEFINE first == FirstLocation(m)
             all == AllTimes(d)
             k == [m EXCEPT ![first] = m[first] \cup all]
  <2>1. MergeInto(m, d) = k
    BY <1>3 DEF MergeInto
  <2>2. first \in DOMAIN m
    BY <1>3, First
  <2>0. all = AllTimes(d)
    OBVIOUS
  <2> HIDE DEF first, all
  <2>3. /\ DOMAIN k = DOMAIN m /\ k[first] = m[first] \cup all
        /\ \A loc \in DOMAIN m : m[loc] \subseteq k[loc]
        /\ k = [loc \in DOMAIN m |-> k[loc]]
    BY <2>2 DEF Located
  <2> HIDE DEF k
  <2>4. Located(k) /\ Everything(m) \cup all \subseteq Everything(k)
    BY <2>2, <2>3 DEF Located, Everything
  <2> QED BY <1>3, <2>0, <2>1, <2>4
<1> QED BY <1>1, <1>2, <1>3

\* What the first n requests make has all that those which completed have read.
LEMMA MergedHas ==
  ASSUME NRequests \in Nat, completed \subseteq Nat \ {0},
         \A w \in completed : Located(data[w])
  PROVE  \A w \in completed : w <= NRequests => Has(Merged[NRequests], w)
<1> DEFINE Good(n) == /\ Located(Merged[n])
                      /\ \A w \in completed : w <= n => Has(Merged[n], w)
           S == {n \in Nat : n <= NRequests => Good(n)}
<1>1. 0 \in S
  <2>1. Located(NoData)
    BY DEF Located, NoData
  <2> QED BY <2>1, MergedIs
<1>2. ASSUME NEW n \in Nat, n \in S
      PROVE  n + 1 \in S
  <2> SUFFICES ASSUME n + 1 <= NRequests
               PROVE  Good(n + 1)
    OBVIOUS
  <2>0. PICK before : before = Merged[n]
    OBVIOUS
  <2>1. Located(before) /\ \A w \in completed : w <= n => Has(before, w)
    BY <1>2, <2>0
  <2>2. Merged[n + 1] = MergeNext(before, n + 1)
    BY <2>0, MergedIs
  <2>3. CASE n + 1 \notin completed
    <3>1. Merged[n + 1] = before
      BY <2>2, <2>3 DEF MergeNext
    <3>2. \A w \in completed : w <= n + 1 => w <= n
      BY <2>3
    <3> QED BY <2>1, <3>1, <3>2
  <2>4. CASE n + 1 \in completed /\ \A v \in completed : n + 1 <= v
    <3>1. Merged[n + 1] = Times(data[n + 1])
      BY <2>2, <2>4 DEF MergeNext
    <3>2. \A w \in completed : w <= n + 1 => w = n + 1
      BY <2>4
    <3>3. Located(Times(data[n + 1])) /\ Has(Times(data[n + 1]), n + 1)
      BY <2>4 DEF Located, Has, Times, AllTimes, Everything
    <3> QED BY <3>1, <3>2, <3>3
  <2>5. CASE n + 1 \in completed /\ ~(\A v \in completed : n + 1 <= v)
    <3> DEFINE d == data[n + 1]
    <3>1. Merged[n + 1] = MergeInto(before, d)
      BY <2>2, <2>5 DEF MergeNext
    <3>2. /\ Located(MergeInto(before, d))
          /\ isPolygon => DOMAIN MergeInto(before, d) = DOMAIN before \cup DOMAIN d
          /\ ~isPolygon => Everything(before) \cup AllTimes(d)
                             \subseteq Everything(MergeInto(before, d))
      BY <2>1, <2>5, MergeIntoKeeps
    <3>3. \A w \in completed : w <= n + 1 => w <= n \/ w = n + 1
      OBVIOUS
    <3>4. \A w \in completed : w <= n => Has(MergeInto(before, d), w)
      BY <2>1, <3>2 DEF Has
    <3>5. Has(MergeInto(before, d), n + 1)
      BY <3>2 DEF Has
    <3> QED BY <3>1, <3>2, <3>3, <3>4, <3>5
  <2> QED BY <2>3, <2>4, <2>5
<1> HIDE DEF S
<1>3. NRequests \in S
  BY <1>1, <1>2, Induction
<1>4. NRequests <= NRequests => Good(NRequests)
  <2> HIDE DEF Good
  <2> QED BY <1>3 DEF S
<1> QED BY <1>4

\* What workers have read has locations.
DataLocated == \A w \in Workers : Located(data[w])

\* Decoding and validation leave functions of locations.
LEMMA DecodedLocated ==
  /\ \A a \in Decoded : Located(a)
  /\ \A w : Located(data[w]) => Located(removeEmptyData(LongEnough(w)))
<1>1. ASSUME NEW a \in Decoded PROVE Located(a)
  <2>1. PICK b \in Answers : a = Decode(b)
    BY DEF Decoded
  <2>2. Located(b)
    BY RequestAssumption DEF Located
  <2>3. CASE isPolygon \/ b = NoData
    BY <2>1, <2>2, <2>3 DEF Decode
  <2>4. CASE ~(isPolygon \/ b = NoData)
    <3> DEFINE first == FirstLocation(b)
               all == [t \in AllTimes(b) |-> \E l \in DOMAIN b : t \in DOMAIN b[l] /\ b[l][t]]
    <3>1. a = [loc \in {first} |-> all]
      BY <2>1, <2>4, Zenon DEF Decode
    <3>2. first \in Nat
      BY <2>2, <2>4, First
    <3> HIDE DEF first, all
    <3> QED BY <3>1, <3>2 DEF Located
  <2> QED BY <2>3, <2>4
<1>2. ASSUME NEW w, Located(data[w])
      PROVE  Located(removeEmptyData(LongEnough(w)))
  <2>1. Located(LongEnough(w))
    <3>1. CASE minEnd(w) = 0
      BY <1>2, <3>1 DEF LongEnough
    <3>2. CASE minEnd(w) # 0
      <4> DEFINE D == {l \in DOMAIN data[w] : LastTime(data[w][l]) >= minEnd(w)}
      <4>1. LongEnough(w) = [loc \in D |-> data[w][loc]] /\ D \subseteq Nat
        BY <1>2, <3>2 DEF LongEnough, Located
      <4> HIDE DEF D
      <4> QED BY <4>1 DEF Located
    <3> QED BY <3>1, <3>2
  <2>2. PICK d : d = LongEnough(w)
    OBVIOUS
  <2> DEFINE valued(ts) == {t \in DOMAIN ts : ts[t]}
             D == {l \in DOMAIN d : valued(d[l]) # {}}
  <2>3. removeEmptyData(d) = [loc \in D |-> [t \in valued(d[loc]) |-> TRUE]]
    BY DEF removeEmptyData
  <2>4. D \subseteq Nat
    BY <2>1, <2>2 DEF Located
  <2> HIDE DEF D, valued
  <2>5. Located(removeEmptyData(d))
    BY <2>3, <2>4 DEF Located
  <2> QED BY <2>2, <2>5
<1> QED BY <1>1, <1>2

\* Every step keeps it.
LEMMA LocatedStep ==
  ASSUME IInv, DataLocated, [Next]_vars
  PROVE  DataLocated'
<1> USE DEF inputs, queue, reads, cursor
<1>1. UNCHANGED data => DataLocated'
  BY DEF DataLocated, Located
<1>2. CASE Manager \/ Tick \/ Over \/ UNCHANGED vars
  BY <1>1, <1>2 DEF Manager, RunRequests, Tick, Over, vars, populateThreadInfos, RunLoop,
     StartTooMany, StartThread, StartThreadFails, ConnectionRefused, ConnectionFails,
     AfterStartThreads, WaitForConnection, ThrowResourceLimit, CheckLastStarted, Decide,
     JoinWorker, JoinEnds, Failed, Merge
<1>3. ASSUME NEW w \in Workers, Worker(w)
      PROVE  DataLocated'
  <2>1. CASE UNCHANGED data
    BY <1>1, <2>1
  <2>2. CASE \E d : data' = [data EXCEPT ![w] = d] /\ Located(d)
    <3>1. PICK d : data' = [data EXCEPT ![w] = d] /\ Located(d)
      BY <2>2
    <3>2. DOMAIN data = Workers
      BY DEF IInv, Types
    <3>3. data'[w] = d /\ \A v \in Workers \ {w} : data'[v] = data[v]
      BY <3>1, <3>2
    <3> SUFFICES ASSUME NEW v \in Workers PROVE Located(data'[v])
      BY DEF DataLocated, Located
    <3>4. Located(data[v])
      BY DEF DataLocated
    <3>5. CASE v = w
      BY <3>1, <3>3, <3>5
    <3>6. CASE v # w
      <4>1. data'[v] = data[v]
        BY <3>3, <3>6
      <4> QED BY <3>4, <4>1
    <3> QED BY <3>5, <3>6
  <2>3. Perform(w) \/ PerformFails(w) => \E d \in Decoded : data' = [data EXCEPT ![w] = d]
    BY DEF Perform, PerformFails
  <2>4. Validate(w) => data' = [data EXCEPT ![w] = removeEmptyData(LongEnough(w))]
    BY DEF Validate
  <2>5. Release(w) \/ Push(w) => UNCHANGED data
    BY DEF Release, Push
  <2>6. Located(data[w])
    BY DEF DataLocated
  <2> QED BY <1>3, <2>1, <2>2, <2>3, <2>4, <2>5, <2>6, DecodedLocated DEF Worker
<1> QED BY <1>2, <1>3 DEF Next, Workers

\* mergeData has it all, and once it is returned nothing changes any more.
LEMMA LostStep ==
  ASSUME IInv, DataLocated, NothingLost, [Next]_vars
  PROVE  NothingLost'
<1> USE DEF inputs, queue, reads, cursor
<1> SUFFICES ASSUME Returned', result'.how = "ok", result'.data # NoData,
                    NEW w \in completed'
             PROVE  IF isPolygon' THEN DOMAIN data'[w] \subseteq DOMAIN result'.data
                    ELSE AllTimes(data'[w])
                           \subseteq UNION {result'.data[loc] : loc \in DOMAIN result'.data}
  BY DEF NothingLost, AllTimes
<1>1. CASE Merge
  <2>1. result'.data = mergeData /\ UNCHANGED <<isPolygon, completed, data>>
    BY <1>1 DEF Merge, Ends
  <2>2. mergeData = Merged[NRequests]
    BY <2>1 DEF mergeData
  <2>3. /\ NRequests \in Nat /\ completed \subseteq Nat \ {0}
        /\ \A v \in completed : v \in Workers /\ v <= NRequests
    BY RequestAssumption, SMTT(30) DEF IInv, Types, InOrder, NRequests, Workers
  <2>4. Has(Merged[NRequests], w)
    <3>1. \A v \in completed : Located(data[v])
      BY <2>3 DEF DataLocated
    <3> QED BY <2>1, <2>3, <3>1, MergedHas
  <2> QED BY <2>1, <2>2, <2>4 DEF Has, Everything
<1>2. CASE UNCHANGED <<isPolygon, completed, data, manager, result>>
  BY <1>2 DEF NothingLost, Returned, At
<1>3. ASSUME NEW v \in Workers, Worker(v)
      PROVE  FALSE
  <2>1. UNCHANGED <<manager, result>> /\ Alive(v)
    BY <1>3 DEF Worker, Perform, PerformFails, Validate, Release, Push, Alive
  <2>2. runningThreads = {}
    BY <2>1 DEF IInv, Quiet, Returned, At
  <2> QED BY <2>1, <2>2, NobodyRuns DEF AliveNow
<1>4. CASE populateThreadInfos
  <2>1. result'.how = "error" \/ manager' = [pc |-> "loop"]
    BY <1>4 DEF populateThreadInfos, Ends, Goto
  <2> QED BY <2>1 DEF Returned, At
<1>5. CASE RunRequests
  <2>1. CASE ThrowResourceLimit \/ Failed
    <3>1. result'.how \in {"limit", "error"}
      BY <2>1 DEF ThrowResourceLimit, Failed, Ends
    <3> QED BY <3>1
  <2>2. CASE RunLoop \/ AfterStartThreads \/ WaitForConnection \/ CheckLastStarted \/ Decide
    BY <2>2 DEF RunLoop, AfterStartThreads, WaitForConnection, CheckLastStarted, Decide,
                Goto, WaitForCompleted, Returned, At
  <2>3. CASE StartTooMany \/ StartThread \/ StartThreadFails \/ ConnectionRefused
             \/ ConnectionFails
    BY <2>3 DEF StartTooMany, StartThread, StartThreadFails, ConnectionRefused,
                ConnectionFails, Goto, WaitForCompleted, Returned, At
  <2>4. CASE JoinWorker \/ JoinEnds
    <3>1. manager \in Managers /\ manager.pc = "join"
      BY <2>4 DEF JoinWorker, JoinEnds, At, IInv, Types
    <3>2. manager.then # "returned"
      BY <3>1, Place DEF ForAll, ForOne
    <3>3. [manager EXCEPT !.n = @ + 1].pc = "join"
      BY <3>1, Place, Zenon
    <3>4. JoinWorker => manager'.pc = "join"
      BY <3>3, Zenon DEF JoinWorker
    <3>5. JoinEnds => manager'.pc = manager.then
      BY DEF JoinEnds, Goto
    <3> QED BY <2>4, <3>2, <3>4, <3>5 DEF Returned, At
  <2> QED BY <1>5, <2>1, <2>2, <2>3, <2>4 DEF RunRequests
<1>6. CASE Tick \/ Over \/ UNCHANGED vars
  BY <1>2, <1>6 DEF Tick, Over, vars
<1> QED BY <1>1, <1>3, <1>4, <1>5, <1>6 DEF Next, Manager, Workers

\* What requestData returns has all that the requests which completed have
\* read, for any number of them and in whatever order they were joined.
THEOREM MergeLosesNothing == SafeSpec => []NothingLost
<1>1. Init => DataLocated /\ NothingLost
  <2> SUFFICES ASSUME Init PROVE DataLocated /\ NothingLost
    OBVIOUS
  <2>1. Located(NoData)
    BY DEF Located, NoData
  <2>2. \A w \in Workers : data[w] = NoData
    BY DEF Init, Unread, Workers
  <2>3. result.how = "none"
    BY DEF Init
  <2> QED BY <2>1, <2>2, <2>3 DEF DataLocated, NothingLost
<1>2. IInv /\ DataLocated /\ NothingLost /\ [Next]_vars => (DataLocated /\ NothingLost)'
  BY LocatedStep, LostStep
<1> QED BY <1>1, <1>2, InitEstablishes, Invariance, PTL DEF SafeSpec

================================================================================
