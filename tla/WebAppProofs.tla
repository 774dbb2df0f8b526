------------------------------ MODULE WebAppProofs ------------------------------
(***************************************************************************)
(* Proofs about WebApp, for any number of Apache's threads, any            *)
(* configuration of requests and any urls: the data of a request belongs   *)
(* to one thread, and an abort handler to a request that is still there.   *)
(***************************************************************************)
EXTENDS WebApp, TLAPS, WellFoundedInduction

----------------------------------------------------------------------------
(* The registry                                                             *)

\* A path has handlers only.
PathOK(versions) == \A v \in DOMAIN versions : versions[v] \in Handlers

\* The same of every path of the registry.
RegistryOK(reg) == \A path \in DOMAIN reg : PathOK(reg[path])

\* There is nothing in an empty registry.
LEMMA EmptyOK == RegistryOK(Empty) /\ PathOK(Empty)
BY DEF RegistryOK, PathOK, Empty

\* What is looked up is one of the handlers, or nothing.
LEMMA FoundOK ==
  ASSUME NEW reg, RegistryOK(reg)
  PROVE  /\ \A path : PathOK(VersionsAt(reg, path))
         /\ \A path, v : findRequestHandlerPathImpl(reg, path, v) \in Handlers \cup {None}
<1>1. \A path : PathOK(VersionsAt(reg, path))
  BY EmptyOK DEF RegistryOK, VersionsAt
<1>2. ASSUME NEW path, NEW v, v \in DOMAIN VersionsAt(reg, path)
      PROVE  reg[path][v] \in Handlers
  <2>1. path \in DOMAIN reg /\ VersionsAt(reg, path) = reg[path]
    BY <1>2 DEF VersionsAt, Empty
  <2> QED BY <1>1, <1>2, <2>1 DEF PathOK
<1> QED BY <1>1, <1>2 DEF findRequestHandlerPathImpl

\* One more version on a path.
LEMMA PutOK ==
  ASSUME NEW reg, RegistryOK(reg), NEW path, NEW v, NEW h \in Handlers
  PROVE  RegistryOK(Put(reg, path, v, h))
<1> DEFINE old == VersionsAt(reg, path)
           new == [w \in DOMAIN old \cup {v} |-> IF w = v THEN h ELSE reg[path][w]]
<1>1. \A w \in DOMAIN old : old = reg[path]
  BY DEF VersionsAt, Empty
<1>2. PathOK(old)
  BY FoundOK
<1>3. PathOK(new)
  BY <1>1, <1>2 DEF PathOK
<1>4. Put(reg, path, v, h) =
        [p \in DOMAIN reg \cup {path} |-> IF p # path THEN reg[p] ELSE new]
  BY DEF Put
<1> HIDE DEF new
<1> QED BY <1>3, <1>4 DEF RegistryOK

\* addRequestHandler keeps a registry in order.
LEMMA AddOK ==
  ASSUME NEW reg, RegistryOK(reg), NEW path, NEW h \in Handlers
  PROVE  RegistryOK(addRequestHandler(reg, path, h))
BY PutOK DEF addRequestHandler

\* So does setDefaultRequestHandler.
LEMMA SetDefaultOK ==
  ASSUME NEW reg, RegistryOK(reg), NEW path, NEW v
  PROVE  RegistryOK(setDefaultRequestHandler(reg, path, v))
<1> DEFINE h == findRequestHandlerPathImpl(reg, path, v)
<1>1. h # None => h \in Handlers
  BY FoundOK
<1> HIDE DEF h
<1>2. h # None => RegistryOK(Put(reg, path, Default, h))
  BY <1>1, PutOK
<1> QED BY <1>2 DEF setDefaultRequestHandler, h

----------------------------------------------------------------------------
(* The configuration. Its two loops are recursive functions; that there are *)
(* such functions, and what they give, is shown by induction.               *)

\* A set of numbers that has any has a first.
LEMMA FirstOf ==
  ASSUME NEW T, T \subseteq Nat, T # {}
  PROVE  \E x \in T : \A y \in T : x <= y
<1>1. PICK x \in T : \A y \in T : <<y, x>> \notin OpToRel(<, Nat)
  BY WFMin, NatLessThanWellFounded, Zenon
<1>2. \A y \in T : ~(y < x)
  BY <1>1, Zenon DEF OpToRel
<1> QED BY <1>2

\* Induction over the numbers, for a set of them.
LEMMA NumberInduction ==
  ASSUME NEW S, 0 \in S, \A n \in Nat : n \in S => n + 1 \in S
  PROVE  Nat \subseteq S
<1> SUFFICES ASSUME Nat \ S # {} PROVE FALSE
  OBVIOUS
<1>1. PICK x \in Nat \ S : \A y \in Nat \ S : x <= y
  BY FirstOf, Zenon
<1>2. x - 1 \in Nat
  BY <1>1
<1> QED BY <1>1, <1>2

\* The loop over the versions of a request.
LEMMA AddedIs ==
  ASSUME NEW reg, NEW request, Len(request.versions) \in Nat
  PROVE  LET added == Added(reg, request)
         IN  /\ added[0] = reg
             /\ \A i \in 1..Len(request.versions) :
                  added[i] = AddNext(added[i - 1], request.path, request.versions[i])
<1> DEFINE Is(g, n) == g = [i \in 0..n |->
                             IF i = 0 THEN reg ELSE AddNext(g[i - 1], request.path, request.versions[i])]
           S == {n \in Nat : \E g : Is(g, n)}
<1>1. 0 \in S
  <2> DEFINE g == [i \in 0..0 |-> reg]
  <2>1. Is(g, 0)
    OBVIOUS
  <2> QED BY <2>1
<1>2. ASSUME NEW n \in Nat, n \in S
      PROVE  n + 1 \in S
  <2>1. PICK g : Is(g, n)
    BY <1>2
  <2> DEFINE k == [i \in 0..(n + 1) |->
                     IF i = n + 1 THEN AddNext(g[n], request.path, request.versions[n + 1]) ELSE g[i]]
  <2>2. \A i \in 0..n : g[i] = IF i = 0 THEN reg ELSE AddNext(g[i - 1], request.path, request.versions[i])
    BY <2>1
  <2>3. \A i \in 0..(n + 1) : k[i] = IF i = 0 THEN reg ELSE AddNext(k[i - 1], request.path, request.versions[i])
    <3> SUFFICES ASSUME NEW i \in 0..(n + 1)
                 PROVE  k[i] = IF i = 0 THEN reg ELSE AddNext(k[i - 1], request.path, request.versions[i])
      OBVIOUS
    <3>1. CASE i = n + 1
      <4>1. k[i] = AddNext(g[n], request.path, request.versions[n + 1]) /\ k[i - 1] = g[n] /\ i # 0
        BY <3>1
      <4> QED BY <3>1, <4>1
    <3>2. CASE i = 0
      BY <2>2, <3>2
    <3>3. CASE i # n + 1 /\ i # 0
      <4>1. i \in 0..n /\ i - 1 \in 0..n /\ i - 1 # n + 1
        BY <3>3
      <4>2. k[i] = g[i] /\ k[i - 1] = g[i - 1]
        BY <3>3, <4>1
      <4> QED BY <2>2, <3>3, <4>1, <4>2
    <3> QED BY <3>1, <3>2, <3>3
  <2>4. k = [i \in 0..(n + 1) |-> k[i]]
    OBVIOUS
  <2> HIDE DEF k
  <2>5. Is(k, n + 1)
    BY <2>3, <2>4
  <2> QED BY <2>5
<1> HIDE DEF S
<1>3. Len(request.versions) \in S
  BY <1>1, <1>2, NumberInduction
<1> USE DEF S
<1>4. \E g : Is(g, Len(request.versions))
  BY <1>3
<1>5. Is(Added(reg, request), Len(request.versions))
  BY <1>4, Zenon DEF Added
<1> DEFINE added == Added(reg, request)
<1>6. added[0] = reg
  BY <1>5
<1>7. ASSUME NEW i \in 1..Len(request.versions)
      PROVE  added[i] = AddNext(added[i - 1], request.path, request.versions[i])
  <2>1. i \in 0..Len(request.versions) /\ i # 0
    OBVIOUS
  <2> HIDE DEF added
  <2>2. Is(added, Len(request.versions))
    BY <1>5 DEF added
  <2> QED BY <2>1, <2>2
<1> QED BY <1>6, <1>7

\* The configuration is a list of requests with lists of handlers.
LEMMA ConfigTypes ==
  /\ Len(Config) \in Nat
  /\ \A i \in 1..Len(Config) : Config[i].versions \in Seq(Handlers)
<1> DEFINE R == [path : Seq(STRING), versions : Seq(Handlers), default : (Nat \X Nat) \cup {<<>>}]
<1>1. \A r \in R : r.versions \in Seq(Handlers)
  OBVIOUS
<1>2. Config \in Seq(R)
  BY WebAssumption, Zenon
<1> HIDE DEF R
<1> QED BY <1>1, <1>2

\* The loop over the requests of the configuration.
LEMMA RegisteredIs ==
  /\ Registered[0] = Empty
  /\ \A i \in 1..Len(Config) :
       Registered[i] = configureRequestsHandlers(Registered[i - 1], Config[i])
<1> DEFINE Is(g, n) == g = [i \in 0..n |->
                             IF i = 0 THEN Empty ELSE configureRequestsHandlers(g[i - 1], Config[i])]
           S == {n \in Nat : \E g : Is(g, n)}
<1>1. 0 \in S
  <2> DEFINE g == [i \in 0..0 |-> Empty]
  <2>1. Is(g, 0)
    OBVIOUS
  <2> QED BY <2>1
<1>2. ASSUME NEW n \in Nat, n \in S
      PROVE  n + 1 \in S
  <2>1. PICK g : Is(g, n)
    BY <1>2
  <2> DEFINE k == [i \in 0..(n + 1) |->
                     IF i = n + 1 THEN configureRequestsHandlers(g[n], Config[n + 1]) ELSE g[i]]
  <2>2. \A i \in 0..n : g[i] = IF i = 0 THEN Empty ELSE configureRequestsHandlers(g[i - 1], Config[i])
    BY <2>1
  <2>3. \A i \in 0..(n + 1) : k[i] = IF i = 0 THEN Empty ELSE configureRequestsHandlers(k[i - 1], Config[i])
    <3> SUFFICES ASSUME NEW i \in 0..(n + 1)
                 PROVE  k[i] = IF i = 0 THEN Empty ELSE configureRequestsHandlers(k[i - 1], Config[i])
      OBVIOUS
    <3>1. CASE i = n + 1
      <4>1. k[i] = configureRequestsHandlers(g[n], Config[n + 1]) /\ k[i - 1] = g[n] /\ i # 0
        BY <3>1
      <4> QED BY <3>1, <4>1
    <3>2. CASE i = 0
      BY <2>2, <3>2
    <3>3. CASE i # n + 1 /\ i # 0
      <4>1. i \in 0..n /\ i - 1 \in 0..n /\ i - 1 # n + 1
        BY <3>3
      <4>2. k[i] = g[i] /\ k[i - 1] = g[i - 1]
        BY <3>3, <4>1
      <4> QED BY <2>2, <3>3, <4>1, <4>2
    <3> QED BY <3>1, <3>2, <3>3
  <2>4. k = [i \in 0..(n + 1) |-> k[i]]
    OBVIOUS
  <2> HIDE DEF k
  <2>5. Is(k, n + 1)
    BY <2>3, <2>4
  <2> QED BY <2>5
<1> HIDE DEF S
<1>3. Len(Config) \in S
  BY <1>1, <1>2, NumberInduction, ConfigTypes
<1> USE DEF S
<1>4. \E g : Is(g, Len(Config))
  BY <1>3
<1>5. Is(Registered, Len(Config))
  BY <1>4, Zenon DEF Registered
<1> QED BY <1>5

\* A request is configured.
LEMMA RequestOK ==
  ASSUME NEW reg, RegistryOK(reg), NEW request, request.versions \in Seq(Handlers)
  PROVE  RegistryOK(configureRequestsHandlers(reg, request))
<1> DEFINE added == Added(reg, request)
           N == Len(request.versions)
           Good(n) == RegistryOK(added[n])
           S == {n \in Nat : n <= N => Good(n)}
<1>1. /\ added[0] = reg
      /\ \A i \in 1..N : added[i] = AddNext(added[i - 1], request.path, request.versions[i])
  BY AddedIs
<1> HIDE DEF added
<1>2. 0 \in S
  BY <1>1
<1>3. ASSUME NEW n \in Nat, n \in S
      PROVE  n + 1 \in S
  <2> SUFFICES ASSUME n + 1 <= N
               PROVE  Good(n + 1)
    OBVIOUS
  <2>1. Good(n) /\ request.versions[n + 1] \in Handlers
    <3> HIDE DEF Good
    <3> QED BY <1>3
  <2>2. added[n + 1] = AddNext(added[n], request.path, request.versions[n + 1])
    BY <1>1
  <2> QED BY <2>1, <2>2, AddOK DEF AddNext
<1> HIDE DEF S
<1>4. N \in S
  BY <1>2, <1>3, NumberInduction
<1>5. RegistryOK(added[N])
  <2> HIDE DEF Good
  <2>1. Good(N)
    BY <1>4 DEF S
  <2> QED BY <2>1 DEF Good
<1> QED BY <1>5, SetDefaultOK DEF configureRequestsHandlers, added

\* The registry that initAction makes is in order.
LEMMA ConfiguredOK == RegistryOK(Configured)
<1> DEFINE Good(n) == RegistryOK(Registered[n])
           S == {n \in Nat : n <= Len(Config) => Good(n)}
<1>1. 0 \in S
  BY EmptyOK, RegisteredIs
<1>2. ASSUME NEW n \in Nat, n \in S
      PROVE  n + 1 \in S
  <2> SUFFICES ASSUME n + 1 <= Len(Config)
               PROVE  Good(n + 1)
    OBVIOUS
  <2>1. Good(n)
    <3> HIDE DEF Good
    <3> QED BY <1>2, ConfigTypes
  <2>2. Registered[n + 1] = configureRequestsHandlers(Registered[n], Config[n + 1])
    BY RegisteredIs, ConfigTypes
  <2>3. Config[n + 1].versions \in Seq(Handlers)
    BY ConfigTypes
  <2> QED BY <2>1, <2>2, <2>3, RequestOK
<1> HIDE DEF S
<1>3. Len(Config) \in S
  BY <1>1, <1>2, NumberInduction, ConfigTypes
<1> HIDE DEF Good
<1>4. Good(Len(Config))
  BY <1>3, ConfigTypes DEF S
<1> QED BY <1>4 DEF Configured, Good

----------------------------------------------------------------------------
(* The inductive invariant                                                  *)

Statuses == Outcomes \cup {"SERVICE_UNAVAILABLE", "INTERNAL_ERROR", "INVALID_PATH", "NOT_FOUND"}

\* Where a thread serves a request.
InRequest == {"get", "altitude", "cleanup"}

ThreadStates ==
  {Idle}
  \cup [pc : {"get", "altitude"}, handler : Handlers]
  \cup [pc : {"cleanup"}, status : Statuses]
  \cup [pc : {"answer"}, http : {HttpStatus(status) : status \in Statuses}]

\* What the variables may be.
Types ==
  /\ thread \in [Threads -> ThreadStates]
  /\ threadData \in [Threads -> ThreadData \cup {None}]
  /\ aborted \in [Threads -> BOOLEAN]
  /\ nextId \in 1..(MaxIds + 1)
  /\ deleted \in [1..MaxIds -> Nat]
  /\ DOMAIN handlerMap \subseteq 1..(nextId - 1)

\* The data of a thread is that of the request it serves.
OwnData(s, d) ==
  /\ d # None <=> s.pc \in InRequest
  /\ s.pc \in {"get", "altitude"} => d.handler = s.handler

\* An abort handler in the map is in the list of its request, and has not been
\* deleted; one that was made and is not in the map has been, once.
Registrations ==
  /\ \A id \in DOMAIN handlerMap :
       /\ handlerMap[id] \in Threads
       /\ threadData[handlerMap[id]] # None
       /\ id \in threadData[handlerMap[id]].idList
  /\ \A id \in 1..MaxIds :
       deleted[id] = IF id \in 1..(nextId - 1) \ DOMAIN handlerMap THEN 1 ELSE 0

\* The inductive invariant.
IInv ==
  /\ Types
  /\ RegistryOK(handlers)
  /\ dangling = 0
  /\ \A t \in Threads : OwnData(thread[t], threadData[t])
  /\ Registrations

\* What the states of a thread say of their fields.
LEMMA Shape ==
  ASSUME NEW s \in ThreadStates
  PROVE  /\ s.pc \in {"idle", "get", "altitude", "cleanup", "answer"}
         /\ s.pc \in {"get", "altitude"} =>
              /\ s.handler \in Handlers
              /\ \A pc \in {"get", "altitude"} :
                   [s EXCEPT !.pc = pc] = [pc |-> pc, handler |-> s.handler]
         /\ s.pc = "cleanup" => s.status \in Statuses
<1>1. CASE s = Idle
  BY <1>1 DEF Idle
<1>2. CASE s \in [pc : {"get", "altitude"}, handler : Handlers]
  BY <1>2
<1>3. CASE s \in [pc : {"cleanup"}, status : Statuses]
  BY <1>3
<1>4. CASE s \in [pc : {"answer"}, http : {HttpStatus(status) : status \in Statuses}]
  BY <1>4
<1> QED BY <1>1, <1>2, <1>3, <1>4 DEF ThreadStates

\* The states a thread goes to.
LEMMA NewStates ==
  /\ Idle \in ThreadStates /\ Idle.pc = "idle"
  /\ \A h \in Handlers, pc \in {"get", "altitude"} : [pc |-> pc, handler |-> h] \in ThreadStates
  /\ \A status \in Statuses : [pc |-> "cleanup", status |-> status] \in ThreadStates
  /\ \A status \in Statuses : [pc |-> "answer", http |-> HttpStatus(status)] \in ThreadStates
BY DEF ThreadStates, Idle

\* No thread and no entry, and nothing registered.
LEMMA InitEstablishes == Init => IInv
<1> SUFFICES ASSUME Init PROVE IInv
  OBVIOUS
<1>1. Types
  BY NewStates, WebAssumption DEF Init, Types, Empty
<1>2. RegistryOK(handlers)
  BY EmptyOK DEF Init
<1>3. \A t \in Threads : OwnData(thread[t], threadData[t])
  BY NewStates DEF Init, OwnData, InRequest
<1>4. Registrations
  BY WebAssumption DEF Init, Registrations, Empty
<1> QED BY <1>1, <1>2, <1>3, <1>4 DEF IInv, Init

----------------------------------------------------------------------------
(* The steps                                                                *)

\* A thread goes on with the data it has, or without.
LEMMA MoveStep ==
  ASSUME IInv, NEW t \in Threads, NEW rec \in ThreadStates,
         thread' = [thread EXCEPT ![t] = rec], OwnData(rec, threadData[t]),
         UNCHANGED <<handlers, threadData, dangling, aborted, abortVars>>
  PROVE  IInv'
<1>1. Types' /\ RegistryOK(handlers)' /\ dangling' = 0
  BY DEF IInv, Types, abortVars, RegistryOK, PathOK
<1>2. Registrations'
  BY DEF IInv, Registrations, abortVars
<1>3. ASSUME NEW u \in Threads PROVE OwnData(thread'[u], threadData'[u])
  <2>1. thread'[u] = IF u = t THEN rec ELSE thread[u]
    BY DEF IInv, Types
  <2> QED BY <2>1 DEF IInv
<1> QED BY <1>1, <1>2, <1>3 DEF IInv, OwnData

\* The steps of a request that leave its data and its abort handlers alone.
LEMMA RequestStep ==
  ASSUME IInv, NEW t \in Threads,
         \/ \E url \in Urls : dispatchFails(t, url)
         \/ getHight(t) \/ altitude(t) \/ newWciConnection(t) \/ getReturns(t) \/ flush(t)
  PROVE  IInv'
<1> DEFINE s == thread[t]
           d == threadData[t]
<1>1. s \in ThreadStates /\ OwnData(s, d) /\ Idle.pc = "idle"
  BY NewStates DEF IInv, Types
<1>2. UNCHANGED <<handlers, threadData, dangling, aborted, abortVars>>
  BY DEF dispatchFails, getHight, altitude, newWciConnection, getReturns, flush, registryVars
<1>3. ASSUME NEW rec \in ThreadStates, thread' = [thread EXCEPT ![t] = rec], OwnData(rec, d)
      PROVE  IInv'
  BY <1>2, <1>3, MoveStep
<1>4. ASSUME NEW status \in Statuses, thread' = [thread EXCEPT ![t] = [pc |-> "cleanup", status |-> status]],
             s.pc = "get"
      PROVE  IInv'
  <2> DEFINE rec == [pc |-> "cleanup", status |-> status]
  <2>1. rec \in ThreadStates /\ OwnData(rec, d)
    BY <1>1, <1>4, NewStates DEF OwnData, InRequest
  <2> QED BY <1>3, <1>4, <2>1
<1>5. CASE \E url \in Urls : dispatchFails(t, url)
  <2>1. PICK status \in Statuses : Answer(t, status)
    BY <1>5 DEF dispatchFails, Statuses
  <2> DEFINE rec == [pc |-> "answer", http |-> HttpStatus(status)]
  <2>2. s = Idle
    BY <1>5 DEF dispatchFails
  <2>3. rec \in ThreadStates /\ OwnData(rec, d)
    BY <1>1, <2>2, NewStates DEF OwnData, InRequest
  <2> QED BY <1>3, <2>1, <2>3 DEF Answer
<1>6. CASE getHight(t) \/ altitude(t)
  <2>1. CASE \E pc \in {"get", "altitude"} : thread' = [thread EXCEPT ![t].pc = pc]
    <3>1. PICK pc \in {"get", "altitude"} : thread' = [thread EXCEPT ![t].pc = pc]
      BY <2>1
    <3>2. s.pc \in {"get", "altitude"}
      BY <1>6 DEF getHight, altitude, InGet
    <3> DEFINE rec == [pc |-> pc, handler |-> s.handler]
    <3>3. s.handler \in Handlers /\ [s EXCEPT !.pc = pc] = rec
      BY <1>1, <3>2, Shape
    <3>4. thread' = [thread EXCEPT ![t] = rec]
      BY <3>1, <3>3
    <3>5. rec \in ThreadStates /\ OwnData(rec, d)
      BY <1>1, <3>2, <3>3, NewStates DEF OwnData, InRequest
    <3> QED BY <1>3, <3>4, <3>5
  <2>2. CASE thread' = [thread EXCEPT ![t] = [pc |-> "cleanup", status |-> "SERVICE_UNAVAILABLE"]]
             /\ s.pc = "get"
    BY <1>4, <2>2 DEF Statuses
  <2> QED BY <1>6, <2>1, <2>2 DEF getHight, altitude, InGet
<1>7. CASE newWciConnection(t)
  <2>1. CASE thread' = [thread EXCEPT ![t] = [pc |-> "cleanup", status |-> "INTERNAL_ERROR"]]
    BY <1>4, <1>7, <2>1 DEF Statuses, newWciConnection, InGet
  <2>2. CASE thread' = thread
    <3>1. thread' = [thread EXCEPT ![t] = s]
      BY <2>2 DEF IInv, Types
    <3> HIDE DEF s
    <3> QED BY <1>1, <1>3, <3>1
  <2> QED BY <1>7, <2>1, <2>2 DEF newWciConnection
<1>8. CASE getReturns(t)
  BY <1>4, <1>8 DEF getReturns, InGet, Statuses
<1>9. CASE flush(t)
  <2>1. OwnData(Idle, d)
    BY <1>1, <1>9 DEF flush, OwnData, InRequest
  <2> QED BY <1>3, <1>9, <2>1, NewStates DEF flush
<1> QED BY <1>5, <1>6, <1>7, <1>8, <1>9

\* The steps no request takes: the child starts and stops, the map is loaded,
\* a client leaves.
LEMMA OtherStep ==
  ASSUME IInv, init \/ onShutdown \/ MapLoader \/ \E t \in Threads : clientLeaves(t)
  PROVE  IInv'
<1>1. UNCHANGED <<thread, threadData, dangling, abortVars>> /\ aborted' \in [Threads -> BOOLEAN]
  BY DEF init, onShutdown, MapLoader, clientLeaves, IInv, Types
<1>2. RegistryOK(handlers')
  <2>1. CASE init
    BY <2>1, ConfiguredOK DEF init, initAction
  <2>3. CASE onShutdown \/ MapLoader \/ \E t \in Threads : clientLeaves(t)
    BY <2>3 DEF onShutdown, MapLoader, clientLeaves, registryVars, IInv
  <2> QED BY <2>1, <2>3
<1>3. RegistryOK(handlers)'
  BY <1>2 DEF RegistryOK, PathOK
<1> QED BY <1>1, <1>3 DEF IInv, Types, OwnData, Registrations, abortVars

\* A request begins.
LEMMA DispatchStep ==
  ASSUME IInv, NEW t \in Threads, NEW url \in Urls, dispatch(t, url)
  PROVE  IInv'
<1>1. PICK h \in Handlers :
        /\ prepareThreadData(t, h)
        /\ thread' = [thread EXCEPT ![t] = [pc |-> "get", handler |-> h]]
  <2> DEFINE h == findRequestHandlerPath(handlers, url)
  <2>1. h # None /\ prepareThreadData(t, h)
        /\ thread' = [thread EXCEPT ![t] = [pc |-> "get", handler |-> h]]
    BY DEF dispatch
  <2>2. h \in Handlers \cup {None}
    BY FoundOK DEF IInv, findRequestHandlerPath
  <2> HIDE DEF h
  <2> QED BY <2>1, <2>2
<1>2. thread[t] = Idle /\ threadData[t] = None
  BY NewStates DEF dispatch, IInv, OwnData, InRequest
<1>3. /\ UNCHANGED <<handlers, aborted, abortVars>>
      /\ dangling' = 0
      /\ threadData' = [threadData EXCEPT ![t] = [handler |-> h, idList |-> {}]]
  <2>1. UNCHANGED <<handlers, aborted, abortVars>>
    BY DEF dispatch, registryVars
  <2>2. dangling = 0
    BY DEF IInv
  <2> QED BY <1>1, <1>2, <2>1, <2>2 DEF prepareThreadData
<1> DEFINE d == [handler |-> h, idList |-> {}]
<1>4. d \in ThreadData /\ d # None
  BY WebAssumption DEF ThreadData
<1>5. Types' /\ RegistryOK(handlers)'
  BY <1>1, <1>3, <1>4, NewStates DEF IInv, Types, RegistryOK, PathOK, abortVars
<1>6. ASSUME NEW u \in Threads PROVE OwnData(thread'[u], threadData'[u])
  <2>1. CASE u = t
    <3>1. thread'[u] = [pc |-> "get", handler |-> h] /\ threadData'[u] = d
      BY <1>1, <1>3, <2>1 DEF IInv, Types
    <3> QED BY <1>4, <3>1 DEF OwnData, InRequest
  <2>2. CASE u # t
    <3>1. thread'[u] = thread[u] /\ threadData'[u] = threadData[u]
      BY <1>1, <1>3, <2>2 DEF IInv, Types
    <3> QED BY <3>1 DEF IInv
  <2> QED BY <2>1, <2>2
<1>7. Registrations'
  <2>1. \A id \in DOMAIN handlerMap : handlerMap[id] # t
    BY <1>2 DEF IInv, Registrations
  <2>2. \A u \in Threads : u # t => threadData'[u] = threadData[u]
    BY <1>3 DEF IInv, Types
  <2> QED BY <1>3, <2>1, <2>2 DEF IInv, Registrations, abortVars
<1> QED BY <1>3, <1>5, <1>6, <1>7 DEF IInv, OwnData

\* What taking entries out of the map does to the book-keeping.
LEMMA DiscardKeeps ==
  ASSUME IInv, NEW ids, Discard(ids), nextId' = nextId
  PROVE  /\ DOMAIN handlerMap' = DOMAIN handlerMap \ ids
         /\ \A id \in DOMAIN handlerMap' : handlerMap'[id] = handlerMap[id]
         /\ deleted' \in [1..MaxIds -> Nat]
         /\ DOMAIN handlerMap' \subseteq 1..(nextId' - 1)
         /\ \A id \in 1..MaxIds :
              deleted'[id] = IF id \in 1..(nextId' - 1) \ DOMAIN handlerMap' THEN 1 ELSE 0
<1>1. /\ DOMAIN handlerMap' = DOMAIN handlerMap \ ids
      /\ \A id \in DOMAIN handlerMap' : handlerMap'[id] = handlerMap[id]
  BY DEF Discard, Restrict
<1>2. /\ deleted \in [1..MaxIds -> Nat] /\ DOMAIN handlerMap \subseteq 1..(nextId - 1)
      /\ \A id \in 1..MaxIds :
           deleted[id] = IF id \in 1..(nextId - 1) \ DOMAIN handlerMap THEN 1 ELSE 0
  BY DEF IInv, Types, Registrations
<1>3. deleted' = [i \in 1..MaxIds |->
                    deleted[i] + (IF i \in ids \cap DOMAIN handlerMap THEN 1 ELSE 0)]
  BY <1>2 DEF Discard
<1>4. \A id \in 1..MaxIds :
        deleted'[id] = deleted[id] + (IF id \in ids \cap DOMAIN handlerMap THEN 1 ELSE 0)
  BY <1>3
<1>5. ASSUME NEW id \in 1..MaxIds
      PROVE  deleted'[id] = IF id \in 1..(nextId' - 1) \ DOMAIN handlerMap' THEN 1 ELSE 0
  <2>1. CASE id \in ids \cap DOMAIN handlerMap
    <3>1. id \in 1..(nextId - 1) /\ id \notin DOMAIN handlerMap'
      BY <1>1, <1>2, <2>1
    <3>2. deleted[id] = 0
      BY <1>2, <2>1
    <3> QED BY <1>4, <2>1, <3>1, <3>2
  <2>2. CASE id \notin ids \cap DOMAIN handlerMap
    <3>1. id \in DOMAIN handlerMap <=> id \in DOMAIN handlerMap'
      BY <1>1, <2>2
    <3>2. deleted[id] \in Nat /\ deleted'[id] = deleted[id] + 0
      BY <1>2, <1>4, <2>2
    <3> QED BY <1>2, <3>1, <3>2
  <2> QED BY <2>1, <2>2
<1>6. deleted' \in [1..MaxIds -> Nat]
  BY <1>2, <1>3
<1> QED BY <1>1, <1>2, <1>5, <1>6

\* The checking thread takes the entries of lost clients.
LEMMA CheckStep == ASSUME IInv, checkAboretedConnections PROVE IInv'
<1>1. PICK lost : Discard(lost)
  BY DEF checkAboretedConnections
<1>2. UNCHANGED <<handlers, thread, threadData, dangling, aborted, nextId>>
  BY DEF checkAboretedConnections, registryVars
<1>3. Registrations'
  BY <1>1, <1>2, DiscardKeeps DEF IInv, Registrations
<1>4. Types'
  BY <1>1, <1>2, DiscardKeeps DEF IInv, Types
<1> QED BY <1>2, <1>3, <1>4 DEF IInv, RegistryOK, PathOK, OwnData

\* A request has an abort handler registered.
LEMMA RegisterStep == ASSUME IInv, NEW t \in Threads, registerAbortHandler(t) PROVE IInv'
<1> DEFINE d == threadData[t]
           e == [d EXCEPT !.idList = @ \cup {nextId}]
<1>1. thread[t].pc = "get" /\ nextId \in 1..MaxIds /\ nextId' = nextId + 1 /\ MaxIds \in Nat
  BY WebAssumption DEF registerAbortHandler, InGet, IInv, Types
<1>2. d \in ThreadData
  BY <1>1 DEF IInv, Types, OwnData, InRequest
<1>3. /\ e \in ThreadData /\ e # None /\ e.handler = d.handler
      /\ e.idList = d.idList \cup {nextId}
  BY <1>1, <1>2, WebAssumption, SMTT(30) DEF ThreadData
<1>4. threadData' = [threadData EXCEPT ![t] = e]
  BY DEF registerAbortHandler
<1> HIDE DEF e
<1>5. \A u \in Threads : threadData'[u] = IF u = t THEN e ELSE threadData[u]
  BY <1>4 DEF IInv, Types
<1>6. UNCHANGED <<handlers, thread, dangling, aborted, deleted>>
  BY DEF registerAbortHandler, registryVars
<1>7. /\ DOMAIN handlerMap' = DOMAIN handlerMap \cup {nextId}
      /\ handlerMap'[nextId] = t
      /\ \A id \in DOMAIN handlerMap : id # nextId => handlerMap'[id] = handlerMap[id]
  BY DEF registerAbortHandler
<1>8. DOMAIN handlerMap \subseteq 1..(nextId - 1)
  BY DEF IInv, Types
<1>9. Types'
  BY <1>1, <1>3, <1>4, <1>6, <1>7, <1>8 DEF IInv, Types
<1>10. ASSUME NEW u \in Threads PROVE OwnData(thread'[u], threadData'[u])
  <2>1. OwnData(thread[u], threadData[u])
    BY DEF IInv
  <2>2. CASE u = t
    BY <1>1, <1>3, <1>5, <1>6, <2>1, <2>2 DEF OwnData, InRequest
  <2> QED BY <1>5, <1>6, <2>1, <2>2
<1>11. Registrations'
  <2>1. ASSUME NEW id \in DOMAIN handlerMap'
        PROVE  /\ handlerMap'[id] \in Threads
               /\ threadData'[handlerMap'[id]] # None
               /\ id \in threadData'[handlerMap'[id]].idList
    <3>1. CASE id = nextId
      BY <1>3, <1>5, <1>7, <3>1
    <3>2. CASE id \in DOMAIN handlerMap /\ id # nextId
      <4>1. /\ handlerMap'[id] = handlerMap[id] /\ handlerMap[id] \in Threads
            /\ threadData[handlerMap[id]] # None /\ id \in threadData[handlerMap[id]].idList
        BY <1>7, <3>2 DEF IInv, Registrations
      <4> QED BY <1>3, <1>5, <4>1
    <3> QED BY <1>7, <3>1, <3>2
  <2>2. ASSUME NEW id \in 1..MaxIds
        PROVE  deleted'[id] = IF id \in 1..(nextId' - 1) \ DOMAIN handlerMap' THEN 1 ELSE 0
    <3>1. deleted'[id] = IF id \in 1..(nextId - 1) \ DOMAIN handlerMap THEN 1 ELSE 0
      BY <1>6 DEF IInv, Registrations
    <3>2. id \in 1..(nextId - 1) \ DOMAIN handlerMap <=> id \in 1..(nextId' - 1) \ DOMAIN handlerMap'
      BY <1>1, <1>7
    <3> QED BY <3>1, <3>2
  <2> QED BY <2>1, <2>2 DEF Registrations
<1> QED BY <1>6, <1>9, <1>10, <1>11 DEF IInv, RegistryOK, PathOK, OwnData

\* A request takes one of its abort handlers back.
LEMMA RemoveStep ==
  ASSUME IInv, NEW t \in Threads, NEW id \in 1..MaxIds, removeAbortHandler(t, id)
  PROVE  IInv'
<1> DEFINE d == threadData[t]
           e == [d EXCEPT !.idList = @ \ {id}]
<1>1. /\ thread[t].pc = "get" /\ Discard({id})
      /\ UNCHANGED <<handlers, thread, dangling, aborted, nextId>>
  BY DEF removeAbortHandler, InGet, registryVars
<1>2. d \in ThreadData
  BY <1>1 DEF IInv, Types, OwnData, InRequest
<1>3. /\ e \in ThreadData /\ e # None /\ e.handler = d.handler
      /\ e.idList = d.idList \ {id}
  BY <1>2, WebAssumption DEF ThreadData
<1>4. threadData' = [threadData EXCEPT ![t] = e]
  BY DEF removeAbortHandler
<1> HIDE DEF e
<1>5. \A u \in Threads : threadData'[u] = IF u = t THEN e ELSE threadData[u]
  BY <1>4 DEF IInv, Types
<1>6. Types'
  BY <1>1, <1>3, <1>4, DiscardKeeps DEF IInv, Types
<1>7. ASSUME NEW u \in Threads PROVE OwnData(thread'[u], threadData'[u])
  <2>1. OwnData(thread[u], threadData[u])
    BY DEF IInv
  <2>2. CASE u = t
    BY <1>1, <1>3, <1>5, <2>1, <2>2 DEF OwnData, InRequest
  <2> QED BY <1>1, <1>5, <2>1, <2>2
<1>8. Registrations'
  <2>1. ASSUME NEW i \in DOMAIN handlerMap'
        PROVE  /\ handlerMap'[i] \in Threads
               /\ threadData'[handlerMap'[i]] # None
               /\ i \in threadData'[handlerMap'[i]].idList
    <3>a. /\ DOMAIN handlerMap' = DOMAIN handlerMap \ {id}
          /\ \A j \in DOMAIN handlerMap' : handlerMap'[j] = handlerMap[j]
      BY <1>1, DiscardKeeps
    <3>1. i \in DOMAIN handlerMap /\ i # id /\ handlerMap'[i] = handlerMap[i]
      BY <3>a
    <3>2. /\ handlerMap[i] \in Threads
          /\ threadData[handlerMap[i]] # None /\ i \in threadData[handlerMap[i]].idList
      BY <3>1 DEF IInv, Registrations
    <3> QED BY <1>3, <1>5, <3>1, <3>2
  <2> QED BY <1>1, <2>1, DiscardKeeps DEF Registrations
<1> QED BY <1>1, <1>6, <1>7, <1>8 DEF IInv, RegistryOK, PathOK, OwnData

\* A request ends, and its abort handlers with it.
LEMMA CleanupStep == ASSUME IInv, NEW t \in Threads, cleanupThreadData(t) PROVE IInv'
<1> DEFINE ids == threadData[t].idList
           rec == [pc |-> "answer", http |-> HttpStatus(thread[t].status)]
<1>1. /\ thread[t].pc = "cleanup" /\ Discard(ids)
      /\ thread' = [thread EXCEPT ![t] = rec]
      /\ threadData' = [threadData EXCEPT ![t] = None]
      /\ aborted' = [aborted EXCEPT ![t] = FALSE]
      /\ UNCHANGED <<handlers, dangling, nextId>>
  BY DEF cleanupThreadData, removeAllAbortHandler, Answer, registryVars
<1>2. thread[t].status \in Statuses
  BY <1>1, Shape DEF IInv, Types
<1>3. rec \in ThreadStates /\ rec.pc = "answer"
  BY <1>2, NewStates
<1> HIDE DEF rec
<1>4. \A u \in Threads : /\ thread'[u] = IF u = t THEN rec ELSE thread[u]
                         /\ threadData'[u] = IF u = t THEN None ELSE threadData[u]
  BY <1>1 DEF IInv, Types
<1>5. Types'
  BY <1>1, <1>3, DiscardKeeps DEF IInv, Types
<1>6. ASSUME NEW u \in Threads PROVE OwnData(thread'[u], threadData'[u])
  BY <1>3, <1>4 DEF IInv, OwnData, InRequest
<1>7. Registrations'
  <2>1. ASSUME NEW i \in DOMAIN handlerMap'
        PROVE  /\ handlerMap'[i] \in Threads
               /\ threadData'[handlerMap'[i]] # None
               /\ i \in threadData'[handlerMap'[i]].idList
    <3>a. /\ DOMAIN handlerMap' = DOMAIN handlerMap \ ids
          /\ \A j \in DOMAIN handlerMap' : handlerMap'[j] = handlerMap[j]
      BY <1>1, DiscardKeeps
    <3>1. i \in DOMAIN handlerMap /\ i \notin ids /\ handlerMap'[i] = handlerMap[i]
      BY <3>a
    <3>2. /\ handlerMap[i] \in Threads
          /\ threadData[handlerMap[i]] # None /\ i \in threadData[handlerMap[i]].idList
      BY <3>1 DEF IInv, Registrations
    <3>3. handlerMap[i] # t
      BY <3>1, <3>2
    <3> QED BY <1>4, <3>1, <3>2, <3>3
  <2> QED BY <1>1, <2>1, DiscardKeeps DEF Registrations
<1> QED BY <1>1, <1>5, <1>6, <1>7 DEF IInv, RegistryOK, PathOK, OwnData

----------------------------------------------------------------------------
(* The theorems                                                             *)

\* The invariant is inductive.
LEMMA Invariance == Spec => []IInv
<1>1. IInv /\ [Next]_vars => IInv'
  <2> SUFFICES ASSUME IInv, [Next]_vars PROVE IInv'
    OBVIOUS
  <2>1. CASE init \/ onShutdown \/ MapLoader
    BY <2>1, OtherStep
  <2>2. CASE checkAboretedConnections
    BY <2>2, CheckStep
  <2>3. ASSUME NEW t \in Threads,
               \/ \E url \in Urls : dispatchFails(t, url) \/ dispatch(t, url)
               \/ Request(t)
               \/ clientLeaves(t)
               \/ registerAbortHandler(t)
               \/ \E id \in 1..MaxIds : removeAbortHandler(t, id)
        PROVE  IInv'
    <3>1. CASE \E url \in Urls : dispatch(t, url)
      BY <3>1, DispatchStep
    <3>2. CASE (\E url \in Urls : dispatchFails(t, url)) \/ Request(t)
      BY <3>2, RequestStep, CleanupStep DEF Request
    <3>3. CASE clientLeaves(t)
      BY <3>3, OtherStep
    <3>4. CASE registerAbortHandler(t) \/ \E id \in 1..MaxIds : removeAbortHandler(t, id)
      BY <3>4, RegisterStep, RemoveStep
    <3> QED BY <2>3, <3>1, <3>2, <3>3, <3>4
  <2>4. CASE UNCHANGED vars
    BY <2>4 DEF vars, IInv, Types, RegistryOK, PathOK, OwnData, Registrations
  <2> QED BY <2>1, <2>2, <2>3, <2>4 DEF Next
<1> QED BY <1>1, InitEstablishes, PTL DEF Spec

\* prepareThreadData never finds data of an earlier request: a thread has data
\* exactly while it serves, and of the handler that serves.
THEOREM DataIsOwn == Spec => []ThreadDataIsOwn
<1>1. IInv => ThreadDataIsOwn
  BY DEF IInv, OwnData, InRequest, InGet, ThreadDataIsOwn
<1> QED BY <1>1, Invariance, PTL

\* The checking thread never follows the pointer of a request that is gone,
\* and an abort handler is deleted once, whoever comes first.
THEOREM AbortHandlersLive == Spec => []AbortHandlersOfLiveRequests
<1>1. IInv => AbortHandlersOfLiveRequests
  <2> SUFFICES ASSUME IInv PROVE AbortHandlersOfLiveRequests
    OBVIOUS
  <2>1. ASSUME NEW id \in 1..nextId - 1
        PROVE  deleted[id] = IF id \in DOMAIN handlerMap THEN 0 ELSE 1
    <3>1. id \in 1..MaxIds
      BY WebAssumption DEF IInv, Types
    <3> QED BY <3>1 DEF IInv, Registrations
  <2> QED BY <2>1 DEF IInv, Registrations, AbortHandlersOfLiveRequests
<1> QED BY <1>1, Invariance, PTL

================================================================================
