--------------------------------- MODULE WebApp ---------------------------------
(* One Apache child with the wdb2ts module: webFW's request framework       *)
(* (webFW/App.cpp, RequestHandler.cpp, DefaultRequestHandlerManager.cpp,    *)
(* RequestHandlerManager.cpp, ApacheAbortHandlerManager.cpp, macros.h) and  *)
(* the application object on top of it (mod_wdb2ts/wdb2TsApp.cpp,           *)
(* MapLoader.cpp).                                                          *)
(*                                                                          *)
(* Three kinds of threads meet here: Apache's threads, which serve          *)
(* requests; the thread that loads the height map; and the thread that      *)
(* every 15 seconds looks for connections the client has left. Apache's     *)
(* child_init and the clean-up of the child's pool are external.            *)
EXTENDS Integers, Sequences, FiniteSets, Functions

CONSTANTS
  Threads,    \* Apache's threads
  Config,     \* the configured requests: see configureRequestsHandlers
  Urls,       \* the paths clients ask for
  Outcomes,   \* the statuses a handler may leave in the response
  None,
  MaxIds      \* bound: abort handlers registered in all

\* A configured handler, with its version: is its action known?
Handlers == [version : Nat \X Nat, known : BOOLEAN]

\* What a thread has of its own while it serves a request.
ThreadData == [handler : Handlers, idList : SUBSET (1..MaxIds)]

ASSUME WebAssumption ==
  /\ Config \in Seq([path : Seq(STRING), versions : Seq(Handlers),
                     default : (Nat \X Nat) \cup {<<>>}])
  /\ MaxIds \in Nat
  /\ None \notin Handlers \cup ThreadData

VARIABLES
  isInitialized, \* App::isInitialized_
  handlers,      \* the registry: handlers[path][version]
  thread,        \* what each of Apache's threads does
  threadData,    \* threadDataTSS: the thread's own data
  dangling,      \* ThreadData released with nobody to delete it
  aborted,       \* has the client of the request under way gone?
  handlerMap,    \* registered abort handlers: id -> the thread of the request
  nextId,
  deleted,       \* how often each abort handler has been deleted
  hightMap,      \* is the map there?
  inInitHightMap,
  dbManager      \* None, "enabled", "disabled"

vars == <<isInitialized, handlers, thread, threadData, dangling, aborted,
          handlerMap, nextId, deleted, hightMap, inInitHightMap, dbManager>>

registryVars == <<isInitialized, handlers>>
abortVars == <<handlerMap, nextId, deleted>>
appVars == <<hightMap, inInitHightMap, dbManager>>

----------------------------------------------------------------------------
(* The registry. A version is a pair, <<0, 0>> the default; a path is the   *)
(* sequence of its parts, and a url a path, perhaps with a version after it *)
(* or a slash.                                                              *)

Default == <<0, 0>>
NoVersion == <<>>
NotAVersion == <<"1.V">>
Empty == [x \in {} |-> None]

VersionsAt(reg, path) == IF path \in DOMAIN reg THEN reg[path] ELSE Empty

\* findRequestHandlerPathImpl.
findRequestHandlerPathImpl(reg, path, version) ==
  IF version \in DOMAIN VersionsAt(reg, path) THEN reg[path][version] ELSE None

Put(reg, path, version, handler) ==
  [p \in DOMAIN reg \cup {path} |->
     IF p # path THEN reg[p]
     ELSE [v \in DOMAIN VersionsAt(reg, path) \cup {version} |->
             IF v = version THEN handler ELSE reg[path][v]]]

\* addRequestHandler: the first handler of a version stays.
addRequestHandler(reg, path, handler) ==
  IF handler.version \in DOMAIN VersionsAt(reg, path) THEN reg
  ELSE Put(reg, path, handler.version, handler)

\* setDefaultRequestHandler: an existing default stays. The code looks the
\* handler up and takes the lock again to set it. Only initAction calls it,
\* when no other thread uses the registry, so that the two are one step here.
setDefaultRequestHandler(reg, path, version) ==
  LET handler == findRequestHandlerPathImpl(reg, path, version)
  IN IF handler = None \/ Default \in DOMAIN VersionsAt(reg, path) THEN reg
     ELSE Put(reg, path, Default, handler)

\* decodePath: a last part that begins with a digit is the version, unless a
\* slash follows it, and then it is a part like any other.
decodePath(url) ==
  CASE url.version = NoVersion -> [path |-> url.parts, version |-> Default]
    [] url.slash -> [path |-> Append(url.parts, "version"), version |-> Default]
    [] OTHER -> [path |-> url.parts, version |-> url.version]

\* findRequestHandlerPath: the parts in front are taken away one by one until
\* a handler is found; what is registered at "/" answers "/" alone.
findRequestHandlerPath(reg, url) ==
  LET asked == decodePath(url)
      n == Len(asked.path)
      found(i) == findRequestHandlerPathImpl(reg, SubSeq(asked.path, i, n), asked.version)
      hits == {i \in 1..(IF n = 0 THEN 1 ELSE n) : found(i) # None}
  IN IF hits = {} THEN None ELSE found(CHOOSE i \in hits : \A j \in hits : i <= j)

\* A version such as "1.V" makes the path invalid before it is looked up.
InvalidPath(url) == url.version = NotAVersion /\ ~url.slash

\* configureRequestsHandlers, in the order of the configuration: each version
\* with a known action is added, and the default is set last.
AddNext(before, path, handler) ==
  IF handler.known THEN addRequestHandler(before, path, handler) ELSE before

Added(reg, request) ==
  LET added[i \in 0..Len(request.versions)] ==
        IF i = 0 THEN reg ELSE AddNext(added[i - 1], request.path, request.versions[i])
  IN added

configureRequestsHandlers(reg, request) ==
  LET all == Added(reg, request)[Len(request.versions)]
  IN IF request.default = NoVersion THEN all
     ELSE setDefaultRequestHandler(all, request.path, request.default)

Registered[i \in 0..Len(Config)] ==
  IF i = 0 THEN Empty ELSE configureRequestsHandlers(Registered[i - 1], Config[i])

Configured == Registered[Len(Config)]

----------------------------------------------------------------------------
(* Starting and stopping the child                                          *)

Idle == [pc |-> "idle"]

Init ==
  /\ isInitialized = FALSE
  /\ handlers = Empty
  /\ thread = [t \in Threads |-> Idle]
  /\ threadData = [t \in Threads |-> None]
  /\ dangling = 0
  /\ aborted = [t \in Threads |-> FALSE]
  /\ handlerMap = Empty
  /\ nextId = 1
  /\ deleted = [i \in 1..MaxIds |-> 0]
  /\ hightMap = FALSE
  /\ inInitHightMap = FALSE
  /\ dbManager = None

\* initHightMap starts the thread that loads the map, once.
initHightMap ==
  inInitHightMap' = (inInitHightMap \/ ~hightMap)

\* child_init: App::init calls Wdb2TsApp::initAction, once, which starts the
\* loading of the map and reads the configuration.
initAction ==
  /\ initHightMap
  /\ handlers' = Configured

init ==
  /\ ~isInitialized
  /\ isInitialized' = TRUE
  /\ initAction
  /\ UNCHANGED <<thread, threadData, dangling, aborted, abortVars, hightMap, dbManager>>

\* The clean-up of the child's pool: onShutdown. Requests may still run.
onShutdown ==
  /\ isInitialized
  /\ dbManager = "enabled"
  /\ dbManager' = "disabled"
  /\ UNCHANGED <<registryVars, thread, threadData, dangling, aborted, abortVars,
                 hightMap, inInitHightMap>>

\* setHeightMap: with a map or without one, the loading is over.
setHeightMap(map) ==
  /\ hightMap' = map
  /\ inInitHightMap' = FALSE

\* MapLoader: the map is read, or there is none, and the application is told.
MapLoader ==
  /\ inInitHightMap
  /\ \E map \in BOOLEAN : setHeightMap(map)
  /\ UNCHANGED <<registryVars, thread, threadData, dangling, aborted, abortVars, dbManager>>

----------------------------------------------------------------------------
(* A request: the Apache handler, App::dispatch and RequestHandler::doGet   *)

\* What the Apache handler makes of the status of a response.
HttpStatus(status) ==
  CASE status \in {"PUT_NOT_SUPPORTED", "GET_NOT_SUPPORTED", "POST_NOT_SUPPORTED",
                   "DELETE_NOT_SUPPORTED", "NOT_SUPPORTED"} -> "DECLINED"
    [] status \in {"NOT_FOUND", "NO_DATA"} -> "HTTP_NOT_FOUND"
    [] status \in {"INVALID_PATH", "INVALID_QUERY"} -> "HTTP_BAD_REQUEST"
    [] status = "SERVICE_UNAVAILABLE" -> "HTTP_SERVICE_UNAVAILABLE"
    [] status = "NO_ERROR" -> "OK"
    [] OTHER -> "HTTP_INTERNAL_SERVER_ERROR"

Answer(t, status) == thread' = [thread EXCEPT ![t] = [pc |-> "answer", http |-> HttpStatus(status)]]

\* A path no handler answers: nothing is prepared.
dispatchFails(t, url) ==
  /\ isInitialized
  /\ thread[t] = Idle
  /\ \/ InvalidPath(url) /\ Answer(t, "INVALID_PATH")
     \/ /\ ~InvalidPath(url)
        /\ findRequestHandlerPath(handlers, url) = None
        /\ Answer(t, "NOT_FOUND")
  /\ UNCHANGED <<registryVars, threadData, dangling, aborted, abortVars, appVars>>

\* prepareThreadData: data of an earlier request is let go, not deleted.
prepareThreadData(t, handler) ==
  /\ dangling' = dangling + (IF threadData[t] # None THEN 1 ELSE 0)
  /\ threadData' = [threadData EXCEPT ![t] = [handler |-> handler, idList |-> {}]]

dispatch(t, url) ==
  /\ isInitialized
  /\ thread[t] = Idle
  /\ ~InvalidPath(url)
  /\ LET handler == findRequestHandlerPath(handlers, url)
     IN /\ handler # None
        /\ prepareThreadData(t, handler)
        /\ thread' = [thread EXCEPT ![t] = [pc |-> "get", handler |-> handler]]
  /\ UNCHANGED <<registryVars, aborted, abortVars, appVars>>

InGet(t) == thread[t].pc = "get"

\* getHight: the map is tested under its mutex and read outside it.
getHight(t) ==
  /\ InGet(t)
  /\ \/ hightMap /\ thread' = [thread EXCEPT ![t].pc = "altitude"]
     \/ ~hightMap /\ inInitHightMap
        /\ thread' = [thread EXCEPT ![t] = [pc |-> "cleanup", status |-> "SERVICE_UNAVAILABLE"]]
  /\ UNCHANGED <<registryVars, threadData, dangling, aborted, abortVars, appVars>>

altitude(t) ==
  /\ thread[t].pc = "altitude"
  /\ thread' = [thread EXCEPT ![t].pc = "get"]
  /\ UNCHANGED <<registryVars, threadData, dangling, aborted, abortVars, appVars>>

\* initDbPool makes the manager the first time it is needed, also when the
\* child has been shut down before.
initDbPool == dbManager' = IF dbManager = None THEN "enabled" ELSE dbManager

\* newWciConnection: a manager that is disabled throws a logic_error, and the
\* handler answers with an internal error.
newWciConnection(t) ==
  /\ InGet(t)
  /\ initDbPool
  /\ thread' = IF dbManager' = "disabled"
               THEN [thread EXCEPT ![t] = [pc |-> "cleanup", status |-> "INTERNAL_ERROR"]]
               ELSE thread
  /\ UNCHANGED <<registryVars, threadData, dangling, aborted, abortVars, hightMap, inInitHightMap>>

\* The handler returns with a status, or throws, which App::dispatch answers
\* with INTERNAL_ERROR.
getReturns(t) ==
  /\ InGet(t)
  /\ \E status \in Outcomes \cup {"INTERNAL_ERROR"} :
       thread' = [thread EXCEPT ![t] = [pc |-> "cleanup", status |-> status]]
  /\ UNCHANGED <<registryVars, threadData, dangling, aborted, abortVars, appVars>>

----------------------------------------------------------------------------
(* Abort handlers                                                           *)

\* The client goes away while its request runs.
clientLeaves(t) ==
  /\ threadData[t] # None
  /\ ~aborted[t]
  /\ aborted' = [aborted EXCEPT ![t] = TRUE]
  /\ UNCHANGED <<registryVars, thread, threadData, dangling, abortVars, appVars>>

\* registerAbortHandler of the request handler and of the manager.
registerAbortHandler(t) ==
  /\ InGet(t)
  /\ nextId <= MaxIds
  /\ handlerMap' = [i \in DOMAIN handlerMap \cup {nextId} |->
                      IF i = nextId THEN t ELSE handlerMap[i]]
  /\ threadData' = [threadData EXCEPT ![t].idList = @ \cup {nextId}]
  /\ nextId' = nextId + 1
  /\ UNCHANGED <<registryVars, thread, dangling, aborted, deleted, appVars>>

\* An entry that is still in the map is taken out and deleted.
Discard(ids) ==
  /\ handlerMap' = Restrict(handlerMap, DOMAIN handlerMap \ ids)
  /\ deleted' = [i \in DOMAIN deleted |->
                   deleted[i] + (IF i \in ids \cap DOMAIN handlerMap THEN 1 ELSE 0)]

removeAbortHandler(t, id) ==
  /\ InGet(t)
  /\ id \in threadData[t].idList
  /\ Discard({id})
  /\ threadData' = [threadData EXCEPT ![t].idList = @ \ {id}]
  /\ UNCHANGED <<registryVars, thread, dangling, aborted, nextId, appVars>>

\* checkAboretedConnections: the handlers of lost clients are called and
\* deleted, all in the mutex of the manager.
checkAboretedConnections ==
  LET lost == {id \in DOMAIN handlerMap : aborted[handlerMap[id]]}
  IN /\ lost # {}
     /\ Discard(lost)
     /\ UNCHANGED <<registryVars, thread, threadData, dangling, aborted, nextId, appVars>>

\* removeAllAbortHandler, for what the request has left in its list. Mutant:
\* a handler is deleted although the checking thread has done it already.
removeAllAbortHandlerTwice(ids) ==
  /\ handlerMap' = Restrict(handlerMap, DOMAIN handlerMap \ ids)
  /\ deleted' = [i \in DOMAIN deleted |-> deleted[i] + (IF i \in ids THEN 1 ELSE 0)]

removeAllAbortHandler(ids) == Discard(ids)

\* cleanupThreadData, whether get returned or threw: the thread's data goes
\* and takes the abort handlers with it. Mutant: only when get succeeded.
cleanupThreadDataOnSuccess(t) ==
  /\ thread[t].pc = "cleanup"
  /\ IF thread[t].status = "NO_ERROR"
     THEN /\ removeAllAbortHandler(threadData[t].idList)
          /\ threadData' = [threadData EXCEPT ![t] = None]
     ELSE UNCHANGED <<handlerMap, deleted, threadData>>
  /\ Answer(t, thread[t].status)
  /\ aborted' = [aborted EXCEPT ![t] = FALSE]
  /\ UNCHANGED <<registryVars, dangling, nextId, appVars>>

cleanupThreadData(t) ==
  /\ thread[t].pc = "cleanup"
  /\ removeAllAbortHandler(threadData[t].idList)
  /\ threadData' = [threadData EXCEPT ![t] = None]
  /\ Answer(t, thread[t].status)
  /\ aborted' = [aborted EXCEPT ![t] = FALSE]
  /\ UNCHANGED <<registryVars, dangling, nextId, appVars>>

\* The answer is flushed and the request record is gone.
flush(t) ==
  /\ thread[t].pc = "answer"
  /\ thread' = [thread EXCEPT ![t] = Idle]
  /\ UNCHANGED <<registryVars, threadData, dangling, aborted, abortVars, appVars>>

----------------------------------------------------------------------------
Request(t) ==
  \/ getHight(t)
  \/ altitude(t)
  \/ newWciConnection(t)
  \/ getReturns(t)
  \/ cleanupThreadData(t)
  \/ flush(t)

Next ==
  \/ init
  \/ onShutdown
  \/ MapLoader
  \/ checkAboretedConnections
  \/ \E t \in Threads :
       \/ \E url \in Urls : dispatchFails(t, url) \/ dispatch(t, url)
       \/ Request(t)
       \/ clientLeaves(t)
       \/ registerAbortHandler(t)
       \/ \E id \in 1..MaxIds : removeAbortHandler(t, id)

Spec == Init /\ [][Next]_vars

----------------------------------------------------------------------------
(* Properties                                                               *)

\* prepareThreadData says of data it finds in the thread "Serious bug an
\* ThreadData allready exist": a thread has data exactly while it serves a
\* request, the data names the handler that serves it, and none is lost.
ThreadDataIsOwn ==
  /\ dangling = 0
  /\ \A t \in Threads :
       /\ threadData[t] # None <=> thread[t].pc \in {"get", "altitude", "cleanup"}
       /\ InGet(t) => threadData[t].handler = thread[t].handler

\* The checking thread follows the request pointer of every entry in the map,
\* so an entry belongs to a request that is still there; and every abort
\* handler is deleted once, by the checker or by its request, whoever is first.
AbortHandlersOfLiveRequests ==
  /\ \A id \in DOMAIN handlerMap :
       threadData[handlerMap[id]] # None /\ id \in threadData[handlerMap[id]].idList
  /\ \A id \in 1..nextId - 1 : deleted[id] = IF id \in DOMAIN handlerMap THEN 0 ELSE 1

================================================================================
