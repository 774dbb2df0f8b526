---------------------------- MODULE DbConnectionPool ----------------------------
(***************************************************************************)
(* The PostgreSQL connection pool of src/pgconpool (DbConnectionPool,      *)
(* DbConnectionHelper, DbConnection), as DbManager creates and uses it:    *)
(* one pool for each database, shared by all threads of a process.         *)
(*                                                                         *)
(* Every member function holds the pool's mutex from its first line, so    *)
(* each is one action. newConnection is the exception: it gives the mutex  *)
(* up in cond.timed_wait, once, without a predicate loop, and is split     *)
(* there. Between a notification and the moment the woken thread has the   *)
(* mutex back any other thread may run, and take what was released.        *)
(***************************************************************************)
EXTENDS Integers, FiniteSets

CONSTANTS
  Threads,        \* the threads of the process that use the database
  Conns,          \* the sessions the database server can have open
  NoConn,         \* the null pointer
  CfgMaxPoolSize, \* <maxpoolsize> of the database definition
  CfgMinPoolSize, \* <minpoolsize>
  CfgUseCount     \* <usecount>

ASSUME ConstantsAssumption ==
  /\ IsFiniteSet(Threads)
  /\ IsFiniteSet(Conns)
  /\ NoConn \notin Conns
  /\ CfgMaxPoolSize \in Int
  /\ CfgMinPoolSize \in Int
  /\ CfgUseCount \in Int

\* DbManager replaces what is not positive by a default; the pool's
\* constructor exchanges the two sizes when they are the wrong way round.
DefMaxPoolSize == IF CfgMaxPoolSize <= 0 THEN 30 ELSE CfgMaxPoolSize
DefMinPoolSize == IF CfgMinPoolSize <= 0 THEN 0 ELSE CfgMinPoolSize
maxUseCount == IF CfgUseCount <= 0 THEN 100 ELSE CfgUseCount
maxpoolsize ==
  IF DefMinPoolSize > DefMaxPoolSize THEN DefMinPoolSize ELSE DefMaxPoolSize
minpoolsize ==
  IF DefMinPoolSize > DefMaxPoolSize THEN DefMaxPoolSize ELSE DefMinPoolSize

VARIABLES
  pool,      \* the connections in the list; its order is not modelled
  inUse,     \* those with inuse_ set
  useCount,  \* useCount_: how often a pooled connection may still be used
  leaked,    \* sessions left open by a failed wci.begin, known to nobody
  isEnabled,
  phase,     \* where each thread is: see Phases
  handle     \* the connection each thread's DbConnectionPtr owns

vars == <<pool, inUse, useCount, leaked, isEnabled, phase, handle>>

\* "waiting": in timed_wait. "woken": notified, but not yet back in the
\* mutex. "MaxUse", "Disabled": the last newConnection threw that exception.
Outside == {"idle", "MaxUse", "Disabled"}
Phases == Outside \cup {"waiting", "woken", "holding"}

Idle == pool \ inUse
Waiting == {t \in Threads : phase[t] = "waiting"}
Woken == {t \in Threads : phase[t] = "woken"}
Holding == {t \in Threads : phase[t] = "holding"}

\* Sessions the server has free.
Fresh == Conns \ (pool \cup leaked)

----------------------------------------------------------------------------
(* createConnection and findOrCreateConnection                             *)

\* Mutant of CanCreateIn below: the capacity test is off by one.
CanCreateInOffByOne(p) == Cardinality(p) <= maxpoolsize /\ isEnabled

\* createConnection gets past its two tests: room in p, and enabled.
CanCreateIn(p) == Cardinality(p) < maxpoolsize /\ isEnabled

\* Connecting fails, and either leaves nothing behind or, when it is
\* onCreateConnection (wci.begin) that throws, an open session that is in
\* no list. All callers swallow the exception.
CreateFails == leaked' = leaked \/ \E c \in Fresh : leaked' = leaked \cup {c}

\* What inUse(true) does to an idle connection, and the DbConnectionPtr.
\* Mutants: the connection is not marked; its use is not counted.
TakeIdleUnmarked(t) ==
  /\ \E c \in Idle :
       /\ useCount' = [useCount EXCEPT ![c] = @ - 1]
       /\ handle' = [handle EXCEPT ![t] = c]
  /\ phase' = [phase EXCEPT ![t] = "holding"]
  /\ UNCHANGED <<pool, inUse, leaked, isEnabled>>

TakeIdleUncounted(t) ==
  /\ \E c \in Idle :
       /\ inUse' = inUse \cup {c}
       /\ handle' = [handle EXCEPT ![t] = c]
  /\ phase' = [phase EXCEPT ![t] = "holding"]
  /\ UNCHANGED <<pool, useCount, leaked, isEnabled>>

TakeIdle(t) ==
  /\ \E c \in Idle :
       /\ inUse' = inUse \cup {c}
       /\ useCount' = [useCount EXCEPT ![c] = @ - 1]
       /\ handle' = [handle EXCEPT ![t] = c]
  /\ phase' = [phase EXCEPT ![t] = "holding"]
  /\ UNCHANGED <<pool, leaked, isEnabled>>

\* No idle connection: a new one is opened, put in the list and taken.
TakeNew(t) ==
  /\ Idle = {}
  /\ CanCreateIn(pool)
  /\ \E c \in Fresh :
       /\ pool' = pool \cup {c}
       /\ inUse' = inUse \cup {c}
       /\ useCount' = [useCount EXCEPT ![c] = maxUseCount - 1]
       /\ handle' = [handle EXCEPT ![t] = c]
  /\ phase' = [phase EXCEPT ![t] = "holding"]
  /\ UNCHANGED <<leaked, isEnabled>>

\* findOrCreateConnection returns a connection ...
findOrCreateConnection(t) == TakeIdle(t) \/ TakeNew(t)

\* ... or 0: the list is full, the pool disabled, or connecting failed.
NothingFound ==
  /\ Idle = {}
  /\ IF CanCreateIn(pool) THEN CreateFails ELSE leaked' = leaked
  /\ UNCHANGED <<pool, inUse, useCount, isEnabled, handle>>

----------------------------------------------------------------------------
(* The operations                                                          *)

\* createMinpoolsize opens up to minpoolsize connections and gives up at
\* the first failure, which may leave one session behind.
Init ==
  /\ pool \in SUBSET Conns
  /\ Cardinality(pool) <= minpoolsize
  /\ \/ leaked = {}
     \/ /\ Cardinality(pool) < minpoolsize
        /\ \E c \in Conns \ pool : leaked = {c}
  /\ inUse = {}
  /\ useCount = [c \in Conns |-> IF c \in pool THEN maxUseCount ELSE 0]
  /\ isEnabled = TRUE
  /\ phase = [t \in Threads |-> "idle"]
  /\ handle = [t \in Threads |-> NoConn]

\* The part of newConnection before the wait.
newConnection(t, timeoutInMillisecond) ==
  /\ phase[t] \in Outside
  /\ \/ /\ ~isEnabled
        /\ phase' = [phase EXCEPT ![t] = "Disabled"]
        /\ UNCHANGED <<pool, inUse, useCount, leaked, isEnabled, handle>>
     \/ /\ isEnabled
        /\ findOrCreateConnection(t)
     \/ /\ isEnabled
        /\ NothingFound
        /\ phase' = [phase EXCEPT ![t] =
             IF timeoutInMillisecond = 0 /\ Cardinality(pool) >= maxpoolsize
             THEN "MaxUse" ELSE "waiting"]

\* timed_wait returns false.
WaitTimedOut(t) ==
  /\ phase[t] = "waiting"
  /\ phase' = [phase EXCEPT ![t] = "MaxUse"]
  /\ UNCHANGED <<pool, inUse, useCount, leaked, isEnabled, handle>>

\* timed_wait may return without a notification.
SpuriousWakeup(t) ==
  /\ phase[t] = "waiting"
  /\ phase' = [phase EXCEPT ![t] = "woken"]
  /\ UNCHANGED <<pool, inUse, useCount, leaked, isEnabled, handle>>

\* Mutant: a woken thread that finds nothing waits again, without a limit.
AfterWaitLoop(t) ==
  /\ phase[t] = "woken"
  /\ findOrCreateConnection(t)

\* The part of newConnection after the wait: one more attempt. isEnabled_ is
\* not looked at again unless the attempt comes to createConnection.
AfterWait(t) ==
  /\ phase[t] = "woken"
  /\ \/ findOrCreateConnection(t)
     \/ /\ NothingFound
        /\ phase' = [phase EXCEPT ![t] = "MaxUse"]

\* Mutant: the notification is forgotten.
NotifyNobody(t) == phase' = [phase EXCEPT ![t] = "idle"]

\* cond.notify_one, by thread t on its way out of release.
NotifyOne(t) ==
  IF Waiting = {}
  THEN phase' = [phase EXCEPT ![t] = "idle"]
  ELSE \E w \in Waiting :
         phase' = [phase EXCEPT ![t] = "idle", ![w] = "woken"]

\* Mutants: a used-up connection is put back; a disabled pool takes one back.
MustCloseDisabledOnly(c) == ~isEnabled
MustCloseUsedUpOnly(c) == useCount[c] = 0

\* release closes the connection instead of putting it back.
MustClose(c) == useCount[c] = 0 \/ ~isEnabled

\* Closed and erased; an enabled pool below its minimum opens another one,
\* which is idle at first, or fails to.
CloseReleased(c) ==
  LET rest == pool \ {c}
      gone == [useCount EXCEPT ![c] = 0]
  IN /\ inUse' = inUse \ {c}
     /\ IF isEnabled /\ Cardinality(rest) < minpoolsize
        THEN \/ /\ CanCreateIn(rest)
                /\ \E n \in Fresh \cup {c} :
                     /\ pool' = rest \cup {n}
                     /\ useCount' = [gone EXCEPT ![n] = maxUseCount]
                /\ leaked' = leaked
             \/ /\ pool' = rest
                /\ useCount' = gone
                /\ \/ leaked' = leaked
                   \/ \E n \in Fresh \cup {c} : leaked' = leaked \cup {n}
        ELSE /\ pool' = rest
             /\ useCount' = gone
             /\ leaked' = leaked

\* ~DbConnection calls release when the last copy of the handle goes.
release(t) ==
  /\ phase[t] = "holding"
  /\ LET c == handle[t] IN
       \/ /\ MustClose(c)
          /\ CloseReleased(c)
       \/ /\ ~MustClose(c)
          /\ inUse' = inUse \ {c}
          /\ UNCHANGED <<pool, useCount, leaked>>
  /\ NotifyOne(t)
  /\ handle' = [handle EXCEPT ![t] = NoConn]
  /\ UNCHANGED isEnabled

\* cond.notify_all
NotifyAll ==
  phase' = [t \in Threads |-> IF phase[t] = "waiting" THEN "woken" ELSE phase[t]]

\* Mutant: disable does not close what is idle.
disableOnly ==
  /\ isEnabled
  /\ isEnabled' = FALSE
  /\ NotifyAll
  /\ UNCHANGED <<pool, inUse, useCount, leaked, handle>>

disable ==
  /\ isEnabled
  /\ isEnabled' = FALSE
  /\ pool' = inUse
  /\ useCount' = [c \in Conns |-> IF c \in Idle THEN 0 ELSE useCount[c]]
  /\ NotifyAll
  /\ UNCHANGED <<inUse, leaked, handle>>

enable ==
  /\ isEnabled' = TRUE
  /\ NotifyAll
  /\ UNCHANGED <<pool, inUse, useCount, leaked, handle>>

\* The two kinds of timeout newConnection tells apart. DbManager passes 2000.
Timeouts == {0, 2000}

Next ==
  \/ \E t \in Threads :
       \/ \E timeout \in Timeouts : newConnection(t, timeout)
       \/ WaitTimedOut(t)
       \/ SpuriousWakeup(t)
       \/ AfterWait(t)
       \/ release(t)
  \/ disable
  \/ enable

SafeSpec == Init /\ [][Next]_vars

\* A timed wait ends, a woken thread gets the mutex, and whoever owns a
\* handle destroys it when its request is done.
Fairness ==
  \A t \in Threads : WF_vars(WaitTimedOut(t)) /\ WF_vars(AfterWait(t))
                     /\ WF_vars(release(t))

Spec == SafeSpec /\ Fairness

----------------------------------------------------------------------------
(* Properties                                                              *)

\* The type of every variable; in particular useCount_, an int the code
\* decrements without looking at it, never goes below zero.
TypeOK ==
  /\ pool \in SUBSET Conns
  /\ inUse \in SUBSET pool
  /\ useCount \in [Conns -> 0..maxUseCount]
  /\ leaked \in SUBSET (Conns \ pool)
  /\ isEnabled \in BOOLEAN
  /\ phase \in [Threads -> Phases]
  /\ handle \in [Threads -> Conns \cup {NoConn}]

\* createConnection never lets the list grow beyond maxpoolsize_, whichever
\* of its three callers it runs for.
WithinCapacity == Cardinality(pool) <= maxpoolsize

\* The connections marked in use are exactly those that some thread's
\* DbConnectionPtr owns, and no two threads own the same one: pqxx
\* connections must not be shared between threads.
ExclusiveHandles ==
  /\ inUse = {handle[t] : t \in Holding}
  /\ \A t \in Threads : phase[t] # "holding" => handle[t] = NoConn
  /\ \A s, t \in Holding : handle[s] = handle[t] => s = t

\* A disabled pool has no idle connection and nobody waiting: the attempt
\* after the wait does not test isEnabled_ and would hand an idle one out.
DrainedWhenDisabled ==
  ~isEnabled => Idle = {} /\ Waiting = {}

\* As long as somebody waits, every idle connection has a woken thread on
\* its way to fetch it: notify_one is never spent on nobody while a thread
\* sleeps beside a connection it could use.
NoLostWakeup ==
  Waiting # {} => Cardinality(Idle) <= Cardinality(Woken)

\* An idle connection can be used at least once more, and none is used more
\* than maxUseCount_ times: one use is counted for each time it is taken.
UsesAreCounted ==
  /\ \A c \in Idle : useCount[c] > 0
  /\ \A c \in inUse : useCount[c] < maxUseCount

\* DbManager.h about disable: what is not in use is shut down, the rest when
\* it is released. A pool that stays disabled ends up without connections, for
\* good: whoever was creating one or holding one at the time included.
DisabledPoolDrains == <>[](~isEnabled) => <>[](pool = {})

\* The pool does what LeasePool promises.
Leases == INSTANCE LeasePool WITH
  Clients <- Threads,
  Resources <- Conns,
  NoResource <- NoConn,
  Capacity <- maxpoolsize,
  lease <- handle,
  asking <- Waiting \cup Woken,
  open <- isEnabled
ImplementsLeasePool == Leases!Spec

================================================================================
