------------------------- MODULE DbConnectionPoolProofs -------------------------
(***************************************************************************)
(* Proofs about DbConnectionPool for any number of threads and sessions    *)
(* and any configured sizes.                                               *)
(***************************************************************************)
EXTENDS DbConnectionPool, FiniteSetTheorems, TLAPS

\* The inductive invariant is the conjunction of the invariants TLC checks:
\* none of them is inductive alone. useCount_ stays natural because idle
\* connections have uses left; a woken thread takes nothing from a disabled
\* pool because that one has nothing idle; a release closes a connection of
\* its own thread because handles are exclusive.
IInv ==
  /\ TypeOK
  /\ WithinCapacity
  /\ ExclusiveHandles
  /\ DrainedWhenDisabled
  /\ NoLostWakeup
  /\ UsesAreCounted

\* Whatever the configuration file says, DbManager and the constructor end
\* up with usable sizes.
LEMMA Sizes ==
  /\ maxpoolsize \in Nat \ {0}
  /\ minpoolsize \in Nat
  /\ minpoolsize <= maxpoolsize
  /\ maxUseCount \in Nat \ {0}
BY ConstantsAssumption
DEF maxpoolsize, minpoolsize, maxUseCount, DefMaxPoolSize, DefMinPoolSize

\* The sets whose sizes matter are finite.
LEMMA Finite ==
  ASSUME TypeOK
  PROVE  /\ IsFiniteSet(pool) /\ Cardinality(pool) \in Nat
         /\ IsFiniteSet(inUse) /\ Cardinality(inUse) \in Nat
         /\ IsFiniteSet(Idle) /\ Cardinality(Idle) \in Nat
         /\ IsFiniteSet(Woken) /\ Cardinality(Woken) \in Nat
<1>1. pool \in SUBSET Conns /\ inUse \in SUBSET Conns /\ Idle \in SUBSET Conns
      /\ Woken \in SUBSET Threads
  BY DEF TypeOK, Idle, Woken
<1>2. IsFiniteSet(pool) /\ IsFiniteSet(inUse) /\ IsFiniteSet(Idle) /\ IsFiniteSet(Woken)
  BY <1>1, FS_Subset, ConstantsAssumption
<1> QED  BY <1>2, FS_CardinalityType

\* The pool's constructor establishes the invariant.
LEMMA InitEstablishes == Init => IInv
<1> SUFFICES ASSUME Init PROVE IInv
  OBVIOUS
<1> USE ConstantsAssumption, Sizes
<1>1. TypeOK
  BY DEF Init, TypeOK, Phases, Outside
<1>2. WithinCapacity
  BY <1>1, Finite DEF Init, WithinCapacity
<1>3. ExclusiveHandles
  BY DEF Init, ExclusiveHandles, Holding
<1>4. DrainedWhenDisabled /\ NoLostWakeup
  BY DEF Init, DrainedWhenDisabled, NoLostWakeup, Waiting
<1>5. UsesAreCounted
  BY DEF Init, UsesAreCounted, Idle
<1> QED  BY <1>1, <1>2, <1>3, <1>4, <1>5 DEF IInv

\* Every step keeps the variables in their types.
LEMMA TypeStep ==
  ASSUME IInv, [Next]_vars
  PROVE  TypeOK'
<1> USE ConstantsAssumption, Sizes DEF IInv, TypeOK, Phases, Outside
<1>1. ASSUME NEW t \in Threads, TakeIdle(t)
      PROVE  TypeOK'
  BY <1>1 DEF TakeIdle, Idle, UsesAreCounted
<1>2. ASSUME NEW t \in Threads, TakeNew(t)
      PROVE  TypeOK'
  BY <1>2 DEF TakeNew, Fresh
<1>3. ASSUME NothingFound
      PROVE  /\ leaked' \in SUBSET (Conns \ pool')
             /\ UNCHANGED <<pool, inUse, useCount, isEnabled, handle>>
  BY <1>3 DEF NothingFound, CreateFails, Fresh
<1>4. ASSUME NEW t \in Threads, NEW timeout, newConnection(t, timeout)
      PROVE  TypeOK'
  <2>1. CASE findOrCreateConnection(t)
    BY <2>1, <1>1, <1>2 DEF findOrCreateConnection
  <2>2. CASE ~findOrCreateConnection(t) /\ NothingFound
    <3>1. phase' \in [Threads -> Phases]
      BY <1>4, <2>2 DEF newConnection
    <3> QED  BY <3>1, <2>2, <1>3
  <2>3. CASE ~findOrCreateConnection(t) /\ ~NothingFound
    BY <1>4, <2>3 DEF newConnection
  <2> QED  BY <2>1, <2>2, <2>3
<1>5. ASSUME NEW t \in Threads, WaitTimedOut(t) \/ SpuriousWakeup(t)
      PROVE  TypeOK'
  BY <1>5 DEF WaitTimedOut, SpuriousWakeup
<1>6. ASSUME NEW t \in Threads, AfterWait(t)
      PROVE  TypeOK'
  <2>1. CASE findOrCreateConnection(t)
    BY <2>1, <1>1, <1>2 DEF findOrCreateConnection
  <2>2. CASE ~findOrCreateConnection(t)
    BY <1>6, <2>2, <1>3 DEF AfterWait
  <2> QED  BY <2>1, <2>2
<1>7. ASSUME NEW t \in Threads, release(t)
      PROVE  TypeOK'
  <2> DEFINE c == handle[t]
  <2>1. c \in inUse /\ c \in pool /\ c \in Conns
    BY <1>7 DEF release, ExclusiveHandles, Holding
  <2>2. phase' \in [Threads -> Phases]
    BY <1>7 DEF release, NotifyOne, Waiting
  <2>3. handle' \in [Threads -> Conns \cup {NoConn}] /\ isEnabled' \in BOOLEAN
    BY <1>7 DEF release
  <2>4. CASE MustClose(c) /\ CloseReleased(c)
    <3>1. inUse' = inUse \ {c} /\ inUse' \subseteq pool \ {c}
      BY <2>4 DEF CloseReleased
    <3>2. CASE pool' = pool \ {c} /\ useCount' = [useCount EXCEPT ![c] = 0]
      <4>1. leaked' \in SUBSET (Conns \ pool')
        BY <2>1, <2>4, <3>2 DEF CloseReleased, Fresh
      <4>2. useCount' \in [Conns -> 0..maxUseCount]
        BY <2>1, <3>2
      <4>3. pool' \in SUBSET Conns /\ inUse' \in SUBSET pool'
        BY <3>1, <3>2
      <4> QED  BY <2>2, <2>3, <4>1, <4>2, <4>3
    <3>3. CASE /\ leaked' = leaked
               /\ \E n \in Fresh \cup {c} :
                    /\ pool' = (pool \ {c}) \cup {n}
                    /\ useCount' = [[useCount EXCEPT ![c] = 0] EXCEPT ![n] = maxUseCount]
      BY <2>1, <2>2, <2>3, <3>1, <3>3 DEF Fresh
    <3> QED  BY <2>4, <3>2, <3>3 DEF CloseReleased
  <2>5. CASE ~(MustClose(c) /\ CloseReleased(c))
    BY <1>7, <2>2, <2>3, <2>5 DEF release
  <2> QED  BY <2>4, <2>5
<1>8. ASSUME disable \/ enable
      PROVE  TypeOK'
  <2>1. phase' \in [Threads -> Phases]
    BY <1>8 DEF disable, enable, NotifyAll
  <2>2. CASE disable
    <3>1. useCount' \in [Conns -> 0..maxUseCount]
      BY <2>2 DEF disable
    <3> QED  BY <2>1, <2>2, <3>1 DEF disable
  <2>3. CASE enable
    BY <2>1, <2>3 DEF enable
  <2> QED  BY <1>8, <2>2, <2>3
<1>9. ASSUME UNCHANGED vars
      PROVE  TypeOK'
  BY <1>9 DEF vars
<1> QED  BY <1>4, <1>5, <1>6, <1>7, <1>8, <1>9 DEF Next


\* A set grows by at most one when one element is added.
LEMMA GrowsByOne ==
  ASSUME NEW S, IsFiniteSet(S), NEW x
  PROVE  /\ Cardinality(S \cup {x}) \in Nat
         /\ Cardinality(S \cup {x}) <= Cardinality(S) + 1
<1>1. Cardinality(S) \in Nat
  BY FS_CardinalityType
<1>2. Cardinality(S \cup {x}) = IF x \in S THEN Cardinality(S) ELSE Cardinality(S) + 1
  BY FS_AddElement
<1> QED  BY <1>1, <1>2

\* The list grows only where createConnection has found room.
LEMMA CapacityStep ==
  ASSUME IInv, [Next]_vars
  PROVE  WithinCapacity'
<1> USE Sizes, Finite DEF IInv, WithinCapacity
<1>1. ASSUME NEW t \in Threads, TakeNew(t)
      PROVE  WithinCapacity'
  <2>1. PICK c \in Fresh : pool' = pool \cup {c}
    BY <1>1 DEF TakeNew
  <2>2. Cardinality(pool) < maxpoolsize
    BY <1>1 DEF TakeNew, CanCreateIn
  <2>3. Cardinality(pool') <= Cardinality(pool) + 1 /\ Cardinality(pool') \in Nat
    BY <2>1, GrowsByOne
  <2> QED  BY <2>2, <2>3
<1>2. ASSUME pool' \subseteq pool
      PROVE  WithinCapacity'
  <2>1. Cardinality(pool') <= Cardinality(pool) /\ Cardinality(pool') \in Nat
    BY <1>2, FS_Subset, FS_CardinalityType
  <2> QED  BY <2>1
<1>3. ASSUME NEW t \in Threads, release(t)
      PROVE  WithinCapacity'
  <2> DEFINE rest == pool \ {handle[t]}
  <2>1. pool' \subseteq pool \/ \E n : pool' = rest \cup {n} /\ Cardinality(rest) < minpoolsize
    BY <1>3 DEF release, CloseReleased
  <2>2. ASSUME NEW n, pool' = rest \cup {n}, Cardinality(rest) < minpoolsize
        PROVE  WithinCapacity'
    <3>1. IsFiniteSet(rest) /\ Cardinality(rest) \in Nat
      BY FS_RemoveElement, FS_CardinalityType
    <3>2. Cardinality(pool') <= Cardinality(rest) + 1 /\ Cardinality(pool') \in Nat
      BY <2>2, <3>1, GrowsByOne
    <3> QED  BY <2>2, <3>1, <3>2
  <2> QED  BY <2>1, <2>2, <1>2
<1>4. ASSUME NEW t \in Threads, NEW timeout, newConnection(t, timeout) \/ AfterWait(t)
      PROVE  WithinCapacity'
  <2>1. pool' \subseteq pool \/ TakeNew(t)
    BY <1>4 DEF newConnection, AfterWait, findOrCreateConnection, TakeIdle, NothingFound
  <2> QED  BY <2>1, <1>1, <1>2
<1>5. ASSUME NEW t \in Threads, WaitTimedOut(t) \/ SpuriousWakeup(t)
      PROVE  WithinCapacity'
  BY <1>5, <1>2 DEF WaitTimedOut, SpuriousWakeup
<1>6. ASSUME disable \/ enable \/ UNCHANGED vars
      PROVE  WithinCapacity'
  BY <1>6, <1>2 DEF disable, enable, vars, TypeOK
<1> QED  BY <1>3, <1>4, <1>5, <1>6 DEF Next, Timeouts

\* A thread gets only a connection that nobody has, and gives back its own.
LEMMA HandlesStep ==
  ASSUME IInv, [Next]_vars
  PROVE  ExclusiveHandles'
<1> USE ConstantsAssumption DEF IInv, TypeOK, ExclusiveHandles, Holding
<1>1. ASSUME NEW t \in Threads, phase[t] # "holding", TakeIdle(t)
      PROVE  ExclusiveHandles'
  BY <1>1 DEF TakeIdle, Idle
<1>2. ASSUME NEW t \in Threads, phase[t] # "holding", TakeNew(t)
      PROVE  ExclusiveHandles'
  BY <1>2 DEF TakeNew, Fresh
<1>3. ASSUME handle' = handle, inUse' = inUse,
             \A t \in Threads : phase'[t] = "holding" <=> phase[t] = "holding"
      PROVE  ExclusiveHandles'
  BY <1>3
<1>4. ASSUME NEW t \in Threads, NEW timeout, newConnection(t, timeout)
      PROVE  ExclusiveHandles'
  <2>1. CASE findOrCreateConnection(t)
    BY <1>4, <2>1, <1>1, <1>2 DEF newConnection, findOrCreateConnection, Outside
  <2>2. CASE ~findOrCreateConnection(t)
    BY <1>4, <2>2, <1>3 DEF newConnection, NothingFound, Outside
  <2> QED  BY <2>1, <2>2
<1>5. ASSUME NEW t \in Threads, AfterWait(t)
      PROVE  ExclusiveHandles'
  <2>1. CASE findOrCreateConnection(t)
    BY <1>5, <2>1, <1>1, <1>2 DEF AfterWait, findOrCreateConnection
  <2>2. CASE ~findOrCreateConnection(t)
    BY <1>5, <2>2, <1>3 DEF AfterWait, NothingFound
  <2> QED  BY <2>1, <2>2
<1>6. ASSUME NEW t \in Threads, WaitTimedOut(t) \/ SpuriousWakeup(t)
      PROVE  ExclusiveHandles'
  BY <1>6, <1>3 DEF WaitTimedOut, SpuriousWakeup
<1>7. ASSUME NEW t \in Threads, release(t)
      PROVE  ExclusiveHandles'
  <2>1. inUse' = inUse \ {handle[t]} /\ handle' = [handle EXCEPT ![t] = NoConn]
        /\ phase[t] = "holding"
    BY <1>7 DEF release, CloseReleased
  <2>2. /\ phase'[t] = "idle"
        /\ \A s \in Threads \ {t} : phase'[s] = "holding" <=> phase[s] = "holding"
    BY <1>7 DEF release, NotifyOne, Waiting
  <2> QED  BY <2>1, <2>2
<1>8. ASSUME disable \/ enable
      PROVE  ExclusiveHandles'
  BY <1>8, <1>3 DEF disable, enable, NotifyAll
<1>9. ASSUME UNCHANGED vars
      PROVE  ExclusiveHandles'
  BY <1>9 DEF vars
<1> QED  BY <1>4, <1>5, <1>6, <1>7, <1>8, <1>9 DEF Next

\* A disabled pool stays without idle connections and without waiters.
LEMMA DrainedStep ==
  ASSUME IInv, [Next]_vars
  PROVE  DrainedWhenDisabled'
<1> USE DEF IInv, TypeOK, DrainedWhenDisabled, Idle, Waiting
<1>1. ASSUME NEW t \in Threads, NEW timeout, newConnection(t, timeout)
      PROVE  DrainedWhenDisabled'
  BY <1>1 DEF newConnection, findOrCreateConnection, TakeIdle, TakeNew, NothingFound, CanCreateIn
<1>2. ASSUME NEW t \in Threads, AfterWait(t)
      PROVE  DrainedWhenDisabled'
  BY <1>2 DEF AfterWait, findOrCreateConnection, TakeIdle, TakeNew, NothingFound, CanCreateIn
<1>3. ASSUME NEW t \in Threads, WaitTimedOut(t) \/ SpuriousWakeup(t)
      PROVE  DrainedWhenDisabled'
  BY <1>3 DEF WaitTimedOut, SpuriousWakeup
<1>4. ASSUME NEW t \in Threads, release(t)
      PROVE  DrainedWhenDisabled'
  <2> SUFFICES ASSUME ~isEnabled PROVE Idle' = {} /\ Waiting' = {}
    BY <1>4 DEF release
  <2>1. pool' = pool \ {handle[t]} /\ inUse' = inUse \ {handle[t]}
    BY <1>4 DEF release, MustClose, CloseReleased
  <2>2. Waiting' = {}
    BY <1>4 DEF release, NotifyOne
  <2> QED  BY <2>1, <2>2
<1>5. ASSUME disable \/ enable \/ UNCHANGED vars
      PROVE  DrainedWhenDisabled'
  BY <1>5 DEF disable, enable, NotifyAll, vars
<1> QED  BY <1>1, <1>2, <1>3, <1>4, <1>5 DEF Next

\* A connection is counted when it is taken and closed when it is used up.
LEMMA UsesStep ==
  ASSUME IInv, [Next]_vars
  PROVE  UsesAreCounted'
<1> USE Sizes DEF IInv, TypeOK, UsesAreCounted, Idle
<1>1. ASSUME NEW t \in Threads, TakeIdle(t)
      PROVE  UsesAreCounted'
  BY <1>1 DEF TakeIdle
<1>2. ASSUME NEW t \in Threads, TakeNew(t)
      PROVE  UsesAreCounted'
  BY <1>2 DEF TakeNew, Fresh
<1>3. ASSUME UNCHANGED <<pool, inUse, useCount>>
      PROVE  UsesAreCounted'
  BY <1>3
<1>4. ASSUME NEW t \in Threads, NEW timeout, newConnection(t, timeout) \/ AfterWait(t)
      PROVE  UsesAreCounted'
  BY <1>4, <1>1, <1>2, <1>3 DEF newConnection, AfterWait, findOrCreateConnection, NothingFound
<1>5. ASSUME NEW t \in Threads, WaitTimedOut(t) \/ SpuriousWakeup(t)
      PROVE  UsesAreCounted'
  BY <1>5, <1>3 DEF WaitTimedOut, SpuriousWakeup
<1>6. ASSUME NEW t \in Threads, release(t)
      PROVE  UsesAreCounted'
  <2> DEFINE c == handle[t]
  <2>1. c \in inUse /\ c \in Conns
    BY <1>6 DEF release, ExclusiveHandles, Holding
  <2>2. CASE MustClose(c) /\ CloseReleased(c)
    <3>1. CASE pool' = pool \ {c} /\ useCount' = [useCount EXCEPT ![c] = 0]
      BY <2>1, <2>2, <3>1 DEF CloseReleased
    <3>2. CASE \E n \in Fresh \cup {c} :
                 /\ pool' = (pool \ {c}) \cup {n}
                 /\ useCount' = [[useCount EXCEPT ![c] = 0] EXCEPT ![n] = maxUseCount]
      BY <2>1, <2>2, <3>2 DEF CloseReleased, Fresh
    <3> QED  BY <2>2, <3>1, <3>2 DEF CloseReleased
  <2>3. CASE ~(MustClose(c) /\ CloseReleased(c))
    BY <1>6, <2>1, <2>3 DEF release, MustClose
  <2> QED  BY <2>2, <2>3
<1>7. ASSUME disable \/ enable \/ UNCHANGED vars
      PROVE  UsesAreCounted'
  BY <1>7 DEF disable, enable, vars
<1> QED  BY <1>4, <1>5, <1>6, <1>7 DEF Next, Timeouts

\* No step leaves a thread asleep beside an idle connection that nobody is
\* on the way to.
LEMMA WakeupStep ==
  ASSUME IInv, [Next]_vars
  PROVE  NoLostWakeup'
<1> USE DEF NoLostWakeup
<1>1. TypeOK /\ TypeOK'
  BY TypeStep DEF IInv
<1>2. /\ IsFiniteSet(Idle) /\ Cardinality(Idle) \in Nat
      /\ IsFiniteSet(Woken) /\ Cardinality(Woken) \in Nat
  BY <1>1, Finite
<1>3. /\ IsFiniteSet(Idle') /\ Cardinality(Idle') \in Nat
      /\ IsFiniteSet(Woken') /\ Cardinality(Woken') \in Nat
  <2>1. Idle' \in SUBSET Conns /\ Woken' \in SUBSET Threads
    BY <1>1 DEF TypeOK, Idle, Woken
  <2> QED  BY <2>1, FS_Subset, FS_CardinalityType, ConstantsAssumption
<1>4. ASSUME Idle' = {}
      PROVE  NoLostWakeup'
  BY <1>4, <1>3, FS_EmptySet
<1>5. ASSUME Waiting' = {}
      PROVE  NoLostWakeup'
  BY <1>5
<1>6. ASSUME Waiting' \subseteq Waiting, Idle' \subseteq Idle, Woken \subseteq Woken'
      PROVE  NoLostWakeup'
  <2>1. Cardinality(Idle') <= Cardinality(Idle)
    BY <1>2, <1>6, FS_Subset
  <2>2. Cardinality(Woken) <= Cardinality(Woken')
    BY <1>3, <1>6, FS_Subset
  <2> QED  BY <1>2, <1>3, <1>6, <2>1, <2>2 DEF IInv
<1>7. ASSUME NEW t \in Threads, TakeIdle(t), phase[t] \in Outside \cup {"woken"}
      PROVE  NoLostWakeup'
  <2>1. PICK c \in Idle : inUse' = inUse \cup {c}
    BY <1>7 DEF TakeIdle
  <2>2. Idle' = Idle \ {c}
    BY <2>1, <1>7 DEF TakeIdle, Idle
  <2>3. Cardinality(Idle') = Cardinality(Idle) - 1
    BY <1>2, <2>1, <2>2, FS_RemoveElement
  <2>4. Waiting' \subseteq Waiting /\ Woken' = Woken \ {t}
    BY <1>1, <1>7 DEF TakeIdle, Waiting, Woken, TypeOK
  <2>5. Cardinality(Woken') >= Cardinality(Woken) - 1
    <3>1. Cardinality(Woken \ {t}) =
            IF t \in Woken THEN Cardinality(Woken) - 1 ELSE Cardinality(Woken)
      BY <1>2, FS_RemoveElement
    <3> QED  BY <1>2, <2>4, <3>1
  <2> QED  BY <1>2, <1>3, <2>3, <2>4, <2>5 DEF IInv
<1>8. ASSUME NEW t \in Threads, TakeNew(t)
      PROVE  NoLostWakeup'
  <2>1. Idle' = {}
    BY <1>8 DEF TakeNew, Idle
  <2> QED  BY <2>1, <1>4
<1>9. ASSUME NothingFound
      PROVE  NoLostWakeup'
  <2>1. Idle' = {}
    BY <1>9 DEF NothingFound, Idle
  <2> QED  BY <2>1, <1>4
<1>10. ASSUME NEW t \in Threads, NEW timeout, newConnection(t, timeout) \/ AfterWait(t)
       PROVE  NoLostWakeup'
  <2>1. CASE findOrCreateConnection(t)
    BY <1>10, <2>1, <1>7, <1>8 DEF newConnection, AfterWait, findOrCreateConnection
  <2>2. CASE NothingFound
    BY <2>2, <1>9
  <2>3. CASE ~findOrCreateConnection(t) /\ ~NothingFound
    <3>1. UNCHANGED <<pool, inUse>> /\ phase' = [phase EXCEPT ![t] = "Disabled"]
          /\ phase[t] \in Outside
      BY <1>10, <2>3 DEF newConnection, AfterWait
    <3>2. Waiting' = Waiting /\ Woken' = Woken /\ Idle' = Idle
      BY <1>1, <3>1 DEF Waiting, Woken, Idle, TypeOK, Outside
    <3> QED  BY <3>2, <1>6
  <2> QED  BY <2>1, <2>2, <2>3
<1>11. ASSUME NEW t \in Threads, WaitTimedOut(t) \/ SpuriousWakeup(t)
       PROVE  NoLostWakeup'
  <2>1. Waiting' \subseteq Waiting /\ Woken \subseteq Woken' /\ Idle' = Idle
    BY <1>1, <1>11 DEF WaitTimedOut, SpuriousWakeup, Waiting, Woken, Idle, TypeOK
  <2> QED  BY <2>1, <1>6
<1>12. ASSUME NEW t \in Threads, release(t)
       PROVE  NoLostWakeup'
  <2> DEFINE c == handle[t]
  <2>1. c \in inUse /\ c \in Conns
    BY <1>1, <1>12 DEF release, ExclusiveHandles, Holding, IInv, TypeOK
  <2>2. \E n : Idle' \subseteq Idle \cup {n}
    BY <1>1, <1>12, <2>1 DEF release, CloseReleased, Idle, TypeOK
  <2>3. PICK n : Idle' \subseteq Idle \cup {n}
    BY <2>2
  <2>4. Cardinality(Idle') <= Cardinality(Idle) + 1
    <3>1. IsFiniteSet(Idle \cup {n}) /\ Cardinality(Idle \cup {n}) \in Nat
          /\ Cardinality(Idle \cup {n}) <= Cardinality(Idle) + 1
      BY <1>2, GrowsByOne, FS_AddElement
    <3>2. Cardinality(Idle') <= Cardinality(Idle \cup {n})
      BY <2>3, <3>1, FS_Subset
    <3> QED  BY <1>2, <1>3, <3>1, <3>2
  <2>5. CASE Waiting = {}
    <3>1. Waiting' = {}
      BY <1>1, <1>12, <2>5 DEF release, NotifyOne, Waiting, TypeOK
    <3> QED  BY <3>1, <1>5
  <2>6. CASE Waiting # {}
    <3>1. PICK w \in Waiting : phase' = [phase EXCEPT ![t] = "idle", ![w] = "woken"]
      BY <1>12, <2>6 DEF release, NotifyOne
    <3>2. Woken' = Woken \cup {w} /\ w \notin Woken
      BY <1>1, <1>12, <3>1 DEF release, Waiting, Woken, TypeOK
    <3>3. Cardinality(Woken') = Cardinality(Woken) + 1
      BY <1>2, <3>2, FS_AddElement
    <3> QED  BY <1>2, <1>3, <2>4, <2>6, <3>3 DEF IInv
  <2> QED  BY <2>5, <2>6
<1>13. ASSUME disable \/ enable
       PROVE  NoLostWakeup'
  <2>1. Waiting' = {}
    BY <1>1, <1>13 DEF disable, enable, NotifyAll, Waiting, TypeOK
  <2> QED  BY <2>1, <1>5
<1>14. ASSUME UNCHANGED vars
       PROVE  NoLostWakeup'
  <2>1. Waiting' = Waiting /\ Woken' = Woken /\ Idle' = Idle
    BY <1>14 DEF vars, Waiting, Woken, Idle
  <2> QED  BY <2>1, <1>6
<1> QED  BY <1>10, <1>11, <1>12, <1>13, <1>14 DEF Next, Timeouts

\* The conjunction of the invariants is inductive, so it holds always.
LEMMA Invariance == SafeSpec => []IInv
<1>1. ASSUME IInv, [Next]_vars
      PROVE  IInv'
  BY <1>1, TypeStep, CapacityStep, HandlesStep, DrainedStep, WakeupStep, UsesStep DEF IInv
<1> QED  BY <1>1, InitEstablishes, PTL DEF SafeSpec

\* The variables of the pool keep their types; useCount_ never goes negative.
THEOREM TypeCorrect == SafeSpec => []TypeOK
BY Invariance, PTL DEF IInv

\* No interleaving of the pool's operations makes the list longer than
\* maxpoolsize_.
THEOREM CapacityRespected == SafeSpec => []WithinCapacity
BY Invariance, PTL DEF IInv

\* No two threads ever hold the same connection, and a connection is marked
\* in use exactly while a thread holds it.
THEOREM HandlesExclusive == SafeSpec => []ExclusiveHandles
BY Invariance, PTL DEF IInv

\* After disable nothing is idle and nobody waits, for as long as the pool is
\* disabled.
THEOREM DisabledIsDrained == SafeSpec => []DrainedWhenDisabled
BY Invariance, PTL DEF IInv

\* No wakeup is lost although newConnection waits without a predicate loop.
THEOREM WakeupsNotLost == SafeSpec => []NoLostWakeup
BY Invariance, PTL DEF IInv

\* A connection is never handed out more than maxUseCount_ times.
THEOREM UsesBounded == SafeSpec => []UsesAreCounted
BY Invariance, PTL DEF IInv

(***************************************************************************)
(* Refinement of LeasePool.                                                *)
(***************************************************************************)

\* What is leased, in terms of LeasePool, is what is marked in use.
LEMMA LeasedIsInUse ==
  ASSUME IInv
  PROVE  Leases!Leased = inUse
BY ConstantsAssumption DEF IInv, TypeOK, ExclusiveHandles, Holding, Leases!Leased

\* Taking a connection, idle or new, is a Grant: the pool is enabled, there
\* is a lease left and the connection is leased to nobody.
LEMMA TakingGrants ==
  ASSUME IInv, IInv', NEW t \in Threads, findOrCreateConnection(t),
         phase[t] \in Outside \cup {"woken"}
  PROVE  Leases!Grant(t)
<1> USE DEF IInv, TypeOK
<1>1. PICK c \in Conns \ inUse : /\ inUse' = inUse \cup {c}
                                 /\ handle' = [handle EXCEPT ![t] = c]
  BY DEF findOrCreateConnection, TakeIdle, TakeNew, Idle, Fresh
<1>2. isEnabled /\ isEnabled' = isEnabled
  BY DEF findOrCreateConnection, TakeIdle, TakeNew, CanCreateIn, DrainedWhenDisabled
<1>3. handle[t] = NoConn
  BY DEF ExclusiveHandles, Outside
<1>4. Cardinality(inUse) < maxpoolsize
  <2>1. Cardinality(inUse') = Cardinality(inUse) + 1 /\ Cardinality(inUse) \in Nat
    BY <1>1, Finite, FS_AddElement
  <2>2. IsFiniteSet(pool') /\ Cardinality(pool') \in Nat
    <3>1. pool' \in SUBSET Conns
      OBVIOUS
    <3> QED  BY <3>1, ConstantsAssumption, FS_Subset, FS_CardinalityType
  <2>3. Cardinality(inUse') <= Cardinality(pool')
    BY <2>2, FS_Subset
  <2>4. Cardinality(pool') <= maxpoolsize
    BY DEF WithinCapacity
  <2> QED  BY <2>1, <2>2, <2>3, <2>4, Sizes
<1>5. (Waiting \cup Woken)' = (Waiting \cup Woken) \ {t}
  BY DEF findOrCreateConnection, TakeIdle, TakeNew, Waiting, Woken
<1>6. Leases!Cardinality(inUse) = Cardinality(inUse)
  BY Zenon DEF Leases!Cardinality, Cardinality, Leases!IsFiniteSet, IsFiniteSet
<1> QED  BY <1>1, <1>2, <1>3, <1>4, <1>5, <1>6, LeasedIsInUse DEF Leases!Grant

\* Every step of the pool is a step of LeasePool or changes nothing there.
LEMMA StepRefines ==
  ASSUME IInv, IInv', [Next]_vars
  PROVE  [Leases!Next]_Leases!vars
<1> USE DEF IInv, TypeOK
<1>1. ASSUME NEW t \in Threads, NEW timeout, newConnection(t, timeout)
      PROVE  [Leases!Next]_Leases!vars
  <2>1. CASE findOrCreateConnection(t)
    <3>1. phase[t] \in Outside
      BY <1>1 DEF newConnection
    <3> QED  BY <2>1, <3>1, TakingGrants DEF Leases!Next
  <2>2. CASE isEnabled /\ ~findOrCreateConnection(t)
    <3>1. phase[t] \in Outside /\ UNCHANGED <<handle, isEnabled>>
          /\ \/ phase' = [phase EXCEPT ![t] = "MaxUse"]
             \/ phase' = [phase EXCEPT ![t] = "waiting"]
      BY <1>1, <2>2 DEF newConnection, NothingFound
    <3>2. handle[t] = NoConn /\ t \notin Waiting \cup Woken
      BY <3>1 DEF ExclusiveHandles, Waiting, Woken, Outside
    <3>3. CASE phase' = [phase EXCEPT ![t] = "MaxUse"]
      <4>1. (Waiting \cup Woken)' = Waiting \cup Woken
        BY <3>1, <3>3 DEF Waiting, Woken, Outside
      <4> QED  BY <3>1, <4>1 DEF Leases!vars
    <3>4. CASE phase' = [phase EXCEPT ![t] = "waiting"]
      <4>1. (Waiting \cup Woken)' = (Waiting \cup Woken) \cup {t}
        BY <3>4 DEF Waiting, Woken
      <4>2. Leases!Ask(t)
        BY <2>2, <3>1, <3>2, <4>1 DEF Leases!Ask
      <4> QED  BY <4>2 DEF Leases!Next
    <3> QED  BY <3>1, <3>3, <3>4
  <2>3. CASE ~isEnabled /\ ~findOrCreateConnection(t)
    <3>1. phase[t] \in Outside /\ UNCHANGED <<handle, isEnabled>>
          /\ phase' = [phase EXCEPT ![t] = "Disabled"]
      BY <1>1, <2>3 DEF newConnection
    <3>2. (Waiting \cup Woken)' = Waiting \cup Woken
      BY <3>1 DEF Waiting, Woken, Outside
    <3> QED  BY <3>1, <3>2 DEF Leases!vars
  <2> QED  BY <2>1, <2>2, <2>3
<1>2. ASSUME NEW t \in Threads, UNCHANGED <<handle, isEnabled>>, t \in Waiting \cup Woken,
             phase' = [phase EXCEPT ![t] = "MaxUse"]
      PROVE  [Leases!Next]_Leases!vars
  <2>1. (Waiting \cup Woken)' = (Waiting \cup Woken) \ {t}
    BY <1>2 DEF Waiting, Woken
  <2>2. Leases!Refuse(t)
    BY <1>2, <2>1 DEF Leases!Refuse
  <2> QED  BY <2>2 DEF Leases!Next
<1>3. ASSUME NEW t \in Threads, WaitTimedOut(t)
      PROVE  [Leases!Next]_Leases!vars
  BY <1>3, <1>2 DEF WaitTimedOut, Waiting
<1>4. ASSUME NEW t \in Threads, SpuriousWakeup(t)
      PROVE  [Leases!Next]_Leases!vars
  <2>1. (Waiting \cup Woken)' = Waiting \cup Woken
    BY <1>4 DEF SpuriousWakeup, Waiting, Woken
  <2> QED  BY <1>4, <2>1 DEF SpuriousWakeup, Leases!vars
<1>5. ASSUME NEW t \in Threads, AfterWait(t)
      PROVE  [Leases!Next]_Leases!vars
  <2>1. CASE findOrCreateConnection(t)
    <3>1. phase[t] = "woken"
      BY <1>5 DEF AfterWait
    <3> QED  BY <2>1, <3>1, TakingGrants DEF Leases!Next
  <2>2. CASE ~findOrCreateConnection(t)
    BY <1>5, <2>2, <1>2 DEF AfterWait, NothingFound, Woken
  <2> QED  BY <2>1, <2>2
<1>6. ASSUME NEW t \in Threads, release(t)
      PROVE  [Leases!Next]_Leases!vars
  <2>1. handle[t] # NoConn
    BY <1>6, ConstantsAssumption DEF release, ExclusiveHandles, Holding
  <2>2. (Waiting \cup Woken)' = Waiting \cup Woken
    BY <1>6 DEF release, NotifyOne, Waiting, Woken
  <2>3. Leases!Return(t)
    BY <1>6, <2>1, <2>2 DEF release, Leases!Return
  <2> QED  BY <2>3 DEF Leases!Next
<1>7. ASSUME disable \/ enable
      PROVE  [Leases!Next]_Leases!vars
  <2>1. (Waiting \cup Woken)' = Waiting \cup Woken
    BY <1>7 DEF disable, enable, NotifyAll, Waiting, Woken
  <2>2. Leases!Close \/ Leases!Reopen
    BY <1>7, <2>1 DEF disable, enable, Leases!Close, Leases!Reopen
  <2> QED  BY <2>2 DEF Leases!Next
<1>8. ASSUME UNCHANGED vars
      PROVE  [Leases!Next]_Leases!vars
  BY <1>8 DEF vars, Leases!vars, Waiting, Woken
<1> QED  BY <1>1, <1>3, <1>4, <1>5, <1>6, <1>7, <1>8 DEF Next

\* The pool implements the safety part of LeasePool: exclusive leases, never
\* more than maxpoolsize_ of them, none granted by a disabled pool, and no
\* thread waits that was not promised an answer. (That each is answered is
\* left to TLC.)
THEOREM PoolImplementsLeases == SafeSpec => Leases!SafeSpec
<1>1. Init => Leases!Init
  BY DEF Init, Leases!Init, Waiting, Woken
<1>2. ASSUME IInv, IInv', [Next]_vars
      PROVE  [Leases!Next]_Leases!vars
  BY <1>2, StepRefines
<1> QED  BY <1>1, <1>2, Invariance, PTL DEF SafeSpec, Leases!SafeSpec

================================================================================
