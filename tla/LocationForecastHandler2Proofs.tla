--------------------- MODULE LocationForecastHandler2Proofs ---------------------
(***************************************************************************)
(* Proofs about LocationForecastHandler2, for any number of threads, of    *)
(* generations of models and of versions of the note, whichever look-ups   *)
(* fail: a request never meets a null pointer, the request that brought a  *)
(* note serves from what was resolved against it, and only notes destroy   *)
(* what another thread is using.                                           *)
(***************************************************************************)
EXTENDS LocationForecastHandler2, TLAPS

Protocols == {Uninitialized, Fallback, Spoken}

\* The members of the handler.
Members ==
  [updateid : BOOLEAN,
   wciProtocol : Protocols,
   wciProtocolIsInitialized : BOOLEAN,
   projectionHelperIsInitialized : BOOLEAN,
   providerPriority : Generations,
   providerPriorityIsInitialized : BOOLEAN,
   providerReftimes : Generations \cup {None},
   paramDefsPtr : Nat \ {0},
   queryMaker : (Nat \ {0}) \cup {None}]

\* What the variables may be.
Types ==
  /\ db \in 1..MaxModels
  /\ note \in [version : 0..MaxVersion, gen : Generations]
  /\ seen \in (0..MaxVersion) \cup {None}
  /\ handler \in Members
  /\ paramDefs \in Seq(Generations)
  /\ makers \in Seq(Protocols)
  /\ thread \in [Threads -> ThreadStates]

\* Where a request has the handler configured and has not yet copied from it.
Copying == {"reftimes", "save", "use", "copy", "protected"}
Serving == {"serve", "default"}

\* x is of a failed look-up or at least as new as n.
Fresh(x, n) == x = 0 \/ x >= n

\* The provider list and the provider groups of the handler are.
HandlerFresh(n) ==
  Fresh(handler.providerPriority, n) /\ Fresh(paramDefs[handler.paramDefsPtr], n)

\* The handler points at objects that were made, and neither its reference
\* times nor the note are newer than the database.
HandlerOK ==
  /\ handler.paramDefsPtr <= Len(paramDefs)
  /\ handler.queryMaker # None => handler.queryMaker <= Len(makers)
  /\ note.gen <= db
  /\ handler.providerReftimes # None => handler.providerReftimes <= db

\* A thread points at objects that were made, and finds the handler with a
\* query maker once it is configured.
Made(s) ==
  /\ s.pc \in Copying \cup Serving \cup {"specific"} => handler.queryMaker # None
  /\ s.pc \in Serving => s.paramDefs \in 1..Len(paramDefs)
  /\ s.pc = "specific" => s.maker \in 1..Len(makers)

\* The handler has a list of reference times once a thread has asked for it,
\* and keeps it.
HasList(s) ==
  /\ s.pc \in {"save", "use", "copy"} => handler.providerReftimes # None
  /\ s.pc \in {"copy", "protected", "serve", "default"} => s.refTimes # None

\* What was resolved since a note came is as new as the note, and so is what
\* a thread has copied that brought the note.
Resolved(s) ==
  /\ s.pc # "idle" => s.note <= db
  /\ s.pc = "configure" /\ handler.providerPriorityIsInitialized => HandlerFresh(s.note)
  /\ s.pc \in Copying => HandlerFresh(s.note)
  /\ s.pc \in Serving =>
       Fresh(s.providerPriority, s.note) /\ Fresh(paramDefs[s.paramDefs], s.note)

\* A thread goes to another state.
Moves(t, rec) == thread' = [thread EXCEPT ![t] = rec]

\* What is true of a thread.
ThreadOK(s) == Made(s) /\ HasList(s) /\ Resolved(s)

\* The inductive invariant.
IInv ==
  /\ Types
  /\ HandlerOK
  /\ \A t \in Threads : ThreadOK(thread[t])

----------------------------------------------------------------------------
(* The states of a thread                                                   *)

\* What a thread's state says of its fields.
LEMMA Shape ==
  ASSUME NEW s \in ThreadStates
  PROVE  /\ s.pc \in {"idle", "deliver", "configure", "reftimes", "save", "use",
                      "copy", "protected", "serve", "default", "specific", "querys"}
         /\ s.pc # "idle" => s.note \in Generations
         /\ s.pc \in {"copy", "protected", "serve", "default"} =>
              s.refTimes \in Generations \cup {None}
         /\ s.pc \in Serving => s.providerPriority \in Generations /\ s.paramDefs \in Nat
         /\ s.pc = "reftimes" =>
              \A pc \in {"save", "use"} :
                /\ [s EXCEPT !.pc = pc] \in ThreadStates
                /\ [s EXCEPT !.pc = pc].pc = pc
                /\ [s EXCEPT !.pc = pc].note = s.note
         /\ s.pc = "save" =>
              /\ [s EXCEPT !.pc = "use"] \in ThreadStates
              /\ [s EXCEPT !.pc = "use"].pc = "use"
              /\ [s EXCEPT !.pc = "use"].note = s.note
         /\ s.pc = "serve" =>
              /\ [s EXCEPT !.pc = "default"] \in ThreadStates
              /\ [s EXCEPT !.pc = "default"].pc = "default"
              /\ [s EXCEPT !.pc = "default"].note = s.note
              /\ [s EXCEPT !.pc = "default"].refTimes = s.refTimes
              /\ [s EXCEPT !.pc = "default"].providerPriority = s.providerPriority
              /\ [s EXCEPT !.pc = "default"].paramDefs = s.paramDefs
<1> DEFINE A == [pc : {"deliver", "configure", "reftimes", "save", "use", "querys"},
                 note : Generations]
           B == [pc : {"copy", "protected"}, note : Generations, refTimes : Generations \cup {None}]
           C == [pc : {"serve", "default"}, note : Generations,
                 refTimes : Generations \cup {None}, providerPriority : Generations,
                 paramDefs : Nat]
           D == [pc : {"specific"}, note : Generations, maker : Nat]
<1>1. CASE s = Idle
  BY <1>1 DEF Idle, Serving
<1>2. CASE s \in A
  BY <1>2 DEF ThreadStates, Serving
<1>3. CASE s \in B \cup D
  BY <1>3 DEF Serving
<1>4. CASE s \in C
  BY <1>4 DEF ThreadStates, Serving
<1> QED BY <1>1, <1>2, <1>3, <1>4 DEF ThreadStates

\* The states a thread goes to.
LEMMA NewStates ==
  /\ Idle \in ThreadStates /\ Idle.pc = "idle"
  /\ \A n \in Generations, pc \in {"deliver", "configure", "reftimes", "querys"} :
       [pc |-> pc, note |-> n] \in ThreadStates
  /\ \A n \in Generations, r \in Generations \cup {None}, pc \in {"copy", "protected"} :
       [pc |-> pc, note |-> n, refTimes |-> r] \in ThreadStates
  /\ \A n \in Generations, r \in Generations \cup {None}, p \in Generations, d \in Nat :
       [pc |-> "serve", note |-> n, refTimes |-> r, providerPriority |-> p, paramDefs |-> d]
         \in ThreadStates
  /\ \A n \in Generations, m \in Nat :
       [pc |-> "specific", note |-> n, maker |-> m] \in ThreadStates
BY DEF ThreadStates, Idle

\* configure makes a handler that has resolved nothing.
LEMMA InitEstablishes == Init => IInv
<1> SUFFICES ASSUME Init PROVE IInv
  OBVIOUS
<1> USE HandlerAssumption DEF Init
<1>1. Types
  <2>1. handler \in Members
    BY DEF Members, Generations, Protocols
  <2>2. paramDefs \in Seq(Generations) /\ makers \in Seq(Protocols)
    BY DEF Generations
  <2> QED BY <2>1, <2>2, NewStates DEF Types, Generations
<1>2. \A t \in Threads : thread[t].pc = "idle"
  BY NewStates
<1>3. HandlerOK /\ \A t \in Threads : ThreadOK(thread[t])
  BY <1>2 DEF HandlerOK, ThreadOK, Made, HasList, Resolved, Copying, Serving
<1> QED BY <1>1, <1>3 DEF IInv

----------------------------------------------------------------------------
(* The steps                                                                *)

\* What the invariant says of the parts of the state.
LEMMA Parts ==
  ASSUME IInv
  PROVE  /\ db \in Nat /\ db \in 1..MaxModels /\ 0 \in Generations /\ db \in Generations
         /\ Generations \subseteq Nat
         /\ note.gen \in Generations /\ note.gen <= db /\ note.version \in 0..MaxVersion
         /\ handler.wciProtocol \in Protocols
         /\ handler.providerPriority \in Generations
         /\ handler.providerReftimes \in Generations \cup {None}
         /\ handler.paramDefsPtr \in 1..Len(paramDefs)
         /\ handler.queryMaker # None => handler.queryMaker \in 1..Len(makers)
         /\ \A t \in Threads : thread[t].pc # "idle" => thread[t].note \in Generations
         /\ \A t \in Threads : thread[t] \in ThreadStates /\ ThreadOK(thread[t])
<1>1. Types /\ HandlerOK /\ handler \in Members
  BY DEF IInv, Types
<1>2. Generations \subseteq Nat /\ 0 \in Generations /\ db \in Generations /\ db \in Nat
  BY <1>1, HandlerAssumption DEF Types, Generations
<1>3. /\ handler.wciProtocol \in Protocols
      /\ handler.providerPriority \in Generations
      /\ handler.providerReftimes \in Generations \cup {None}
      /\ handler.paramDefsPtr \in Nat \ {0}
      /\ handler.queryMaker \in (Nat \ {0}) \cup {None}
  BY <1>1 DEF Members
<1>4. \A t \in Threads : thread[t] \in ThreadStates /\ ThreadOK(thread[t])
  BY DEF IInv, Types
<1>5. \A t \in Threads : thread[t].pc # "idle" => thread[t].note \in Generations
  BY <1>4, Shape, Zenon
<1>6. Len(paramDefs) \in Nat /\ Len(makers) \in Nat
  BY <1>1 DEF Types
<1>7. handler.paramDefsPtr \in 1..Len(paramDefs)
  BY <1>1, <1>3, <1>6 DEF HandlerOK
<1>8. handler.queryMaker # None => handler.queryMaker \in 1..Len(makers)
  BY <1>1, <1>3, <1>6 DEF HandlerOK
<1>9. db \in 1..MaxModels /\ note.gen \in Generations /\ note.gen <= db /\ note.version \in 0..MaxVersion
  BY <1>1 DEF Types, HandlerOK
<1> QED BY <1>2, <1>3, <1>4, <1>5, <1>7, <1>8, <1>9

\* What a step of a thread is to keep: the handler's part, what the invariant
\* says of the other threads, and what it says of the thread's new state.
LEMMA MoveStep ==
  ASSUME IInv, NEW t \in Threads, NEW rec \in ThreadStates,
         Moves(t, rec), Types', HandlerOK', ThreadOK(rec)',
         \A s \in ThreadStates : ThreadOK(s) => ThreadOK(s)'
  PROVE  IInv'
<1>1. \A u \in Threads : thread[u] \in ThreadStates /\ ThreadOK(thread[u])
  BY DEF IInv, Types
<1>2. \A u \in Threads : thread'[u] = IF u = t THEN rec ELSE thread[u]
  BY DEF IInv, Types, Moves
<1>3. ASSUME NEW u \in Threads PROVE ThreadOK(thread[u])'
  <2>1. PICK s \in ThreadStates : s = thread'[u] /\ ThreadOK(s)'
    BY <1>1, <1>2
  <2> QED BY <2>1 DEF ThreadOK, Made, HasList, Resolved
<1> QED BY <1>3 DEF IInv

\* A thread goes on without touching what the threads share, but the note.
LEMMA OwnStep ==
  ASSUME IInv, NEW t \in Threads, NEW rec \in ThreadStates, Moves(t, rec), ThreadOK(rec),
         UNCHANGED <<db, handler, paramDefs, makers>>,
         note' \in [version : 0..MaxVersion, gen : Generations], note'.gen <= db,
         seen' \in (0..MaxVersion) \cup {None}
  PROVE  IInv'
<1>1. Types' /\ HandlerOK'
  BY DEF IInv, Types, HandlerOK, Moves
<1>2. ASSUME NEW s, ThreadOK(s) PROVE ThreadOK(s)'
  BY <1>2 DEF ThreadOK, Made, HasList, Resolved, HandlerFresh
<1> QED BY <1>1, <1>2, MoveStep

\* Models arrive, and the update handler makes a note of those of now.
LEMMA WorldStep == ASSUME IInv, NewModels \/ Updated PROVE IInv'
<1>1. Types' /\ HandlerOK'
  <2>1. /\ db' \in 1..MaxModels /\ db <= db'
        /\ UNCHANGED <<seen, handler, paramDefs, makers, thread>>
    BY Parts, HandlerAssumption DEF NewModels, Updated, setNote
  <2>2. /\ note' \in [version : 0..MaxVersion, gen : Generations]
        /\ note'.gen <= db'
    <3>1. CASE NewModels
      BY <3>1, <2>1, Parts, HandlerAssumption DEF NewModels, IInv, Types
    <3>2. CASE Updated
      BY <3>2, Parts, HandlerAssumption DEF Updated, setNote
    <3> QED BY <3>1, <3>2
  <2>3. handler.providerReftimes # None => handler.providerReftimes <= db'
    BY <2>1, Parts, HandlerAssumption DEF IInv, HandlerOK
  <2> QED BY <2>1, <2>2, <2>3 DEF IInv, Types, HandlerOK
<1>2. ASSUME NEW t \in Threads PROVE ThreadOK(thread[t])'
  <2> DEFINE s == thread[t]
  <2>1. s \in ThreadStates /\ ThreadOK(s)
    BY DEF IInv, Types
  <2>2. s.pc # "idle" => s.note \in Nat
    BY Parts
  <2>3. /\ db \in Nat /\ db' \in Nat /\ db <= db'
        /\ UNCHANGED <<handler, paramDefs, makers, thread>>
    BY HandlerAssumption DEF IInv, Types, NewModels, Updated, setNote
  <2> QED BY <2>1, <2>2, <2>3 DEF ThreadOK, Made, HasList, Resolved, HandlerFresh
<1> QED BY <1>1, <1>2 DEF IInv

\* The steps of get() that write nothing the threads share: a query that does
\* not decode, and everything after the reference times are used.
LEMMA ReadStep ==
  ASSUME IInv, NEW t \in Threads,
         \/ decodeQueryFails(t) \/ useReftimes(t) \/ copyReftimes(t) \/ getProtectedData(t)
         \/ doStatus(t) \/ getHightInInit(t) \/ requestWdbDefault(t) \/ requestWdbSpecific(t)
         \/ getWdbReadQuerys(t) \/ encode(t)
  PROVE  IInv'
<1> DEFINE s == thread[t]
<1>1. /\ s \in ThreadStates /\ ThreadOK(s)
      /\ UNCHANGED <<db, note, seen, handler, paramDefs, makers>>
  BY DEF IInv, Types, decodeQueryFails, useReftimes, copyReftimes, getProtectedData, doStatus,
         getHightInInit, requestWdbDefault, requestWdbSpecific, getWdbReadQuerys, encode
<1>2. /\ note' \in [version : 0..MaxVersion, gen : Generations] /\ note'.gen <= db
      /\ seen' \in (0..MaxVersion) \cup {None}
      /\ handler \in Members
  BY <1>1 DEF IInv, Types, HandlerOK
<1>a. ASSUME NEW rec \in ThreadStates, Moves(t, rec), ThreadOK(rec) PROVE IInv'
  BY <1>a, <1>1, <1>2, OwnStep
<1>3. CASE Return(t)
  <2>1. ThreadOK(Idle)
    BY NewStates DEF ThreadOK, Made, HasList, Resolved, Copying, Serving
  <2> QED BY <2>1, <1>3, <1>a, NewStates DEF Return, Moves, Step, StepUnder
<1>4. CASE useReftimes(t)
  <2> DEFINE rec == [pc |-> "copy", note |-> s.note, refTimes |-> handler.providerReftimes]
  <2>1. s.pc = "use" /\ Moves(t, rec)
    BY <1>4 DEF useReftimes, At, Moves, Step, StepUnder
  <2>2. rec \in ThreadStates
    BY <1>1, <1>2, <2>1, Shape, NewStates DEF Members
  <2>3. ThreadOK(rec)
    BY <1>1, <2>1 DEF ThreadOK, Made, HasList, Resolved, Copying, Serving
  <2> HIDE DEF rec
  <2> QED BY <2>1, <2>2, <2>3, <1>a
<1>5. CASE getProtectedData(t)
  <2> DEFINE rec == [pc |-> "serve", note |-> s.note, refTimes |-> s.refTimes,
                     providerPriority |-> handler.providerPriority,
                     paramDefs |-> handler.paramDefsPtr]
  <2>1. s.pc = "protected" /\ Moves(t, rec)
    BY <1>5 DEF getProtectedData, At, Moves, Step, StepUnder
  <2>2. /\ s.note \in Generations /\ s.refTimes \in Generations \cup {None}
        /\ handler.providerPriority \in Generations
        /\ handler.paramDefsPtr \in Nat /\ handler.paramDefsPtr \in 1..Len(paramDefs)
    <3>1. s.refTimes \in Generations \cup {None}
      BY <1>1, <2>1, Shape
    <3> QED BY <2>1, <3>1, Parts
  <2>3. rec \in ThreadStates
    BY <2>2, NewStates, Zenon
  <2>4. ThreadOK(rec)
    BY <1>1, <2>1, <2>2 DEF ThreadOK, Made, HasList, Resolved, HandlerFresh, Copying, Serving
  <2> HIDE DEF rec
  <2> QED BY <2>1, <2>3, <2>4, <1>a
<1>6. CASE requestWdbDefault(t)
  <2> DEFINE rec == [s EXCEPT !.pc = "default"]
  <2>1. s.pc = "serve" /\ Moves(t, rec)
    BY <1>6 DEF requestWdbDefault, At, Moves, Step, StepUnder
  <2>2. /\ rec \in ThreadStates /\ rec.pc = "default" /\ rec.note = s.note
        /\ rec.refTimes = s.refTimes /\ rec.providerPriority = s.providerPriority
        /\ rec.paramDefs = s.paramDefs
    BY <1>1, <2>1, Shape
  <2> HIDE DEF rec
  <2>3. ThreadOK(rec)
    BY <1>1, <2>1, <2>2 DEF ThreadOK, Made, HasList, Resolved, Copying, Serving
  <2> QED BY <2>1, <2>2, <2>3, <1>a
<1>7. CASE requestWdbSpecific(t)
  <2> DEFINE rec == [pc |-> "specific", note |-> s.note, maker |-> handler.queryMaker]
  <2>1. s.pc = "serve" /\ Moves(t, rec)
    BY <1>7 DEF requestWdbSpecific, At, Moves, Step, StepUnder
  <2>2. s.note \in Generations /\ handler.queryMaker \in 1..Len(makers)
    BY <1>1, <2>1, Parts DEF ThreadOK, Made, Serving
  <2>3. rec \in ThreadStates
    BY <2>2, NewStates DEF IInv, Types
  <2>4. ThreadOK(rec)
    BY <1>1, <2>1, <2>2 DEF ThreadOK, Made, HasList, Resolved, Copying, Serving
  <2> HIDE DEF rec
  <2> QED BY <2>1, <2>3, <2>4, <1>a
<1>8. CASE copyReftimes(t)
  <2>1. PICK r \in {s.refTimes, handler.providerReftimes} :
          Step(t, [pc |-> "protected", note |-> s.note, refTimes |-> r])
    BY <1>8 DEF copyReftimes
  <2> DEFINE rec == [pc |-> "protected", note |-> s.note, refTimes |-> r]
  <2>2. s.pc = "copy" /\ Moves(t, rec)
    BY <1>8, <2>1 DEF copyReftimes, At, Moves, Step, StepUnder
  <2>a. s.note \in Generations /\ s.refTimes \in Generations \cup {None}
    BY <1>1, <2>2, Shape
  <2>b. /\ handler.providerReftimes \in Generations \cup {None}
        /\ handler.providerReftimes # None /\ s.refTimes # None
    BY <1>1, <1>2, <2>2 DEF ThreadOK, HasList, Members
  <2>3. s.note \in Generations /\ r \in Generations \cup {None} /\ r # None
    BY <2>a, <2>b
  <2>4. rec \in ThreadStates
    BY <2>3, NewStates
  <2>5. ThreadOK(rec)
    BY <1>1, <2>2, <2>3 DEF ThreadOK, Made, HasList, Resolved, Copying, Serving
  <2> HIDE DEF rec
  <2> QED BY <2>2, <2>4, <2>5, <1>a
<1>9. CASE getWdbReadQuerys(t)
  <2> DEFINE rec == [pc |-> "querys", note |-> s.note]
  <2>1. s.pc = "specific" /\ Moves(t, rec)
    BY <1>9 DEF getWdbReadQuerys, At, Moves, Step, StepUnder
  <2>2. rec \in ThreadStates
    BY <1>1, <2>1, Shape, NewStates
  <2>3. ThreadOK(rec)
    BY <1>1, <2>1 DEF ThreadOK, Made, HasList, Resolved, Copying, Serving
  <2> HIDE DEF rec
  <2> QED BY <2>1, <2>2, <2>3, <1>a
<1> QED BY <1>3, <1>4, <1>5, <1>6, <1>7, <1>8, <1>9
        DEF decodeQueryFails, doStatus, getHightInInit, encode

\* The steps that read the note or make one.
LEMMA NoteStep ==
  ASSUME IInv, NEW t \in Threads, checkForUpdatedNotes(t) \/ saveReftimes(t)
  PROVE  IInv'
<1> DEFINE s == thread[t]
<1>1. s \in ThreadStates /\ ThreadOK(s) /\ handler \in Members /\ HandlerOK
  BY DEF IInv, Types
<1>2. CASE checkForUpdatedNotes(t)
  <2>1. PICK rec \in {[pc |-> "deliver", note |-> note.gen], [pc |-> "configure", note |-> 0]} :
          /\ Moves(t, rec) /\ seen' \in {seen, note.version}
          /\ rec.pc = "configure" => rec.note = 0
    BY <1>2 DEF checkForUpdatedNotes, Moves, Step, StepUnder
  <2>2. /\ db \in Nat /\ note.gen \in Generations /\ note.gen <= db /\ note.version \in 0..MaxVersion
        /\ 0 \in Generations /\ seen \in (0..MaxVersion) \cup {None}
        /\ note \in [version : 0..MaxVersion, gen : Generations]
    BY Parts DEF IInv, Types
  <2>3. rec \in ThreadStates /\ rec.note \in Generations /\ rec.note <= db
    <3>1. CASE rec = [pc |-> "deliver", note |-> note.gen]
      BY <3>1, <2>2, NewStates
    <3>2. CASE rec = [pc |-> "configure", note |-> 0]
      <4>1. [pc |-> "configure", note |-> 0] \in ThreadStates
        BY <2>2, NewStates, Zenon
      <4> QED BY <4>1, <3>2, <2>2
    <3> QED BY <3>1, <3>2
  <2>4. \A x \in Generations : Fresh(x, 0)
    BY HandlerAssumption DEF Fresh, Generations
  <2>5. HandlerFresh(0)
    BY <2>4, <1>1 DEF HandlerFresh, HandlerOK, IInv, Types, Members
  <2>6. ThreadOK(rec)
    BY <2>1, <2>3, <2>5 DEF ThreadOK, Made, HasList, Resolved, Copying, Serving
  <2>7. UNCHANGED <<db, note, handler, paramDefs, makers>>
    BY <1>2 DEF checkForUpdatedNotes
  <2> QED BY <2>1, <2>2, <2>3, <2>6, <2>7, OwnStep
<1>3. CASE saveReftimes(t)
  <2> DEFINE rec == [s EXCEPT !.pc = "use"]
  <2>1. s.pc = "save" /\ Moves(t, rec) /\ setNote(handler.providerReftimes)
        /\ UNCHANGED <<db, seen, handler, paramDefs, makers>>
    BY <1>3 DEF saveReftimes, At, Moves, Step, StepUnder
  <2>2. rec \in ThreadStates /\ rec.pc = "use" /\ rec.note = s.note
    BY <1>1, <2>1, Shape
  <2> HIDE DEF rec
  <2>3. ThreadOK(rec)
    BY <1>1, <2>1, <2>2 DEF ThreadOK, Made, HasList, Resolved, Copying, Serving
  <2>4. handler.providerReftimes \in Generations /\ handler.providerReftimes <= db
    BY <1>1, <2>1 DEF ThreadOK, HasList, HandlerOK, Members
  <2>5. /\ note' \in [version : 0..MaxVersion, gen : Generations] /\ note'.gen <= db
        /\ seen' \in (0..MaxVersion) \cup {None}
    BY <2>1, <2>4, HandlerAssumption DEF setNote, IInv, Types
  <2> QED BY <2>1, <2>2, <2>3, <2>5, OwnStep
<1> QED BY <1>2, <1>3

\* A note is taken: the copies of the parameter definitions and the new query
\* maker are where the handler points, and what was resolved waits.
LEMMA UpdateStep == ASSUME IInv, NEW t \in Threads, noteUpdated(t) PROVE IInv'
<1> DEFINE s == thread[t]
           h == handler
<1>1. s \in ThreadStates /\ s.pc = "deliver" /\ s.note \in Generations /\ s.note <= db
  <2>1. s.pc = "deliver"
    BY DEF noteUpdated, At
  <2> QED BY <2>1, Parts DEF ThreadOK, Resolved
<1>2. UNCHANGED <<db, note, seen>>
  BY DEF noteUpdated
<1>3. PICK rec \in ThreadStates : rec.pc = "configure" /\ rec.note = s.note /\ Moves(t, rec)
  <2>1. [pc |-> "configure", note |-> s.note] \in ThreadStates
    BY <1>1, NewStates
  <2> QED BY <2>1 DEF noteUpdated, Moves, StepUnder
<1>4. /\ paramDefs' \in Seq(Generations) /\ Len(paramDefs') = Len(paramDefs) + 1
      /\ \A i \in 1..Len(paramDefs) : paramDefs'[i] = paramDefs[i]
      /\ paramDefs'[Len(paramDefs) + 1] = paramDefs[h.paramDefsPtr]
      /\ Len(paramDefs) \in Nat
  <2>1. paramDefs \in Seq(Generations) /\ paramDefs[h.paramDefsPtr] \in Generations
    BY Parts DEF IInv, Types
  <2> QED BY <2>1 DEF noteUpdated
<1>5. /\ makers' \in Seq(Protocols) /\ Len(makers') = Len(makers) + 1
      /\ Len(makers) \in Nat
  <2>1. makers \in Seq(Protocols) /\ h.wciProtocol \in Protocols
    BY Parts DEF IInv, Types
  <2> QED BY <2>1 DEF noteUpdated
<1>6. /\ handler' \in Members
      /\ handler'.providerPriority = h.providerPriority
      /\ ~handler'.providerPriorityIsInitialized
      /\ handler'.providerReftimes = s.note
      /\ handler'.paramDefsPtr = Len(paramDefs) + 1
      /\ handler'.queryMaker = Len(makers) + 1
  <2>1. h \in Members
    BY DEF IInv, Types
  <2>2. /\ Len(paramDefs) + 1 \in Nat \ {0} /\ Len(makers) + 1 \in (Nat \ {0}) \cup {None}
        /\ s.note \in Generations \cup {None}
    BY <1>1, <1>4, <1>5
  <2>3. handler' = [handler EXCEPT
          !.providerReftimes = s.note,
          !.projectionHelperIsInitialized = FALSE,
          !.providerPriorityIsInitialized = FALSE,
          !.paramDefsPtr = Len(paramDefs) + 1,
          !.queryMaker = Len(makers) + 1]
    BY DEF noteUpdated
  <2> QED BY <2>1, <2>2, <2>3 DEF Members
<1>7. None \notin Nat
  BY HandlerAssumption
<1>8. Types'
  BY <1>2, <1>3, <1>4, <1>5, <1>6 DEF IInv, Types, Moves
<1>9. HandlerOK'
  BY <1>1, <1>2, <1>4, <1>5, <1>6 DEF IInv, HandlerOK
<1>10. ASSUME NEW u \in ThreadStates, ThreadOK(u) PROVE ThreadOK(u)'
  <2>1. Made(u)'
    BY <1>4, <1>5, <1>6, <1>7, <1>10 DEF ThreadOK, Made
  <2>2. HasList(u)'
    BY <1>1, <1>6, <1>7, Parts, <1>10 DEF ThreadOK, HasList
  <2>3. \A n : HandlerFresh(n) => HandlerFresh(n)'
    BY <1>4, <1>6 DEF HandlerFresh
  <2>4. Resolved(u)'
    BY <2>3, <1>2, <1>4, <1>6, <1>10 DEF ThreadOK, Made, Resolved
  <2> QED BY <2>1, <2>2, <2>4 DEF ThreadOK
<1>11. ThreadOK(rec)'
  BY <1>1, <1>2, <1>3, <1>6 DEF ThreadOK, Made, HasList, Resolved, Copying, Serving
<1> QED BY <1>3, <1>8, <1>9, <1>10, <1>11, MoveStep

\* A list of reference times comes into the handler or is there already.
LEMMA ReftimesStep == ASSUME IInv, NEW t \in Threads, getProviderReftimes(t) PROVE IInv'
<1> DEFINE s == thread[t]
<1>1. s \in ThreadStates /\ s.pc = "reftimes" /\ ThreadOK(s)
  BY Parts DEF getProviderReftimes, At
<1>2. PICK pc \in {"save", "use"} : Moves(t, [s EXCEPT !.pc = pc])
  BY DEF getProviderReftimes, Moves, Step, StepUnder
<1>3. PICK rec \in ThreadStates : rec.pc \in {"save", "use"} /\ rec.note = s.note /\ Moves(t, rec)
  <2> DEFINE r == [s EXCEPT !.pc = pc]
  <2>a. \A q \in {"save", "use"} :
          /\ [s EXCEPT !.pc = q] \in ThreadStates
          /\ [s EXCEPT !.pc = q].pc = q
          /\ [s EXCEPT !.pc = q].note = s.note
    BY <1>1, Shape
  <2>1. r \in ThreadStates /\ r.pc = pc /\ r.note = s.note
    BY <2>a, Zenon
  <2> HIDE DEF r
  <2>2. Moves(t, r)
    BY <1>2 DEF r
  <2> QED BY <2>1, <2>2
<1>4. UNCHANGED <<db, note, seen, paramDefs, makers>>
  BY DEF getProviderReftimes
<1>5. /\ handler' \in Members /\ handler'.providerReftimes # None
      /\ handler'.providerReftimes <= db
      /\ handler'.providerPriority = handler.providerPriority
      /\ handler'.providerPriorityIsInitialized = handler.providerPriorityIsInitialized
      /\ handler'.paramDefsPtr = handler.paramDefsPtr
      /\ handler'.queryMaker = handler.queryMaker
  <2>1. handler \in Members
    BY DEF IInv, Types
  <2>2. None # 0 /\ None # db /\ 0 <= db
    BY Parts, HandlerAssumption
  <2>3. CASE handler.providerReftimes # None /\ UNCHANGED handler
    BY <2>1, <2>3 DEF Members, IInv, HandlerOK
  <2>4. CASE handler' = [handler EXCEPT !.providerReftimes = db]
    BY <2>1, <2>2, <2>4, Parts DEF Members
  <2>5. CASE handler' = [handler EXCEPT !.providerReftimes = 0]
    BY <2>1, <2>2, <2>5, Parts DEF Members
  <2> QED BY <2>3, <2>4, <2>5 DEF getProviderReftimes
<1>7. Types'
  BY <1>3, <1>4, <1>5 DEF IInv, Types, Moves
<1>8. HandlerOK'
  BY <1>4, <1>5 DEF IInv, HandlerOK
<1>9. ASSUME NEW u, ThreadOK(u) PROVE ThreadOK(u)'
  <2>1. Made(u)' /\ HasList(u)'
    BY <1>4, <1>5, <1>9 DEF ThreadOK, Made, HasList
  <2>2. Resolved(u)'
    BY <1>4, <1>5, <1>9 DEF ThreadOK, Resolved, HandlerFresh
  <2> QED BY <2>1, <2>2 DEF ThreadOK
<1>10. ThreadOK(rec)'
  <2>1. Made(rec) /\ Resolved(rec)
    BY <1>1, <1>3 DEF ThreadOK, Made, Resolved, Copying, Serving
  <2>2. Made(rec)' /\ Resolved(rec)'
    BY <1>4, <1>5, <2>1 DEF Made, Resolved, HandlerFresh
  <2>3. HasList(rec)'
    BY <1>3, <1>5 DEF HasList
  <2> QED BY <2>2, <2>3 DEF ThreadOK
<1> QED BY <1>3, <1>7, <1>8, <1>9, <1>10, MoveStep

\* The fields the steps of extraConfigure leave alone.
SameElse(h, c) ==
  /\ c.updateid = h.updateid
  /\ c.providerReftimes = h.providerReftimes
  /\ c.paramDefsPtr = h.paramDefsPtr
  /\ c.queryMaker = h.queryMaker

\* What the late configuration makes of the handler.
LEMMA Configured ==
  ASSUME IInv, NEW noWci \in BOOLEAN, NEW noProjection \in BOOLEAN, NEW noList \in BOOLEAN
  PROVE  LET c == configureProviderPriority(
                    configureWdbProjection(lateProtocol(handler, noWci), noProjection), noList)
         IN  /\ c \in Members
             /\ SameElse(handler, c)
             /\ c.providerPriorityIsInitialized
             /\ handler.providerPriorityIsInitialized => c.providerPriority = handler.providerPriority
             /\ ~handler.providerPriorityIsInitialized => c.providerPriority \in {0, db}
<1> DEFINE a == lateProtocol(handler, noWci)
           b == configureWdbProjection(a, noProjection)
           c == configureProviderPriority(b, noList)
           Same(x) == /\ x \in Members /\ SameElse(handler, x)
                      /\ x.providerPriority = handler.providerPriority
                      /\ x.providerPriorityIsInitialized = handler.providerPriorityIsInitialized
<1>1. handler \in Members
  BY DEF IInv, Types
<1>2. Same(a)
  <2>1. CASE handler.wciProtocolIsInitialized
    BY <1>1, <2>1 DEF lateProtocol, SameElse
  <2>2. CASE ~handler.wciProtocolIsInitialized
    <3>1. PICK w \in Protocols, i \in BOOLEAN :
            a = [handler EXCEPT !.wciProtocol = w, !.wciProtocolIsInitialized = i]
      BY <2>2 DEF lateProtocol, Protocols
    <3> HIDE DEF a
    <3> QED BY <1>1, <3>1 DEF Members, SameElse
  <2> QED BY <2>1, <2>2
<1> HIDE DEF a
<1>3. Same(b)
  <2>1. b = a \/ b = [a EXCEPT !.projectionHelperIsInitialized = TRUE]
    BY DEF configureWdbProjection
  <2> HIDE DEF b
  <2>2. CASE b = a
    BY <1>2, <2>2
  <2>3. CASE b = [a EXCEPT !.projectionHelperIsInitialized = TRUE]
    BY <1>2, <2>3 DEF Members, SameElse
  <2> QED BY <2>1, <2>2, <2>3
<1> HIDE DEF b
<1>4. Found(noList) \in {0, db} /\ Found(noList) \in Generations
  BY Parts DEF Found
<1>5. CASE b.providerPriorityIsInitialized
  BY <1>3, <1>5 DEF configureProviderPriority, a, b
<1>6. CASE ~b.providerPriorityIsInitialized
  <2>1. c = [b EXCEPT !.providerPriority = Found(noList), !.providerPriorityIsInitialized = TRUE]
    BY <1>6 DEF configureProviderPriority
  <2> HIDE DEF c
  <2>2. /\ c \in Members /\ SameElse(b, c) /\ c.providerPriority = Found(noList)
        /\ c.providerPriorityIsInitialized
    BY <1>3, <1>4, <2>1 DEF Members, SameElse
  <2>3. /\ c \in Members /\ SameElse(handler, c) /\ c.providerPriority \in {0, db}
        /\ c.providerPriorityIsInitialized /\ ~handler.providerPriorityIsInitialized
    BY <1>3, <1>4, <1>6, <2>2 DEF SameElse
  <2> QED BY <2>3 DEF a, b, c
<1> QED BY <1>5, <1>6

\* What the late configuration resolves is of now, or of a failed look-up, and
\* there is a query maker afterwards.
LEMMA ConfigureStep == ASSUME IInv, NEW t \in Threads, extraConfigure(t) PROVE IInv'
<1> DEFINE s == thread[t]
<1>1. s \in ThreadStates /\ s.pc = "configure" /\ ThreadOK(s) /\ s.note \in Generations
  <2>1. s.pc = "configure"
    BY DEF extraConfigure, At
  <2> QED BY <2>1, Parts
<1>2. PICK rec \in ThreadStates : rec.pc = "reftimes" /\ rec.note = s.note /\ Moves(t, rec)
  <2>1. [pc |-> "reftimes", note |-> s.note] \in ThreadStates
    BY <1>1, NewStates
  <2> QED BY <2>1 DEF extraConfigure, Moves, StepUnder
<1>3. UNCHANGED <<db, note, seen>>
  BY DEF extraConfigure
<1>4. PICK c \in Members, noGroups \in BOOLEAN :
        /\ SameElse(handler, c)
        /\ c.providerPriorityIsInitialized
        /\ handler.providerPriorityIsInitialized => c.providerPriority = handler.providerPriority
        /\ ~handler.providerPriorityIsInitialized => c.providerPriority \in {0, db}
        /\ paramDefs' = paramDefListRresolveProviderGroups(handler, noGroups)
        /\ makers' = IF NeedsMaker(c) THEN Append(makers, c.wciProtocol) ELSE makers
        /\ handler' = [c EXCEPT !.queryMaker = IF NeedsMaker(c) THEN Len(makers) + 1 ELSE @]
  <2>1. PICK noWci \in BOOLEAN, noProjection \in BOOLEAN, noList \in BOOLEAN, noGroups \in BOOLEAN :
          LET c == configureProviderPriority(
                     configureWdbProjection(lateProtocol(handler, noWci), noProjection), noList)
          IN  /\ paramDefs' = paramDefListRresolveProviderGroups(handler, noGroups)
              /\ makers' = IF NeedsMaker(c) THEN Append(makers, c.wciProtocol) ELSE makers
              /\ handler' = [c EXCEPT !.queryMaker = IF NeedsMaker(c) THEN Len(makers) + 1 ELSE @]
    BY ZenonT(60) DEF extraConfigure
  <2> QED BY <2>1, Configured, ZenonT(60)
<1>5. /\ paramDefs \in Seq(Generations) /\ makers \in Seq(Protocols)
      /\ Len(paramDefs) \in Nat /\ Len(makers) \in Nat /\ None \notin Nat
      /\ handler.paramDefsPtr \in 1..Len(paramDefs)
  BY Parts, HandlerAssumption DEF IInv, Types
<1>6. /\ paramDefs' \in Seq(Generations) /\ Len(paramDefs') = Len(paramDefs)
      /\ handler.providerPriorityIsInitialized => paramDefs' = paramDefs
      /\ ~handler.providerPriorityIsInitialized => paramDefs'[handler.paramDefsPtr] \in {0, db}
      /\ \A i \in 1..Len(paramDefs) : paramDefs'[i] \in {paramDefs[i], 0, db}
  <2>1. Found(noGroups) \in {0, db} /\ Found(noGroups) \in Generations
    BY Parts DEF Found
  <2>2. CASE handler.providerPriorityIsInitialized
    BY <1>4, <1>5, <2>2 DEF paramDefListRresolveProviderGroups
  <2>3. CASE ~handler.providerPriorityIsInitialized
    <3>1. paramDefs' = [paramDefs EXCEPT ![handler.paramDefsPtr] = Found(noGroups)]
      BY <1>4, <2>3 DEF paramDefListRresolveProviderGroups
    <3> QED BY <1>5, <2>1, <2>3, <3>1
  <2> QED BY <2>2, <2>3
<1>7. /\ makers' \in Seq(Protocols) /\ Len(makers') \in Nat /\ Len(makers) <= Len(makers')
      /\ handler' \in Members
      /\ handler'.providerReftimes = handler.providerReftimes
      /\ handler'.paramDefsPtr = handler.paramDefsPtr
      /\ handler'.providerPriority = c.providerPriority
      /\ handler'.queryMaker # None /\ handler'.queryMaker <= Len(makers')
  <2>1. CASE NeedsMaker(c)
    <3>1. makers' = Append(makers, c.wciProtocol) /\ handler' = [c EXCEPT !.queryMaker = Len(makers) + 1]
      BY <1>4, <2>1
    <3>2. c.wciProtocol \in Protocols
      BY DEF Members
    <3>a. Len(makers) + 1 \in (Nat \ {0}) \cup {None}
      BY <1>5
    <3>3. makers' \in Seq(Protocols) /\ Len(makers') = Len(makers) + 1
      BY <1>5, <3>1, <3>2
    <3>4. /\ handler' \in Members
          /\ handler'.providerReftimes = c.providerReftimes
          /\ handler'.paramDefsPtr = c.paramDefsPtr
          /\ handler'.providerPriority = c.providerPriority
          /\ handler'.queryMaker = Len(makers) + 1
      BY <3>a, <3>1 DEF Members
    <3> QED BY <1>4, <1>5, <3>3, <3>4 DEF SameElse
  <2>2. CASE ~NeedsMaker(c)
    <3>1. makers' = makers /\ handler' = c
      BY <1>4, <2>2 DEF Members
    <3>2. handler.queryMaker # None => handler.queryMaker \in 1..Len(makers)
      BY Parts
    <3>3. c.queryMaker # None /\ c.queryMaker = handler.queryMaker
      BY <1>4, <2>2 DEF SameElse, NeedsMaker
    <3> QED BY <1>4, <1>5, <3>1, <3>2, <3>3 DEF SameElse
  <2> QED BY <2>1, <2>2
<1>8. Types'
  BY <1>2, <1>3, <1>6, <1>7 DEF IInv, Types, Moves
<1>9. HandlerOK'
  BY <1>3, <1>6, <1>7 DEF IInv, HandlerOK
<1>10. ASSUME NEW n \in Generations, n <= db
       PROVE  /\ \A x : Fresh(x, n) => \A y \in {x, 0, db} : Fresh(y, n)
              /\ ~handler.providerPriorityIsInitialized => HandlerFresh(n)'
              /\ HandlerFresh(n) => HandlerFresh(n)'
  <2>1. Fresh(0, n) /\ Fresh(db, n)
    BY <1>10, Parts DEF Fresh
  <2>2. ~handler.providerPriorityIsInitialized => HandlerFresh(n)'
    BY <1>4, <1>6, <1>7, <2>1 DEF HandlerFresh
  <2>3. handler.providerPriorityIsInitialized /\ HandlerFresh(n) => HandlerFresh(n)'
    BY <1>4, <1>6, <1>7 DEF HandlerFresh
  <2> QED BY <2>1, <2>2, <2>3
<1>11. ASSUME NEW u \in ThreadStates, ThreadOK(u) PROVE ThreadOK(u)'
  <2>1. Made(u)'
    BY <1>5, <1>6, <1>7, <1>11 DEF ThreadOK, Made
  <2>2. HasList(u)'
    BY <1>7, <1>11 DEF ThreadOK, HasList
  <2>3. u.pc # "idle" => u.note \in Generations /\ u.note <= db
    BY <1>11, Shape DEF ThreadOK, Resolved
  <2>4. ASSUME u.pc = "idle" PROVE Resolved(u)'
    BY <2>4 DEF Resolved, Copying, Serving
  <2>5. ASSUME u.pc # "idle" PROVE Resolved(u)'
    <3>1. HandlerFresh(u.note) => HandlerFresh(u.note)'
      BY <1>10, <2>3, <2>5
    <3>2. ~handler.providerPriorityIsInitialized => HandlerFresh(u.note)'
      BY <1>10, <2>3, <2>5
    <3>3. u.pc \in Serving => Fresh(paramDefs'[u.paramDefs], u.note)
      <4>1. SUFFICES ASSUME u.pc \in Serving PROVE Fresh(paramDefs'[u.paramDefs], u.note)
        OBVIOUS
      <4>2. u.paramDefs \in 1..Len(paramDefs) /\ Fresh(paramDefs[u.paramDefs], u.note)
        BY <1>11, <4>1 DEF ThreadOK, Made, Resolved
      <4> QED BY <1>6, <1>10, <2>3, <2>5, <4>2
    <3> QED BY <1>3, <1>11, <2>3, <2>5, <3>1, <3>2, <3>3 DEF ThreadOK, Resolved
  <2> QED BY <2>1, <2>2, <2>4, <2>5 DEF ThreadOK
<1>12. ThreadOK(rec)'
  <2>1. rec.note \in Generations /\ rec.note <= db
    BY <1>1, <1>2 DEF ThreadOK, Resolved
  <2>2. HandlerFresh(rec.note)'
    BY <1>1, <1>2, <1>10, <2>1 DEF ThreadOK, Resolved
  <2> QED BY <1>2, <1>3, <1>7, <2>1, <2>2 DEF ThreadOK, Made, HasList, Resolved, Copying, Serving
<1> QED BY <1>2, <1>8, <1>9, <1>11, <1>12, MoveStep

----------------------------------------------------------------------------
(* The races                                                                *)

\* Whose pointer was reset is still using it, and only a note has done that:
\* a note on its way to the handler is one its helper has seen.
RaceInv ==
  /\ raced \subseteq CopyingList \cup UsingMaker
  /\ alive \in BOOLEAN
  /\ \A t \in Threads : At(t, "deliver") => handler.updateid /\ seen # None
  /\ RacesNeedNotes

\* A step of a thread that resets pointers only where nobody uses them, or
\* when notes are about.
LEMMA RaceMove ==
  ASSUME IInv, RaceInv, NEW t \in Threads, NEW rec, NEW users,
         StepUnder(t, rec, users), UNCHANGED alive,
         users \subseteq CopyingList \cup UsingMaker, t \notin users,
         users # {} => handler.updateid /\ seen # None,
         handler'.updateid = handler.updateid,
         seen # None => seen' # None,
         rec.pc = "deliver" => handler.updateid /\ seen' # None
  PROVE  RaceInv'
<1>1. \A u \in Threads : thread'[u] = IF u = t THEN rec ELSE thread[u]
  BY DEF StepUnder, IInv, Types
<1>2. raced' = (raced \ {t}) \cup users
  BY DEF StepUnder
<1>3. raced' \subseteq (CopyingList \cup UsingMaker)'
  BY <1>1, <1>2 DEF RaceInv, CopyingList, UsingMaker, At
<1>4. \A u \in Threads : At(u, "deliver")' => handler'.updateid /\ seen' # None
  BY <1>1 DEF RaceInv, At
<1>5. RacesNeedNotes'
  BY <1>2 DEF RaceInv, RacesNeedNotes
<1> QED BY <1>3, <1>4, <1>5 DEF RaceInv

\* The first list comes before anybody copies it and the first query maker
\* before anybody uses it; only noteUpdated replaces them.
LEMMA ThreadRaces ==
  ASSUME IInv, RaceInv, NEW t \in Threads, UNCHANGED alive,
         decodeQueryFails(t) \/ checkForUpdatedNotes(t) \/ get(t)
  PROVE  RaceInv'
<1> USE DEF Step
<1>1. thread[t].pc = "deliver" => handler.updateid /\ seen # None
  BY DEF RaceInv, At
<1>2. CASE noteUpdated(t)
  <2>1. t \notin CopyingList \cup UsingMaker /\ handler.updateid /\ seen # None
    BY <1>1, <1>2 DEF noteUpdated, At, CopyingList, UsingMaker
  <2>2. handler'.updateid = handler.updateid
    BY <1>2 DEF noteUpdated, IInv, Types, Members
  <2> QED BY <1>2, <2>1, <2>2, RaceMove DEF noteUpdated
<1>3. CASE extraConfigure(t)
  <2>1. PICK noWci \in BOOLEAN, noProjection \in BOOLEAN, noList \in BOOLEAN :
          LET c == configureProviderPriority(
                     configureWdbProjection(lateProtocol(handler, noWci), noProjection), noList)
          IN  /\ handler' = [c EXCEPT !.queryMaker = IF NeedsMaker(c) THEN Len(makers) + 1 ELSE @]
              /\ StepUnder(t, [pc |-> "reftimes", note |-> thread[t].note],
                           IF NeedsMaker(c) THEN UsingMaker ELSE {})
    BY <1>3, ZenonT(60) DEF extraConfigure
  <2>2. PICK c \in Members :
          /\ SameElse(handler, c)
          /\ handler' = [c EXCEPT !.queryMaker = IF NeedsMaker(c) THEN Len(makers) + 1 ELSE @]
          /\ StepUnder(t, [pc |-> "reftimes", note |-> thread[t].note],
                       IF NeedsMaker(c) THEN UsingMaker ELSE {})
    BY <2>1, Configured, ZenonT(60)
  <2>3. handler'.updateid = handler.updateid
    BY <2>2 DEF SameElse, Members
  <2>4. NeedsMaker(c) => UsingMaker = {}
    BY <2>2 DEF NeedsMaker, SameElse, UsingMaker, At, IInv, ThreadOK, Made
  <2>5. StepUnder(t, [pc |-> "reftimes", note |-> thread[t].note], {})
    BY <2>2, <2>4
  <2>6. seen' = seen
    BY <1>3 DEF extraConfigure
  <2> QED BY <2>3, <2>5, <2>6, RaceMove
<1>4. CASE getProviderReftimes(t)
  <2>1. handler.providerReftimes = None => CopyingList = {}
    BY DEF CopyingList, At, IInv, ThreadOK, HasList
  <2>2. PICK pc \in {"save", "use"} : StepUnder(t, [thread[t] EXCEPT !.pc = pc], {})
    BY <1>4, <2>1 DEF getProviderReftimes
  <2>3. [thread[t] EXCEPT !.pc = pc].pc # "deliver"
    BY <1>4, <2>2, Parts, Shape DEF getProviderReftimes, At
  <2>4. handler'.updateid = handler.updateid /\ seen' = seen
    BY <1>4 DEF getProviderReftimes, IInv, Types, Members
  <2>5. PICK rec : rec = [thread[t] EXCEPT !.pc = pc]
    OBVIOUS
  <2>6. StepUnder(t, rec, {}) /\ rec.pc # "deliver"
    BY <2>2, <2>3, <2>5
  <2> QED BY <2>4, <2>6, RaceMove
<1>5. CASE checkForUpdatedNotes(t)
  <2>1. note.version # None
    BY Parts, HandlerAssumption
  <2>2. CASE handler.updateid /\ seen # note.version
    BY <1>5, <2>1, <2>2, RaceMove DEF checkForUpdatedNotes
  <2>3. CASE ~(handler.updateid /\ seen # note.version)
    BY <1>5, <2>3, RaceMove DEF checkForUpdatedNotes
  <2> QED BY <2>2, <2>3
<1>6. CASE saveReftimes(t) \/ requestWdbDefault(t)
  <2>1. PICK pc \in {"use", "default"} :
          /\ Step(t, [thread[t] EXCEPT !.pc = pc])
          /\ thread[t].pc \in {"save", "serve"}
          /\ pc = (IF thread[t].pc = "save" THEN "use" ELSE "default")
    BY <1>6 DEF saveReftimes, requestWdbDefault, At
  <2>2. [thread[t] EXCEPT !.pc = pc].pc # "deliver"
    BY <2>1, Parts, Shape
  <2>3. UNCHANGED <<handler, seen>>
    BY <1>6 DEF saveReftimes, requestWdbDefault
  <2>4. PICK rec : rec = [thread[t] EXCEPT !.pc = pc]
    OBVIOUS
  <2>5. StepUnder(t, rec, {}) /\ rec.pc # "deliver"
    BY <2>1, <2>2, <2>4
  <2> QED BY <2>3, <2>5, RaceMove
<1>7. CASE \/ decodeQueryFails(t) \/ useReftimes(t) \/ copyReftimes(t) \/ getProtectedData(t)
           \/ doStatus(t) \/ getHightInInit(t) \/ requestWdbSpecific(t)
           \/ getWdbReadQuerys(t) \/ encode(t)
  <2>1. UNCHANGED <<handler, seen>>
    BY <1>7 DEF decodeQueryFails, useReftimes, copyReftimes, getProtectedData, doStatus,
                getHightInInit, requestWdbSpecific, getWdbReadQuerys, encode
  <2>2. PICK rec : Step(t, rec) /\ rec.pc # "deliver"
    BY <1>7, NewStates
       DEF decodeQueryFails, useReftimes, copyReftimes, getProtectedData, doStatus,
           getHightInInit, requestWdbSpecific, getWdbReadQuerys, encode, Return
  <2> QED BY <2>1, <2>2, RaceMove
<1> QED BY <1>2, <1>3, <1>4, <1>5, <1>6, <1>7 DEF get

----------------------------------------------------------------------------
(* The theorems                                                             *)

\* The invariant is inductive.
LEMMA Invariance == Spec => [](IInv /\ RaceInv)
<1>1. Init => RaceInv
  BY NewStates DEF Init, RaceInv, RacesNeedNotes, At
<1>2. IInv /\ RaceInv /\ [Next]_vars => (IInv /\ RaceInv)'
  <2> SUFFICES ASSUME IInv, RaceInv, [Next]_vars PROVE IInv' /\ RaceInv'
    OBVIOUS
  <2>1. CASE (NewModels \/ Updated) /\ UNCHANGED alive
    <3>1. UNCHANGED <<seen, handler, thread, raced, alive>>
      BY <2>1 DEF NewModels, Updated
    <3>2. RaceInv'
      BY <3>1 DEF RaceInv, RacesNeedNotes, CopyingList, UsingMaker, At
    <3> QED BY <2>1, <3>2, WorldStep
  <2>2. ASSUME NEW t \in Threads, decodeQueryFails(t) \/ checkForUpdatedNotes(t) \/ get(t),
               UNCHANGED alive
        PROVE  IInv' /\ RaceInv'
    BY <2>2, ReadStep, NoteStep, UpdateStep, ConfigureStep, ReftimesStep, ThreadRaces DEF get
  <2>3. CASE UNCHANGED vars \/ \E t \in Threads : crash(t)
    <3>1. UNCHANGED <<db, note, seen, handler, paramDefs, makers, thread, raced>>
      BY <2>3 DEF vars, crash
    <3>2. IInv'
      BY <3>1 DEF IInv, Types, HandlerOK, ThreadOK, Made, HasList, Resolved, HandlerFresh
    <3>3. alive' \in BOOLEAN /\ (~alive' => ~alive \/ raced # {})
      BY <2>3 DEF vars, crash, RaceInv
    <3>4. RaceInv'
      BY <3>1, <3>3 DEF RaceInv, RacesNeedNotes, CopyingList, UsingMaker, At
    <3> QED BY <3>2, <3>4
  <2> QED BY <2>1, <2>2, <2>3 DEF Next, Running, Dead
<1> QED BY <1>1, <1>2, InitEstablishes, PTL DEF Spec

\* The state stays in its types and no pointer of the handler or of a request
\* is null where it is used: a query maker has been made by the time
\* requestWdbSpecific follows the pointer it does not look at, and a list of
\* parameter definitions by the time a request has its copy. That a maker is
\* still there is not said: RacesOnlyWithNotes says when it is.
THEOREM TypeCorrect == Spec => []TypeOK
<1>1. IInv /\ RaceInv => TypeOK
  <2> SUFFICES ASSUME IInv, RaceInv PROVE TypeOK
    OBVIOUS
  <2>1. \A t \in Threads : At(t, "specific") => thread[t].maker \in 1..Len(makers)
    BY DEF IInv, ThreadOK, Made, At
  <2>2. DOMAIN makers = 1..Len(makers) /\ DOMAIN paramDefs = 1..Len(paramDefs)
    BY DEF IInv, Types
  <2>3. raced \subseteq CopyingList \cup UsingMaker /\ alive \in BOOLEAN
    BY DEF RaceInv
  <2> QED BY <2>1, <2>2, <2>3, Parts DEF TypeOK, IInv, Types, Protocols
<1> QED BY <1>1, Invariance, PTL

\* Nobody uses a list or a query maker that another thread has destroyed, and
\* the process does not die of it, in a handler without an updateid, and in
\* any handler before the first note: only noteUpdated destroys what is used.
THEOREM RacesOnlyWithNotes == Spec => []RacesNeedNotes
<1>1. RaceInv => RacesNeedNotes
  BY DEF RaceInv
<1> QED BY <1>1, Invariance, PTL

\* A request always has a list of reference times where get() uses it, the
\* database failing or not.
THEOREM ListIsThere == Spec => []RequestHasReftimes
<1>1. IInv => RequestHasReftimes
  BY DEF IInv, ThreadOK, HasList, RequestHasReftimes
<1> QED BY <1>1, Invariance, PTL

\* The request that brought a note serves from a provider list and provider
\* groups at least as new as the note's models, or from empty ones.
THEOREM NoteIsServed == Spec => []UpdateTakesEffect
<1>1. IInv => UpdateTakesEffect
  BY DEF IInv, ThreadOK, Resolved, Fresh, Serving, UpdateTakesEffect
<1> QED BY <1>1, Invariance, PTL

================================================================================
