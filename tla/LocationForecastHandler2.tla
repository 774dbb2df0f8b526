------------------------ MODULE LocationForecastHandler2 ------------------------
(* What the threads of a process share in one LocationForecastHandler2      *)
(* (contenthandlers/LocationForecast/LocationForecastHandler2.cpp).         *)
(*                                                                          *)
(* The handler keeps what it has resolved against the database: the wci     *)
(* protocol, the projections, the provider list, the parameter definitions  *)
(* with the provider groups and the query maker (the symbol configuration   *)
(* is resolved with the provider list and fails with it).                   *)
(* get() brings all of it up to date, under the handler's mutex, before it  *)
(* takes copies; a new reference time note makes it stale again. Every      *)
(* piece is here the generation of the models it was resolved against, and  *)
(* 0 stands for a list that came out empty because the database failed.     *)
(* The delivery of notes is NoteManager's; here a note is a version and the *)
(* generation of the models it lists.                                       *)
(*                                                                          *)
(* Two members are used outside the mutex: the list of reference times is   *)
(* copied after it is released (cpp:376), and requestWdbSpecific follows    *)
(* the query maker without a copy (cpp:790). Both are shared pointers that  *)
(* another thread may reset meanwhile, which destroys what they point at.   *)
(* What happens then is undefined: it works, with the old or the new        *)
(* object, or the process dies.                                             *)
EXTENDS Integers, Sequences

CONSTANTS
  Threads,      \* the threads that serve requests to this handler
  None,
  MaxModels,    \* bound: generations of models that arrive in the database
  MaxVersion    \* bound: versions of the reference time note

ASSUME HandlerAssumption ==
  /\ None \notin Nat
  /\ MaxModels \in Nat \ {0}
  /\ MaxVersion \in Nat

VARIABLES
  db,        \* the newest generation of models in the database
  note,      \* the reference time note of the NoteManager
  seen,      \* the version the handler's NoteHelper has
  handler,   \* the members of the handler
  paramDefs, \* every ParamDefList made: the generation of its provider groups
  makers,    \* every QueryMaker made: the protocol it speaks; only the
             \* handler's own is still there
  thread,    \* where each thread is in get() and the copies it has taken
  raced,     \* the threads whose pointer was reset while they use it
  alive      \* has the process not died of it?

vars == <<db, note, seen, handler, paramDefs, makers, thread, raced, alive>>

----------------------------------------------------------------------------
(* The wci protocol is unset in the constructor; the database speaks 6.     *)

Uninitialized == -1
Fallback == 1
Spoken == 6

Generations == 0..MaxModels
Idle == [pc |-> "idle"]

\* configure, at start-up: no database is asked. A handler without an
\* updateid gets no notes.
Init ==
  /\ db = 1
  /\ note = [version |-> 0, gen |-> 0]
  /\ seen = None
  /\ \E id \in BOOLEAN :
       handler = [updateid |-> id,
                  wciProtocol |-> Uninitialized,
                  wciProtocolIsInitialized |-> FALSE,
                  projectionHelperIsInitialized |-> FALSE,
                  providerPriority |-> 0,
                  providerPriorityIsInitialized |-> FALSE,
                  providerReftimes |-> None,
                  paramDefsPtr |-> 1,
                  queryMaker |-> None]
  /\ paramDefs = <<0>>
  /\ makers = <<>>
  /\ thread = [t \in Threads |-> Idle]
  /\ raced = {}
  /\ alive = TRUE

----------------------------------------------------------------------------
(* The world outside: new models, and the update handler's notes.           *)

NewModels ==
  /\ db < MaxModels
  /\ db' = db + 1
  /\ UNCHANGED <<note, seen, handler, paramDefs, makers, thread, raced>>

\* NoteManager::setNote.
setNote(gen) ==
  /\ note.version < MaxVersion
  /\ note' = [version |-> note.version + 1, gen |-> gen]

Updated ==
  /\ setNote(db)
  /\ UNCHANGED <<db, seen, handler, paramDefs, makers, thread, raced>>

----------------------------------------------------------------------------
(* get                                                                      *)

At(t, pc) == thread[t].pc = pc

\* Where a thread uses the list or the query maker outside the mutex.
CopyingList == {t \in Threads : At(t, "copy")}
UsingMaker == {t \in Threads : At(t, "specific")}

\* A step of t, and one that resets what the users are using.
StepUnder(t, rec, users) ==
  /\ thread' = [thread EXCEPT ![t] = rec]
  /\ raced' = (raced \ {t}) \cup users

Step(t, rec) == StepUnder(t, rec, {})
Return(t) == Step(t, Idle)

\* The query is decoded; then the helper compares versions, and a version it
\* has not seen is delivered outside the NoteManager's mutex.
decodeQueryFails(t) ==
  /\ At(t, "idle")
  /\ Return(t)
  /\ UNCHANGED <<db, note, seen, handler, paramDefs, makers>>

checkForUpdatedNotes(t) ==
  /\ At(t, "idle")
  /\ IF handler.updateid /\ seen # note.version
     THEN /\ seen' = note.version
          /\ Step(t, [pc |-> "deliver", note |-> note.gen])
     ELSE /\ Step(t, [pc |-> "configure", note |-> 0])
          /\ UNCHANGED seen
  /\ UNCHANGED <<db, note, handler, paramDefs, makers>>

\* noteUpdated, in the mutex: the new list, and everything resolved against
\* the old one is to be resolved again. The parameter definitions are copied,
\* for the requests under way have the old ones, and the query maker is made
\* for the protocol as it stands. Mutant: the provider list stays resolved.
noteUpdatedKeepsList(t) ==
  /\ At(t, "deliver")
  /\ paramDefs' = Append(paramDefs, paramDefs[handler.paramDefsPtr])
  /\ makers' = Append(makers, handler.wciProtocol)
  /\ handler' = [handler EXCEPT
       !.providerReftimes = thread[t].note,
       !.projectionHelperIsInitialized = FALSE,
       !.paramDefsPtr = Len(paramDefs) + 1,
       !.queryMaker = Len(makers) + 1]
  /\ StepUnder(t, [pc |-> "configure", note |-> thread[t].note], CopyingList \cup UsingMaker)
  /\ UNCHANGED <<db, note, seen>>

noteUpdated(t) ==
  /\ At(t, "deliver")
  /\ paramDefs' = Append(paramDefs, paramDefs[handler.paramDefsPtr])
  /\ makers' = Append(makers, handler.wciProtocol)
  /\ handler' = [handler EXCEPT
       !.providerReftimes = thread[t].note,
       !.projectionHelperIsInitialized = FALSE,
       !.providerPriorityIsInitialized = FALSE,
       !.paramDefsPtr = Len(paramDefs) + 1,
       !.queryMaker = Len(makers) + 1]
  /\ StepUnder(t, [pc |-> "configure", note |-> thread[t].note], CopyingList \cup UsingMaker)
  /\ UNCHANGED <<db, note, seen>>

\* What a look-up in the database may give: the models of now, or nothing.
Found(failed) == IF failed THEN 0 ELSE db

\* Wdb2TsApp::wciProtocol gives -1 when the database fails; the handler then
\* uses 1 and asks again at the next request.
lateProtocol(h, failed) ==
  IF h.wciProtocolIsInitialized THEN h
  ELSE [h EXCEPT !.wciProtocol = IF failed THEN Fallback ELSE Spoken,
                 !.wciProtocolIsInitialized = ~failed]

\* configureWdbProjection: without a connection it is tried again.
configureWdbProjection(h, failed) ==
  IF h.projectionHelperIsInitialized \/ failed THEN h
  ELSE [h EXCEPT !.projectionHelperIsInitialized = TRUE]

\* configureProviderPriority: the look-up may fail, and the list counts as
\* resolved all the same.
configureProviderPriority(h, noList) ==
  IF h.providerPriorityIsInitialized THEN h
  ELSE [h EXCEPT !.providerPriority = Found(noList),
                 !.providerPriorityIsInitialized = TRUE]

\* paramDefListRresolveProviderGroups writes into the list the handler has.
paramDefListRresolveProviderGroups(h, noGroups) ==
  IF h.providerPriorityIsInitialized THEN paramDefs
  ELSE [paramDefs EXCEPT ![h.paramDefsPtr] = Found(noGroups)]

\* Is there a query maker to make? Mutant: noteUpdated is relied on for it.
NeedsMakerNever(h) == FALSE

\* Mutant: one is made for every request.
NeedsMakerAlways(h) == TRUE

NeedsMaker(h) == h.queryMaker = None

\* extraConfigure: all of it in one hold of the mutex. (The provider list is
\* then handed to the NoteManager, in a note no handler listens to.)
extraConfigure(t) ==
  /\ At(t, "configure")
  /\ \E noWci, noProjection, noList, noGroups \in BOOLEAN :
       LET configured ==
             configureProviderPriority(
               configureWdbProjection(lateProtocol(handler, noWci), noProjection),
               noList)
           noMaker == NeedsMaker(configured)
       IN /\ paramDefs' = paramDefListRresolveProviderGroups(handler, noGroups)
          /\ makers' = IF noMaker THEN Append(makers, configured.wciProtocol) ELSE makers
          /\ handler' = [configured EXCEPT
                           !.queryMaker = IF noMaker THEN Len(makers) + 1 ELSE @]
          /\ StepUnder(t, [pc |-> "reftimes", note |-> thread[t].note],
                       IF noMaker THEN UsingMaker ELSE {})
  /\ UNCHANGED <<db, note, seen>>

\* getProviderReftimes, in the mutex. A handler without a list puts an empty
\* one there and then asks the database. Mutant: it asks first.
getProviderReftimesLate(t) ==
  /\ At(t, "reftimes")
  /\ \/ /\ handler.providerReftimes # None
        /\ UNCHANGED handler
     \/ /\ handler.providerReftimes = None
        /\ handler' = [handler EXCEPT !.providerReftimes = db]
     \/ /\ handler.providerReftimes = None
        /\ UNCHANGED handler
  /\ Step(t, [thread[t] EXCEPT !.pc = "use"])
  /\ UNCHANGED <<db, note, seen, paramDefs, makers>>

getProviderReftimes(t) ==
  /\ At(t, "reftimes")
  /\ \/ /\ handler.providerReftimes # None
        /\ Step(t, [thread[t] EXCEPT !.pc = "use"])
        /\ UNCHANGED handler
     \/ /\ handler.providerReftimes = None
        /\ handler' = [handler EXCEPT !.providerReftimes = db]
        /\ StepUnder(t, [thread[t] EXCEPT !.pc = "save"], CopyingList)
     \/ /\ handler.providerReftimes = None
        /\ handler' = [handler EXCEPT !.providerReftimes = 0]
        /\ StepUnder(t, [thread[t] EXCEPT !.pc = "use"], CopyingList)
  /\ UNCHANGED <<db, note, seen, paramDefs, makers>>

\* Outside the mutex the list from the database is made a note, ...
saveReftimes(t) ==
  /\ At(t, "save")
  /\ setNote(handler.providerReftimes)
  /\ Step(t, [thread[t] EXCEPT !.pc = "use"])
  /\ UNCHANGED <<db, seen, handler, paramDefs, makers>>

\* ... and the list of the handler, as it is by now, is copied for the caller.
useReftimes(t) ==
  /\ At(t, "use")
  /\ Step(t, [pc |-> "copy", note |-> thread[t].note, refTimes |-> handler.providerReftimes])
  /\ UNCHANGED <<db, note, seen, handler, paramDefs, makers>>

\* The copy is of that list, or of the one it was replaced by meanwhile.
copyReftimes(t) ==
  /\ At(t, "copy")
  /\ \E copied \in {thread[t].refTimes, handler.providerReftimes} :
       Step(t, [pc |-> "protected", note |-> thread[t].note, refTimes |-> copied])
  /\ UNCHANGED <<db, note, seen, handler, paramDefs, makers>>

\* getProtectedData, in the mutex.
getProtectedData(t) ==
  /\ At(t, "protected")
  /\ Step(t, [pc |-> "serve", note |-> thread[t].note,
              refTimes |-> thread[t].refTimes,
              providerPriority |-> handler.providerPriority,
              paramDefs |-> handler.paramDefsPtr])
  /\ UNCHANGED <<db, note, seen, handler, paramDefs, makers>>

\* A status request is answered from the copies; the height of the point may
\* not be known yet; a query for a level or a provider dereferences the
\* handler's query maker, and any other asks with the copies alone.
doStatus(t) ==
  /\ At(t, "serve")
  /\ Return(t)
  /\ UNCHANGED <<db, note, seen, handler, paramDefs, makers>>

getHightInInit(t) ==
  /\ At(t, "serve")
  /\ Return(t)
  /\ UNCHANGED <<db, note, seen, handler, paramDefs, makers>>

requestWdbDefault(t) ==
  /\ At(t, "serve")
  /\ Step(t, [thread[t] EXCEPT !.pc = "default"])
  /\ UNCHANGED <<db, note, seen, handler, paramDefs, makers>>

requestWdbSpecific(t) ==
  /\ At(t, "serve")
  /\ Step(t, [pc |-> "specific", note |-> thread[t].note,
              maker |-> handler.queryMaker])
  /\ UNCHANGED <<db, note, seen, handler, paramDefs, makers>>

\* getWdbReadQuerys of the query maker; what it gives is the thread's own.
getWdbReadQuerys(t) ==
  /\ At(t, "specific")
  /\ Step(t, [pc |-> "querys", note |-> thread[t].note])
  /\ UNCHANGED <<db, note, seen, handler, paramDefs, makers>>

\* A thread that copies from, or runs in, what another has destroyed.
crash(t) ==
  /\ t \in raced
  /\ alive' = FALSE
  /\ UNCHANGED <<db, note, seen, handler, paramDefs, makers, thread, raced>>

\* The encoder writes the forecast, or an exception of the request or of the
\* encoder is mapped to a status; which one is the WebApp module's.
encode(t) ==
  /\ thread[t].pc \in {"default", "querys"}
  /\ Return(t)
  /\ UNCHANGED <<db, note, seen, handler, paramDefs, makers>>

----------------------------------------------------------------------------
get(t) ==
  \/ noteUpdated(t)
  \/ extraConfigure(t)
  \/ getProviderReftimes(t)
  \/ saveReftimes(t)
  \/ useReftimes(t)
  \/ copyReftimes(t)
  \/ getProtectedData(t)
  \/ doStatus(t)
  \/ getHightInInit(t)
  \/ requestWdbDefault(t)
  \/ requestWdbSpecific(t)
  \/ getWdbReadQuerys(t)
  \/ encode(t)

\* The process runs.
Running ==
  \/ NewModels
  \/ Updated
  \/ \E t \in Threads : decodeQueryFails(t) \/ checkForUpdatedNotes(t) \/ get(t)

\* It has died.
Dead == ~alive /\ UNCHANGED vars

Next ==
  \/ alive /\ Running /\ UNCHANGED alive
  \/ alive /\ \E t \in Threads : crash(t)
  \/ Dead

Spec == Init /\ [][Next]_vars

----------------------------------------------------------------------------
(* Properties                                                               *)

ThreadStates ==
  {Idle}
  \cup [pc : {"deliver", "configure", "reftimes", "save", "use", "querys"}, note : Generations]
  \cup [pc : {"copy", "protected"}, note : Generations, refTimes : Generations \cup {None}]
  \cup [pc : {"serve", "default"}, note : Generations,
        refTimes : Generations \cup {None}, providerPriority : Generations,
        paramDefs : Nat]
  \cup [pc : {"specific"}, note : Generations, maker : Nat]

\* The type of every variable. A query maker has been made by the time
\* requestWdbSpecific follows the pointer to it, although it does not look;
\* that it is still there is another question: see RacesNeedNotes.
TypeOK ==
  /\ db \in 1..MaxModels
  /\ note \in [version : 0..MaxVersion, gen : Generations]
  /\ seen \in 0..MaxVersion \cup {None}
  /\ handler.wciProtocol \in {Uninitialized, Fallback, Spoken}
  /\ handler.paramDefsPtr \in DOMAIN paramDefs
  /\ handler.queryMaker \in DOMAIN makers \cup {None}
  /\ paramDefs \in Seq(Generations)
  /\ thread \in [Threads -> ThreadStates]
  /\ \A t \in Threads : At(t, "specific") => thread[t].maker \in DOMAIN makers
  /\ raced \subseteq CopyingList \cup UsingMaker
  /\ alive \in BOOLEAN

\* get() dereferences the reference times (removeDisabledProviders) without a
\* test: a request always has a list, the database failing or not.
RequestHasReftimes ==
  \A t \in Threads : thread[t].pc \in {"copy", "protected", "serve", "default"} =>
                       thread[t].refTimes # None

\* "Resolve the priority list again" (noteUpdated): the request that brought a
\* note serves from a provider list and from provider groups that are at least
\* as new as the models of the note, or from the empty ones of a failed
\* look-up, whatever the other threads do to the handler in between.
UpdateTakesEffect ==
  \A t \in Threads : thread[t].pc \in {"serve", "default"} =>
    \A used \in {thread[t].providerPriority, paramDefs[thread[t].paramDefs]} :
      used = 0 \/ used >= thread[t].note

\* The two uses outside the mutex go wrong only because of notes. A handler
\* without an updateid, and any handler before its first note, makes its list
\* and its query maker once, before anybody uses them, and never again: nobody
\* is left with an object that another thread has destroyed.
RacesNeedNotes == raced # {} \/ ~alive => handler.updateid /\ seen # None

================================================================================
