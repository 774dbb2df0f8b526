------------------------------ MODULE NoteManager ------------------------------
(***************************************************************************)
(* The note <updateid>.LocationProviderReftimeList: which reference time   *)
(* of each data provider the forecast handlers use. It lives in each       *)
(* process's NoteManager and, because it is persistent, in a file all      *)
(* processes share. A request to an update handler reads the note, asks    *)
(* the database and sets a new one. A forecast request lets the            *)
(* NoteManager compare versions with what the handler's NoteHelper has     *)
(* seen and call the handler back when they differ.                        *)
(*                                                                         *)
(* A list of reference times is a number: 0 is the empty list, 1 what is   *)
(* in the file at the start, and every list made later gets a number of    *)
(* its own. Everything NoteManager does runs in its process's mutex; the   *)
(* callbacks do not.                                                       *)
(***************************************************************************)
EXTENDS Naturals

CONSTANTS
  Procs,         \* Apache child processes
  Handlers,      \* forecast handlers with the same updateid, in each process
  Gets,          \* forecast requests under way at the same time
  Updates,       \* update requests under way at the same time
  None,          \* null pointer, no file, nobody
  FilesAtStart,  \* what may be in the file at the start: 1, or None for no file
  ReadsMayFail,  \* stat, open, lock or parse of the file may fail
  WritesMayFail, \* open, lock or truncation of the file for writing may fail
  MaxSaves       \* bound: how often setNote is called

Lists == 0..(MaxSaves + 1)
Empty == 0
Notes == [version : 0..MaxSaves, data : Lists]

\* A note as a NoteHelper has seen it. That the manager had loaded its note by
\* then is kept for the properties only.
SeenNotes == [version : 0..MaxSaves, data : Lists, loaded : BOOLEAN]

\* A call of setNote: by which request, with which list, and is the file open?
Savings == [by : Gets \cup Updates, data : Lists, opened : BOOLEAN]

ASSUME NoteAssumption ==
  /\ None \notin Nat \cup Updates \cup Gets \cup SeenNotes \cup Savings
  /\ Gets \cap Updates = {}
  /\ FilesAtStart \subseteq {None, 1}
  /\ ReadsMayFail \in BOOLEAN
  /\ WritesMayFail \in BOOLEAN
  /\ MaxSaves \in Nat

VARIABLES
  file,      \* the list in the file, or None
  note,      \* note[p]: the persistent note of process p
  isLoaded,  \* isLoaded[p]: it has been read from the file
  saving,    \* saving[p]: who is inside setNote in p, with which list
  helper,    \* helper[<<p, h>>]: the note handler h's NoteHelper has, or None
  reftimes,  \* reftimes[<<p, h>>]: the handler's providerReftimes, or None
  get,       \* the state of each forecast request
  upd,       \* the state of each update request
  updMutex,  \* updMutex[p]: which update request has p's update handler's mutex
  saves      \* how often setNote has been called

vars == <<file, note, isLoaded, saving, helper, reftimes, get, upd, updMutex, saves>>

\* The next list nobody has seen yet.
FreshList == saves + 2

IdleGet == [pc |-> "idle"]
IdleUpd == [pc |-> "idle"]

\* The mutex of p's NoteManager is free: only setNote holds it across steps.
MutexFree(p) == saving[p] = None

\* configure: registerPersistentNote makes an empty note with version 0.
Init ==
  /\ file \in FilesAtStart
  /\ note = [p \in Procs |-> [version |-> 0, data |-> Empty]]
  /\ isLoaded = [p \in Procs |-> FALSE]
  /\ saving = [p \in Procs |-> None]
  /\ helper = [ph \in Procs \X Handlers |-> None]
  /\ reftimes = [ph \in Procs \X Handlers |-> None]
  /\ get = [r \in Gets |-> IdleGet]
  /\ upd = [u \in Updates |-> IdleUpd]
  /\ updMutex = [p \in Procs |-> None]
  /\ saves = 0

----------------------------------------------------------------------------
(* checkForUpdatedNotes                                                    *)

\* A note that has not been loaded is read if there is a file, with version
\* 0 whatever version the process has come to.
loadPersistentNotes(p) ==
  \/ /\ ~isLoaded[p]
     /\ file # None
     /\ note' = [note EXCEPT ![p] = [version |-> 0, data |-> file]]
     /\ isLoaded' = [isLoaded EXCEPT ![p] = TRUE]
  \/ /\ isLoaded[p] \/ file = None \/ ReadsMayFail
     /\ UNCHANGED <<note, isLoaded>>

\* NoteListenerElement::updateNote: is n news for the helper that has seen?
IsNews(seen, n) == seen # None => seen.version # n.version

Seen(n, loaded) == [version |-> n.version, data |-> n.data, loaded |-> loaded]

\* A forecast request arrives at handler h of process p.
checkForUpdatedNotes(r, p, h) ==
  /\ get[r] = IdleGet
  /\ MutexFree(p)
  /\ loadPersistentNotes(p)
  /\ IF IsNews(helper[<<p, h>>], note'[p])
     THEN /\ helper' = [helper EXCEPT ![<<p, h>>] = Seen(note'[p], isLoaded'[p])]
          /\ get' = [get EXCEPT ![r] = [pc |-> "call", p |-> p, h |-> h]]
     ELSE /\ get' = [get EXCEPT ![r] = [pc |-> "serve", p |-> p, h |-> h]]
          /\ UNCHANGED helper
  /\ UNCHANGED <<file, saving, reftimes, upd, updMutex, saves>>

\* Outside the mutex the helper's pointer is copied, whatever it is by now ...
callListeners(r) ==
  /\ get[r].pc = "call"
  /\ get' = [get EXCEPT ![r] = [pc |-> "deliver", p |-> @.p, h |-> @.h,
                                note |-> helper[<<@.p, @.h>>]]]
  /\ UNCHANGED <<file, note, isLoaded, saving, helper, reftimes, upd, updMutex, saves>>

\* ... and the handler takes the copy over once it has its own mutex.
\* Mutant: it keeps the list it has.
noteUpdatedOnce(r) ==
  /\ get[r].pc = "deliver"
  /\ LET p == get[r].p
         h == get[r].h
     IN /\ reftimes' = IF reftimes[<<p, h>>] = None
                       THEN [reftimes EXCEPT ![<<p, h>>] = get[r].note.data]
                       ELSE reftimes
        /\ get' = [get EXCEPT ![r] = [pc |-> "serve", p |-> p, h |-> h]]
  /\ UNCHANGED <<file, note, isLoaded, saving, helper, upd, updMutex, saves>>

noteUpdated(r) ==
  /\ get[r].pc = "deliver"
  /\ LET p == get[r].p
         h == get[r].h
     IN /\ reftimes' = [reftimes EXCEPT ![<<p, h>>] = get[r].note.data]
        /\ get' = [get EXCEPT ![r] = [pc |-> "serve", p |-> p, h |-> h]]
  /\ UNCHANGED <<file, note, isLoaded, saving, helper, upd, updMutex, saves>>

\* The handler's getProviderReftimes: a handler without a list asks the
\* database, in its mutex, and remembers to set the note afterwards. When the
\* database fails the empty list put there first stays.
getProviderReftimes(r) ==
  /\ get[r].pc = "serve"
  /\ LET p == get[r].p
         h == get[r].h
     IN \/ /\ reftimes[<<p, h>>] # None
           /\ get' = [get EXCEPT ![r] = IdleGet]
           /\ UNCHANGED <<reftimes, saves>>
        \/ /\ reftimes[<<p, h>>] = None
           /\ saves < MaxSaves
           /\ reftimes' = [reftimes EXCEPT ![<<p, h>>] = FreshList]
           /\ get' = [get EXCEPT ![r] = [pc |-> "save", p |-> p, data |-> FreshList]]
           /\ saves' = saves + 1
        \/ /\ reftimes[<<p, h>>] = None
           /\ reftimes' = [reftimes EXCEPT ![<<p, h>>] = Empty]
           /\ get' = [get EXCEPT ![r] = IdleGet]
           /\ UNCHANGED saves
  /\ UNCHANGED <<file, note, isLoaded, saving, helper, upd, updMutex>>

----------------------------------------------------------------------------
(* setNote                                                                 *)

\* setNote takes the mutex and opens the file for writing, which empties it
\* before FileLockHelper has the lock. The file may also fail to open.
BeginSetNote(p, who, data) ==
  /\ MutexFree(p)
  /\ \E opened \in {TRUE, ~WritesMayFail} :
       /\ saving' = [saving EXCEPT ![p] = [by |-> who, data |-> data, opened |-> opened]]
       /\ file' = IF opened THEN Empty ELSE file
  /\ UNCHANGED <<note, isLoaded, helper, reftimes, updMutex>>

\* The list is written, unless that fails; the note in memory is replaced in
\* either case and gets the next version, but is not marked as loaded.
\* Mutants: the version stays; it is counted twice.
EndSetNoteSameVersion(p) ==
  /\ saving[p] # None
  /\ \/ saving[p].opened /\ file' = saving[p].data
     \/ WritesMayFail /\ file' = file
  /\ note' = [note EXCEPT ![p] = [version |-> @.version, data |-> saving[p].data]]
  /\ saving' = [saving EXCEPT ![p] = None]
  /\ UNCHANGED <<isLoaded, helper, reftimes, saves>>

EndSetNoteTwoVersions(p) ==
  /\ saving[p] # None
  /\ \/ saving[p].opened /\ file' = saving[p].data
     \/ WritesMayFail /\ file' = file
  /\ note' = [note EXCEPT ![p] = [version |-> @.version + 2, data |-> saving[p].data]]
  /\ saving' = [saving EXCEPT ![p] = None]
  /\ UNCHANGED <<isLoaded, helper, reftimes, saves>>

EndSetNote(p) ==
  /\ saving[p] # None
  /\ \/ saving[p].opened /\ file' = saving[p].data
     \/ WritesMayFail /\ file' = file
  /\ note' = [note EXCEPT ![p] = [version |-> @.version + 1, data |-> saving[p].data]]
  /\ saving' = [saving EXCEPT ![p] = None]
  /\ UNCHANGED <<isLoaded, helper, reftimes, saves>>

\* A forecast request sets the list it has got from the database.
GetBeginsSave(r) ==
  /\ get[r].pc = "save"
  /\ BeginSetNote(get[r].p, r, get[r].data)
  /\ get' = [get EXCEPT ![r].pc = "saving"]
  /\ UNCHANGED <<upd, saves>>

GetEndsSave(r) ==
  /\ get[r].pc = "saving"
  /\ EndSetNote(get[r].p)
  /\ get' = [get EXCEPT ![r] = IdleGet]
  /\ UNCHANGED <<upd, updMutex>>

----------------------------------------------------------------------------
(* LocationForecastUpdateHandler::get                                      *)

\* Mutant: the update handler has no mutex.
UpdateBeginsUnlocked(u, p) ==
  /\ upd[u] = IdleUpd
  /\ MutexFree(p)
  /\ loadPersistentNotes(p)
  /\ upd' = [upd EXCEPT ![u] = [pc |-> "read", p |-> p]]
  /\ UNCHANGED <<file, saving, helper, reftimes, get, updMutex, saves>>

\* One update at a time; checkForUpdatedNotes( 0 ) only loads.
UpdateBegins(u, p) ==
  /\ upd[u] = IdleUpd
  /\ updMutex[p] = None
  /\ MutexFree(p)
  /\ loadPersistentNotes(p)
  /\ updMutex' = [updMutex EXCEPT ![p] = u]
  /\ upd' = [upd EXCEPT ![u] = [pc |-> "read", p |-> p]]
  /\ UNCHANGED <<file, saving, helper, reftimes, get, saves>>

\* getNote: a note that was set but never loaded counts as missing.
UpdateReads(u) ==
  /\ upd[u].pc = "read"
  /\ LET p == upd[u].p IN
       /\ MutexFree(p)
       /\ upd' = [upd EXCEPT ![u] = [pc |-> "compute", p |-> p,
                    old |-> IF isLoaded[p] THEN note[p].data ELSE Empty]]
  /\ UNCHANGED <<file, note, isLoaded, saving, helper, reftimes, get, updMutex, saves>>

\* A bad request, a missing provider list or a database error ends it.
UpdateFails(u) ==
  /\ upd[u].pc = "compute"
  /\ updMutex' = [updMutex EXCEPT ![upd[u].p] = None]
  /\ upd' = [upd EXCEPT ![u] = IdleUpd]
  /\ UNCHANGED <<file, note, isLoaded, saving, helper, reftimes, get, saves>>

\* Otherwise the old list, changed as requested (or as it is, for "debug"),
\* becomes the new note.
UpdateBeginsSave(u) ==
  /\ upd[u].pc = "compute"
  /\ saves < MaxSaves
  /\ saves' = saves + 1
  /\ \E data \in {FreshList, upd[u].old} : BeginSetNote(upd[u].p, u, data)
  /\ upd' = [upd EXCEPT ![u].pc = "saving"]
  /\ UNCHANGED get

UpdateEndsSave(u) ==
  /\ upd[u].pc = "saving"
  /\ EndSetNote(upd[u].p)
  /\ updMutex' = [updMutex EXCEPT ![upd[u].p] = None]
  /\ upd' = [upd EXCEPT ![u] = IdleUpd]
  /\ UNCHANGED get

----------------------------------------------------------------------------
GetSteps(r) ==
  \/ callListeners(r)
  \/ noteUpdated(r)
  \/ getProviderReftimes(r)
  \/ GetBeginsSave(r)
  \/ GetEndsSave(r)

Next ==
  \/ \E r \in Gets, p \in Procs, h \in Handlers : checkForUpdatedNotes(r, p, h)
  \/ \E r \in Gets : GetSteps(r)
  \/ \E u \in Updates, p \in Procs : UpdateBegins(u, p)
  \/ \E u \in Updates :
       \/ UpdateReads(u)
       \/ UpdateFails(u)
       \/ UpdateBeginsSave(u)
       \/ UpdateEndsSave(u)

SafeSpec == Init /\ [][Next]_vars

\* Requests under way go on, and every handler is asked again and again.
Fairness ==
  /\ \A r \in Gets : SF_vars(GetSteps(r))
  /\ \A u \in Updates : SF_vars(UpdateReads(u)) /\ WF_vars(UpdateEndsSave(u))
                        /\ WF_vars(UpdateFails(u))
  /\ \A p \in Procs, h \in Handlers :
       SF_vars(\E r \in Gets : checkForUpdatedNotes(r, p, h))

Spec == SafeSpec /\ Fairness

----------------------------------------------------------------------------
(* Properties                                                              *)

GetStates ==
  {IdleGet}
  \cup [pc : {"call", "serve"}, p : Procs, h : Handlers]
  \cup [pc : {"deliver"}, p : Procs, h : Handlers, note : SeenNotes]
  \cup [pc : {"save", "saving"}, p : Procs, data : Lists]
UpdStates ==
  {IdleUpd}
  \cup [pc : {"read"}, p : Procs]
  \cup [pc : {"compute", "saving"}, p : Procs, old : Lists]

\* The type of every variable; a saved list is one somebody has made.
TypeOK ==
  /\ file \in Lists \cup {None}
  /\ note \in [Procs -> Notes]
  /\ isLoaded \in [Procs -> BOOLEAN]
  /\ saving \in [Procs -> {None} \cup Savings]
  /\ helper \in [Procs \X Handlers -> SeenNotes \cup {None}]
  /\ reftimes \in [Procs \X Handlers -> Lists \cup {None}]
  /\ get \in [Gets -> GetStates]
  /\ upd \in [Updates -> UpdStates]
  /\ updMutex \in [Procs -> Updates \cup {None}]
  /\ saves \in 0..MaxSaves

\* updateNote compares versions and nothing else. A helper that has the
\* manager's version has the manager's list, whatever is set, saved or not, and
\* in whatever order; except across the one load of the note, which begins to
\* count at 0 again (NoteManager.cpp:258).
VersionNamesNote ==
  \A p \in Procs, h \in Handlers :
    helper[<<p, h>>] # None /\ helper[<<p, h>>].version = note[p].version
      /\ helper[<<p, h>>].loaded = isLoaded[p] =>
      helper[<<p, h>>].data = note[p].data

\* LocationForecastUpdateHandler.cpp: "Only allow one update at a time." Once
\* an update has read the note of its process, no other update replaces it
\* before it has set its own. Two things do: the first load of the note, and a
\* forecast request whose handler had no list, which sets the note without the
\* mutex of the update handler (LocationForecastHandler2.cpp:373).
NoLostUpdate ==
  [][\A u \in Updates :
       LET p == upd[u].p
       IN upd[u].pc \in {"compute", "saving"} /\ note'[p] # note[p] =>
            \/ saving[p] # None /\ saving[p].by \in {u} \cup Gets
            \/ ~isLoaded[p] /\ isLoaded'[p]]_vars

\* When the note no longer changes, every handler that is asked comes to use
\* the manager's list and stays with it.
HandlersFollow ==
  \A p \in Procs, h \in Handlers : <>[](reftimes[<<p, h>>] = note[p].data)

\* Forecast requests are served one at a time.
Serial == \A r, s \in Gets : get[r] # IdleGet /\ get[s] # IdleGet => r = s

\* No handler has been shown a note before it was loaded.
LoadedFirst == \A p \in Procs, h \in Handlers : helper[<<p, h>>] # None => isLoaded[p]

\* Handlers follow the note where neither of the two things happens that break
\* it: two callbacks that overtake each other, a late load that goes back to a
\* version the handler has seen. Failing writes and reads do not break it.
HandlersCatchUp == []Serial /\ []LoadedFirst => HandlersFollow

================================================================================
