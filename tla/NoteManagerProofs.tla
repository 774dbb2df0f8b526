--------------------------- MODULE NoteManagerProofs ---------------------------
(***************************************************************************)
(* Proofs about NoteManager for any number of processes, handlers and      *)
(* requests, with or without a file at the start and whatever reads and    *)
(* writes fail.                                                            *)
(***************************************************************************)
EXTENDS NoteManager, FiniteSetTheorems, TLAPS

\* The calls of setNote that are begun or due in p.
GetsDue(p) == {r \in Gets : get[r].pc \in {"save", "saving"} /\ get[r].p = p}
\* The updates that are about to set the note of a process.
UpdatesDue(p) == {u \in Updates : upd[u].pc = "saving" /\ upd[u].p = p}

\* A version counts calls of setNote that have ended.
VersionsCounted ==
  \A p \in Procs :
    /\ IsFiniteSet(GetsDue(p))
    /\ IsFiniteSet(UpdatesDue(p))
    /\ note[p].version + Cardinality(GetsDue(p)) + Cardinality(UpdatesDue(p)) <= saves

\* callListeners is on its way only to a helper that has a note.
CallsHaveNotes ==
  \A r \in Gets : get[r].pc = "call" => helper[<<get[r].p, get[r].h>>] # None

\* The inductive strengthening of the types.
TypeInv == TypeOK /\ VersionsCounted /\ CallsHaveNotes

----------------------------------------------------------------------------
(* The states of a request                                                  *)

\* What the state of a forecast request says of its fields.
LEMMA GetShape ==
  ASSUME NEW g \in GetStates
  PROVE  /\ g.pc \in {"idle", "call", "serve", "deliver", "save", "saving"}
         /\ g.pc = "idle" => g = IdleGet
         /\ g.pc # "idle" => g.p \in Procs
         /\ g.pc \in {"call", "serve", "deliver"} => g.h \in Handlers
         /\ g.pc = "deliver" => g.note \in SeenNotes
         /\ g.pc \in {"save", "saving"} => g.data \in Lists
         /\ g.pc = "save" =>
              /\ [g EXCEPT !.pc = "saving"] \in GetStates
              /\ [g EXCEPT !.pc = "saving"].pc = "saving"
              /\ [g EXCEPT !.pc = "saving"].p = g.p
BY DEF GetStates, IdleGet

\* What the state of an update request says of its fields.
LEMMA UpdShape ==
  ASSUME NEW u \in UpdStates
  PROVE  /\ u.pc \in {"idle", "read", "compute", "saving"}
         /\ u.pc = "idle" => u = IdleUpd
         /\ u.pc # "idle" => u.p \in Procs
         /\ u.pc \in {"compute", "saving"} => u.old \in Lists
         /\ u.pc = "compute" =>
              /\ [u EXCEPT !.pc = "saving"] \in UpdStates
              /\ [u EXCEPT !.pc = "saving"].pc = "saving"
              /\ [u EXCEPT !.pc = "saving"].p = u.p
              /\ [u EXCEPT !.pc = "saving"].old = u.old
BY DEF UpdStates, IdleUpd

\* The states a step may put a request in.
LEMMA NewStates ==
  /\ IdleGet \in GetStates /\ IdleGet.pc = "idle"
  /\ IdleUpd \in UpdStates /\ IdleUpd.pc = "idle"
  /\ \A p \in Procs, h \in Handlers :
       /\ [pc |-> "call", p |-> p, h |-> h] \in GetStates
       /\ [pc |-> "serve", p |-> p, h |-> h] \in GetStates
  /\ \A p \in Procs, h \in Handlers, n \in SeenNotes :
       [pc |-> "deliver", p |-> p, h |-> h, note |-> n] \in GetStates
  /\ \A p \in Procs, d \in Lists : [pc |-> "save", p |-> p, data |-> d] \in GetStates
  /\ \A p \in Procs : [pc |-> "read", p |-> p] \in UpdStates
  /\ \A p \in Procs, d \in Lists : [pc |-> "compute", p |-> p, old |-> d] \in UpdStates
BY DEF GetStates, UpdStates, IdleGet, IdleUpd

----------------------------------------------------------------------------
(* The types                                                                *)

\* configure establishes them.
LEMMA TypeInit == Init => TypeInv
<1> SUFFICES ASSUME Init PROVE TypeInv
  OBVIOUS
<1> USE NoteAssumption DEF Init
<1>1. TypeOK
  <2>1. note \in [Procs -> Notes] /\ file \in Lists \cup {None}
    BY DEF Notes, Lists, Empty
  <2> QED BY <2>1, NewStates DEF TypeOK
<1>2. VersionsCounted
  <2> SUFFICES ASSUME NEW p \in Procs
               PROVE  /\ IsFiniteSet(GetsDue(p))
                      /\ IsFiniteSet(UpdatesDue(p))
                      /\ note[p].version + Cardinality(GetsDue(p)) + Cardinality(UpdatesDue(p))
                           <= saves
    BY DEF VersionsCounted
  <2>1. GetsDue(p) = {} /\ UpdatesDue(p) = {}
    BY DEF GetsDue, UpdatesDue, IdleGet, IdleUpd
  <2>2. /\ IsFiniteSet(GetsDue(p)) /\ Cardinality(GetsDue(p)) = 0
        /\ IsFiniteSet(UpdatesDue(p)) /\ Cardinality(UpdatesDue(p)) = 0
    BY <2>1, FS_EmptySet, Zenon
  <2>3. note[p].version = 0 /\ saves = 0
    OBVIOUS
  <2> QED BY <2>2, <2>3
<1>3. CallsHaveNotes
  BY DEF CallsHaveNotes, IdleGet
<1> QED BY <1>1, <1>2, <1>3 DEF TypeInv

\* checkForUpdatedNotes has a note of the right type, loaded or not.
LEMMA LoadType ==
  ASSUME TypeInv, NEW p \in Procs, loadPersistentNotes(p)
  PROVE  /\ note' \in [Procs -> Notes]
         /\ isLoaded' \in [Procs -> BOOLEAN]
         /\ \A q \in Procs : note'[q].version <= note[q].version
<1> USE NoteAssumption DEF TypeInv, TypeOK
<1>1. CASE file # None /\ note' = [note EXCEPT ![p] = [version |-> 0, data |-> file]]
           /\ isLoaded' = [isLoaded EXCEPT ![p] = TRUE]
  BY <1>1 DEF Notes, Lists
<1>2. CASE UNCHANGED <<note, isLoaded>>
  BY <1>2 DEF Notes
<1> QED BY <1>1, <1>2 DEF loadPersistentNotes

\* A version stays below the number of calls while any call is due.
LEMMA VersionBound ==
  ASSUME TypeInv, NEW p \in Procs
  PROVE  /\ note[p].version \in Nat /\ saves \in Nat
         /\ Cardinality(GetsDue(p)) \in Nat /\ Cardinality(UpdatesDue(p)) \in Nat
         /\ \A r \in Gets : r \in GetsDue(p) => note[p].version < saves
         /\ \A u \in Updates : u \in UpdatesDue(p) => note[p].version < saves
<1>1. note[p].version \in Nat /\ saves \in Nat
  BY NoteAssumption DEF TypeInv, TypeOK, Notes
<1>2. Cardinality(GetsDue(p)) \in Nat /\ Cardinality(UpdatesDue(p)) \in Nat
  BY FS_CardinalityType DEF TypeInv, VersionsCounted
<1>3. /\ \A r \in Gets : r \in GetsDue(p) => Cardinality(GetsDue(p)) # 0
      /\ \A u \in Updates : u \in UpdatesDue(p) => Cardinality(UpdatesDue(p)) # 0
  BY FS_EmptySet DEF TypeInv, VersionsCounted
<1> QED BY <1>1, <1>2, <1>3 DEF TypeInv, VersionsCounted

\* The count when no call of setNote begins or ends.
LEMMA CountSame ==
  ASSUME TypeInv,
         \A p \in Procs : GetsDue(p)' = GetsDue(p) /\ UpdatesDue(p)' = UpdatesDue(p),
         note' \in [Procs -> Notes],
         \A p \in Procs : note'[p].version <= note[p].version,
         saves' = saves
  PROVE  VersionsCounted'
<1> SUFFICES ASSUME NEW p \in Procs
             PROVE  /\ IsFiniteSet(GetsDue(p))
                    /\ IsFiniteSet(UpdatesDue(p))
                    /\ note'[p].version + Cardinality(GetsDue(p)) + Cardinality(UpdatesDue(p))
                         <= saves
  BY DEF VersionsCounted
<1>1. note'[p].version \in Nat
  BY NoteAssumption DEF Notes
<1> QED BY <1>1, VersionBound DEF TypeInv, VersionsCounted

\* A forecast request arrives.
LEMMA CheckType ==
  ASSUME TypeInv, NEW r \in Gets, NEW p \in Procs, NEW h \in Handlers,
         checkForUpdatedNotes(r, p, h)
  PROVE  TypeInv'
<1> USE DEF TypeInv
<1>1. note' \in [Procs -> Notes] /\ isLoaded' \in [Procs -> BOOLEAN]
      /\ \A q \in Procs : note'[q].version <= note[q].version
  BY LoadType DEF checkForUpdatedNotes
<1>2. get[r] = IdleGet /\ UNCHANGED <<file, saving, reftimes, upd, updMutex, saves>>
  BY DEF checkForUpdatedNotes
<1>3. PICK pc \in {"call", "serve"} :
        /\ get' = [get EXCEPT ![r] = [pc |-> pc, p |-> p, h |-> h]]
        /\ pc = "call" => helper' = [helper EXCEPT ![<<p, h>>] = Seen(note'[p], isLoaded'[p])]
        /\ pc = "serve" => helper' = helper
  BY DEF checkForUpdatedNotes
<1>4. Seen(note'[p], isLoaded'[p]) \in SeenNotes /\ Seen(note'[p], isLoaded'[p]) # None
  BY <1>1, NoteAssumption DEF Seen, SeenNotes, Notes
<1>5. helper' \in [Procs \X Handlers -> SeenNotes \cup {None}]
  BY <1>3, <1>4 DEF TypeOK
<1>6. get' \in [Gets -> GetStates]
  BY <1>3, NewStates DEF TypeOK
<1>7. TypeOK'
  BY <1>1, <1>2, <1>5, <1>6 DEF TypeOK
<1>8. VersionsCounted'
  <2>1. \A q \in Procs : GetsDue(q)' = GetsDue(q) /\ UpdatesDue(q)' = UpdatesDue(q)
    BY <1>2, <1>3 DEF GetsDue, UpdatesDue, TypeOK, IdleGet
  <2> QED BY <2>1, <1>1, <1>2, CountSame
<1>9. CallsHaveNotes'
  <2> SUFFICES ASSUME NEW s \in Gets, get'[s].pc = "call"
               PROVE  helper'[<<get'[s].p, get'[s].h>>] # None
    BY DEF CallsHaveNotes
  <2>1. CASE s = r
    BY <1>3, <1>4, <2>1 DEF TypeOK
  <2>2. CASE s # r
    <3>1. get'[s] = get[s] /\ helper[<<get[s].p, get[s].h>>] # None
      BY <1>3, <2>2 DEF TypeOK, CallsHaveNotes
    <3>2. get[s].p \in Procs /\ get[s].h \in Handlers
      BY <3>1, GetShape DEF TypeOK
    <3> QED BY <1>3, <1>4, <3>1, <3>2 DEF TypeOK
  <2> QED BY <2>1, <2>2
<1> QED BY <1>7, <1>8, <1>9

\* The note is taken to the handler, and the handler takes it.
LEMMA DeliverType ==
  ASSUME TypeInv, NEW r \in Gets, callListeners(r) \/ noteUpdated(r)
  PROVE  TypeInv'
<1> USE DEF TypeInv
<1> DEFINE p == get[r].p
           h == get[r].h
<1>1. get[r].pc \in {"call", "deliver"} /\ p \in Procs /\ h \in Handlers
  BY GetShape DEF TypeOK, callListeners, noteUpdated
<1>2. PICK g \in GetStates : get' = [get EXCEPT ![r] = g] /\ g.pc \in {"deliver", "serve"}
  <2>1. CASE callListeners(r)
    <3>1. helper[<<p, h>>] \in SeenNotes
      BY <1>1, <2>1 DEF callListeners, TypeOK, CallsHaveNotes
    <3>2. get' = [get EXCEPT ![r] = [pc |-> "deliver", p |-> p, h |-> h, note |-> helper[<<p, h>>]]]
      BY <2>1 DEF callListeners, TypeOK
    <3>3. [pc |-> "deliver", p |-> p, h |-> h, note |-> helper[<<p, h>>]] \in GetStates
      BY <1>1, <3>1 DEF GetStates
    <3> QED BY <3>2, <3>3
  <2>2. CASE noteUpdated(r)
    <3>1. [pc |-> "serve", p |-> p, h |-> h] \in GetStates
      BY <1>1, NewStates
    <3> QED BY <2>2, <3>1 DEF noteUpdated
  <2> QED BY <2>1, <2>2
<1>3. UNCHANGED <<file, note, isLoaded, saving, helper, upd, updMutex, saves>>
  BY DEF callListeners, noteUpdated
<1>4. reftimes' \in [Procs \X Handlers -> Lists \cup {None}]
  <2>1. get[r].pc = "deliver" => get[r].note.data \in Lists
    BY GetShape DEF TypeOK, SeenNotes
  <2> QED BY <1>1, <2>1 DEF TypeOK, callListeners, noteUpdated
<1>5. TypeOK'
  BY <1>2, <1>3, <1>4 DEF TypeOK
<1>6. VersionsCounted'
  <2>1. \A q \in Procs : GetsDue(q)' = GetsDue(q) /\ UpdatesDue(q)' = UpdatesDue(q)
    BY <1>1, <1>2, <1>3 DEF GetsDue, UpdatesDue, TypeOK
  <2>2. \A q \in Procs : note'[q].version <= note[q].version
    BY <1>3, VersionBound
  <2> QED BY <2>1, <2>2, <1>3, <1>5, CountSame DEF TypeOK
<1>7. CallsHaveNotes'
  BY <1>2, <1>3 DEF CallsHaveNotes, TypeOK
<1> QED BY <1>5, <1>6, <1>7

\* A call of setNote becomes due.
LEMMA CountGrows ==
  ASSUME TypeInv, NEW p \in Procs, NEW r,
         \A q \in Procs \ {p} : GetsDue(q)' = GetsDue(q) /\ UpdatesDue(q)' = UpdatesDue(q),
         \/ GetsDue(p)' = GetsDue(p) \cup {r} /\ UpdatesDue(p)' = UpdatesDue(p)
         \/ GetsDue(p)' = GetsDue(p) /\ UpdatesDue(p)' = UpdatesDue(p) \cup {r},
         note' = note, saves' = saves + 1
  PROVE  VersionsCounted'
<1> SUFFICES ASSUME NEW q \in Procs
             PROVE  /\ IsFiniteSet(GetsDue(q)')
                    /\ IsFiniteSet(UpdatesDue(q)')
                    /\ note[q].version + Cardinality(GetsDue(q)') + Cardinality(UpdatesDue(q)')
                         <= saves + 1
  BY DEF VersionsCounted
<1>1. /\ note[q].version \in Nat /\ saves \in Nat
      /\ Cardinality(GetsDue(q)) \in Nat /\ Cardinality(UpdatesDue(q)) \in Nat
      /\ IsFiniteSet(GetsDue(q)) /\ IsFiniteSet(UpdatesDue(q))
      /\ note[q].version + Cardinality(GetsDue(q)) + Cardinality(UpdatesDue(q)) <= saves
  BY VersionBound DEF TypeInv, VersionsCounted
<1>2. \A S : IsFiniteSet(S) /\ Cardinality(S) \in Nat =>
        /\ IsFiniteSet(S \cup {r})
        /\ Cardinality(S \cup {r}) \in Nat
        /\ Cardinality(S \cup {r}) <= Cardinality(S) + 1
  <2> SUFFICES ASSUME NEW S, IsFiniteSet(S), Cardinality(S) \in Nat
               PROVE  /\ IsFiniteSet(S \cup {r})
                      /\ Cardinality(S \cup {r}) \in Nat
                      /\ Cardinality(S \cup {r}) <= Cardinality(S) + 1
    OBVIOUS
  <2>1. /\ IsFiniteSet(S \cup {r})
        /\ Cardinality(S \cup {r}) = IF r \in S THEN Cardinality(S) ELSE Cardinality(S) + 1
    BY FS_AddElement
  <2> QED BY <2>1
<1>3. CASE q # p
  <2>1. GetsDue(q)' = GetsDue(q) /\ UpdatesDue(q)' = UpdatesDue(q)
    BY <1>3
  <2> QED BY <1>1, <2>1
<1>4. CASE q = p /\ GetsDue(p)' = GetsDue(p) \cup {r} /\ UpdatesDue(p)' = UpdatesDue(p)
  BY <1>1, <1>2, <1>4
<1>5. CASE q = p /\ GetsDue(p)' = GetsDue(p) /\ UpdatesDue(p)' = UpdatesDue(p) \cup {r}
  BY <1>1, <1>2, <1>5
<1> QED BY <1>3, <1>4, <1>5

\* A call of setNote ends.
LEMMA CountEnds ==
  ASSUME TypeInv, NEW p \in Procs, NEW r,
         \A q \in Procs \ {p} : /\ GetsDue(q)' = GetsDue(q) /\ UpdatesDue(q)' = UpdatesDue(q)
                                /\ note'[q] = note[q],
         \/ /\ r \in GetsDue(p)
            /\ GetsDue(p)' = GetsDue(p) \ {r} /\ UpdatesDue(p)' = UpdatesDue(p)
         \/ /\ r \in UpdatesDue(p)
            /\ GetsDue(p)' = GetsDue(p) /\ UpdatesDue(p)' = UpdatesDue(p) \ {r},
         note'[p].version = note[p].version + 1, saves' = saves
  PROVE  VersionsCounted'
<1> SUFFICES ASSUME NEW q \in Procs
             PROVE  /\ IsFiniteSet(GetsDue(q)')
                    /\ IsFiniteSet(UpdatesDue(q)')
                    /\ note'[q].version + Cardinality(GetsDue(q)') + Cardinality(UpdatesDue(q)')
                         <= saves
  BY DEF VersionsCounted
<1>1. /\ note[q].version \in Nat /\ saves \in Nat
      /\ Cardinality(GetsDue(q)) \in Nat /\ Cardinality(UpdatesDue(q)) \in Nat
      /\ IsFiniteSet(GetsDue(q)) /\ IsFiniteSet(UpdatesDue(q))
      /\ note[q].version + Cardinality(GetsDue(q)) + Cardinality(UpdatesDue(q)) <= saves
  BY VersionBound DEF TypeInv, VersionsCounted
<1>2. \A S : IsFiniteSet(S) /\ Cardinality(S) \in Nat /\ r \in S =>
        /\ IsFiniteSet(S \ {r})
        /\ Cardinality(S \ {r}) \in Nat
        /\ Cardinality(S \ {r}) = Cardinality(S) - 1
  BY FS_RemoveElement, FS_CardinalityType
<1>3. CASE q # p
  <2>1. GetsDue(q)' = GetsDue(q) /\ UpdatesDue(q)' = UpdatesDue(q) /\ note'[q] = note[q]
    BY <1>3
  <2> QED BY <1>1, <2>1
<1>4. CASE q = p /\ r \in GetsDue(p) /\ GetsDue(p)' = GetsDue(p) \ {r}
           /\ UpdatesDue(p)' = UpdatesDue(p)
  BY <1>1, <1>2, <1>4
<1>5. CASE q = p /\ r \in UpdatesDue(p) /\ GetsDue(p)' = GetsDue(p)
           /\ UpdatesDue(p)' = UpdatesDue(p) \ {r}
  BY <1>1, <1>2, <1>5
<1> QED BY <1>3, <1>4, <1>5

\* The list a handler uses: its own, one from the database, or the empty one.
LEMMA ReftimesType ==
  ASSUME TypeInv, NEW r \in Gets, getProviderReftimes(r)
  PROVE  TypeInv'
<1> USE DEF TypeInv
<1>1. get[r].pc = "serve" /\ get[r].p \in Procs /\ get[r].h \in Handlers
  BY GetShape DEF TypeOK, getProviderReftimes
<1>0. PICK p \in Procs, h \in Handlers : p = get[r].p /\ h = get[r].h
  BY <1>1
<1>2. UNCHANGED <<file, note, isLoaded, saving, helper, upd, updMutex>>
  BY DEF getProviderReftimes
<1>3. CASE /\ get' = [get EXCEPT ![r] = IdleGet] /\ saves' = saves
           /\ reftimes' = reftimes \/ reftimes' = [reftimes EXCEPT ![<<p, h>>] = Empty]
  <2>1. reftimes' \in [Procs \X Handlers -> Lists \cup {None}]
    BY <1>1, <1>3, NoteAssumption DEF TypeOK, Lists, Empty
  <2>2. TypeOK'
    BY <1>2, <1>3, <2>1, NewStates DEF TypeOK
  <2>3. \A q \in Procs : GetsDue(q)' = GetsDue(q) /\ UpdatesDue(q)' = UpdatesDue(q)
    BY <1>1, <1>2, <1>3 DEF GetsDue, UpdatesDue, TypeOK, IdleGet
  <2>4. \A q \in Procs : note'[q].version <= note[q].version
    BY <1>2, VersionBound
  <2>5. VersionsCounted'
    BY <2>2, <2>3, <2>4, <1>3, CountSame DEF TypeOK
  <2>6. CallsHaveNotes'
    BY <1>2, <1>3 DEF CallsHaveNotes, TypeOK, IdleGet
  <2> QED BY <2>2, <2>5, <2>6
<1>4. CASE /\ saves < MaxSaves /\ saves' = saves + 1
           /\ reftimes' = [reftimes EXCEPT ![<<p, h>>] = FreshList]
           /\ get' = [get EXCEPT ![r] = [pc |-> "save", p |-> p, data |-> FreshList]]
  <2>1. FreshList \in Lists /\ saves' \in 0..MaxSaves
    BY <1>4, NoteAssumption DEF TypeOK, Lists, FreshList
  <2>2. [pc |-> "save", p |-> p, data |-> FreshList] \in GetStates
    BY <1>1, <2>1, NewStates
  <2>3. TypeOK'
    BY <1>1, <1>2, <1>4, <2>1, <2>2 DEF TypeOK
  <2>4. \A q \in Procs \ {p} : GetsDue(q)' = GetsDue(q) /\ UpdatesDue(q)' = UpdatesDue(q)
    BY <1>0, <1>1, <1>2, <1>4 DEF GetsDue, UpdatesDue, TypeOK
  <2>5. GetsDue(p)' = GetsDue(p) \cup {r} /\ UpdatesDue(p)' = UpdatesDue(p)
    BY <1>0, <1>1, <1>2, <1>4 DEF GetsDue, UpdatesDue, TypeOK
  <2>6. VersionsCounted'
    BY <1>1, <1>2, <1>4, <2>4, <2>5, CountGrows
  <2>7. CallsHaveNotes'
    BY <1>2, <1>4 DEF CallsHaveNotes, TypeOK
  <2> QED BY <2>3, <2>6, <2>7
<1> QED BY <1>0, <1>3, <1>4 DEF getProviderReftimes

\* setNote opens the file.
LEMMA BeginType ==
  ASSUME TypeInv, NEW p \in Procs, NEW who \in Gets \cup Updates, NEW data \in Lists,
         BeginSetNote(p, who, data)
  PROVE  /\ file' \in Lists \cup {None}
         /\ saving' \in [Procs -> {None} \cup Savings]
         /\ UNCHANGED <<note, isLoaded, helper, reftimes, updMutex>>
<1>1. PICK opened \in {TRUE, ~WritesMayFail} :
        /\ saving' = [saving EXCEPT ![p] = [by |-> who, data |-> data, opened |-> opened]]
        /\ file' = IF opened THEN Empty ELSE file
  BY DEF BeginSetNote
<1>2. [by |-> who, data |-> data, opened |-> opened] \in Savings
  BY NoteAssumption DEF Savings
<1> QED BY <1>1, <1>2, NoteAssumption DEF BeginSetNote, TypeInv, TypeOK, Lists, Empty

\* setNote replaces the note and closes the file.
LEMMA EndType ==
  ASSUME TypeInv, NEW p \in Procs, EndSetNote(p), note[p].version < saves
  PROVE  /\ file' \in Lists \cup {None}
         /\ note' \in [Procs -> Notes]
         /\ note'[p].version = note[p].version + 1
         /\ \A q \in Procs \ {p} : note'[q] = note[q]
         /\ saving' \in [Procs -> {None} \cup Savings]
         /\ UNCHANGED <<isLoaded, helper, reftimes, saves>>
<1>1. saving[p] \in Savings /\ saving[p].data \in Lists
  BY DEF TypeInv, TypeOK, EndSetNote, Savings
<1>2. note[p].version + 1 \in 0..MaxSaves
  BY NoteAssumption, VersionBound DEF TypeInv, TypeOK
<1>3. [version |-> note[p].version + 1, data |-> saving[p].data] \in Notes
  BY <1>1, <1>2 DEF Notes
<1>4. note' = [note EXCEPT ![p] = [version |-> note[p].version + 1, data |-> saving[p].data]]
  BY DEF EndSetNote, TypeInv, TypeOK
<1> QED BY <1>1, <1>3, <1>4 DEF EndSetNote, TypeInv, TypeOK

\* A forecast request sets its list.
LEMMA GetSaveType ==
  ASSUME TypeInv, NEW r \in Gets, GetBeginsSave(r) \/ GetEndsSave(r)
  PROVE  TypeInv'
<1> USE DEF TypeInv
<1>0. PICK p \in Procs : p = get[r].p
  BY GetShape DEF TypeOK, GetBeginsSave, GetEndsSave
<1>1. /\ get[r].pc \in {"save", "saving"} /\ get[r].data \in Lists
      /\ get[r] \in GetStates
  BY GetShape DEF TypeOK, GetBeginsSave, GetEndsSave
<1>2. CASE GetBeginsSave(r)
  <2> DEFINE g == [get[r] EXCEPT !.pc = "saving"]
  <2>1. get[r].pc = "save" /\ get' = [get EXCEPT ![r] = g] /\ UNCHANGED <<upd, saves>>
    BY <1>2 DEF GetBeginsSave, TypeOK
  <2>2. g \in GetStates /\ g.pc = "saving" /\ g.p = p
    BY <1>0, <1>1, <2>1, GetShape, Zenon
  <2>3. /\ file' \in Lists \cup {None}
        /\ saving' \in [Procs -> {None} \cup Savings]
        /\ UNCHANGED <<note, isLoaded, helper, reftimes, updMutex>>
    BY <1>0, <1>1, <1>2, BeginType DEF GetBeginsSave
  <2> HIDE DEF g
  <2>4. TypeOK'
    BY <2>1, <2>2, <2>3 DEF TypeOK
  <2>5. \A q \in Procs : GetsDue(q)' = GetsDue(q) /\ UpdatesDue(q)' = UpdatesDue(q)
    BY <1>0, <1>1, <2>1, <2>2 DEF GetsDue, UpdatesDue, TypeOK
  <2>6. \A q \in Procs : note'[q].version <= note[q].version
    BY <2>3, VersionBound
  <2>7. VersionsCounted'
    BY <2>1, <2>4, <2>5, <2>6, CountSame DEF TypeOK
  <2>8. CallsHaveNotes'
    BY <2>1, <2>2, <2>3 DEF CallsHaveNotes, TypeOK
  <2> QED BY <2>4, <2>7, <2>8
<1>3. CASE GetEndsSave(r)
  <2>1. /\ get[r].pc = "saving" /\ get' = [get EXCEPT ![r] = IdleGet]
        /\ UNCHANGED <<upd, updMutex>> /\ EndSetNote(p)
    BY <1>0, <1>3 DEF GetEndsSave
  <2>2. r \in GetsDue(p)
    BY <1>0, <2>1 DEF GetsDue
  <2>3. note[p].version < saves
    BY <1>1, <2>2, VersionBound
  <2>4. /\ file' \in Lists \cup {None}
        /\ note' \in [Procs -> Notes]
        /\ note'[p].version = note[p].version + 1
        /\ \A q \in Procs \ {p} : note'[q] = note[q]
        /\ saving' \in [Procs -> {None} \cup Savings]
        /\ UNCHANGED <<isLoaded, helper, reftimes, saves>>
    BY <1>1, <2>1, <2>3, EndType
  <2>5. TypeOK'
    BY <2>1, <2>4, NewStates DEF TypeOK
  <2>6. \A q \in Procs \ {p} : GetsDue(q)' = GetsDue(q) /\ UpdatesDue(q)' = UpdatesDue(q)
    BY <1>0, <2>1 DEF GetsDue, UpdatesDue, TypeOK, IdleGet
  <2>7. GetsDue(p)' = GetsDue(p) \ {r} /\ UpdatesDue(p)' = UpdatesDue(p)
    BY <1>0, <2>1 DEF GetsDue, UpdatesDue, TypeOK, IdleGet
  <2>8. VersionsCounted'
    BY <1>1, <2>2, <2>4, <2>6, <2>7, CountEnds
  <2>9. CallsHaveNotes'
    BY <2>1, <2>4 DEF CallsHaveNotes, TypeOK, IdleGet
  <2> QED BY <2>5, <2>8, <2>9
<1> QED BY <1>2, <1>3

\* An update request up to the point where it sets the note, or gives up.
LEMMA UpdateType ==
  ASSUME TypeInv, NEW u \in Updates,
         \/ \E p \in Procs : UpdateBegins(u, p)
         \/ UpdateReads(u)
         \/ UpdateFails(u)
  PROVE  TypeInv'
<1> USE DEF TypeInv
<1>1. PICK p \in Procs, n \in UpdStates :
        /\ upd' = [upd EXCEPT ![u] = n]
        /\ n.pc \in {"idle", "read", "compute"}
        /\ upd[u].pc \in {"idle", "read", "compute"}
        /\ \/ loadPersistentNotes(p) /\ updMutex' = [updMutex EXCEPT ![p] = u]
           \/ UNCHANGED <<note, isLoaded, updMutex>>
           \/ updMutex' = [updMutex EXCEPT ![p] = None] /\ UNCHANGED <<note, isLoaded>>
        /\ UNCHANGED <<file, saving, helper, reftimes, get, saves>>
  <2>1. CASE \E p \in Procs : UpdateBegins(u, p)
    <3>1. PICK p \in Procs : UpdateBegins(u, p)
      BY <2>1
    <3>2. [pc |-> "read", p |-> p] \in UpdStates /\ [pc |-> "read", p |-> p].pc = "read"
      BY NewStates
    <3> QED BY <3>1, <3>2, NewStates DEF UpdateBegins
  <2>2. CASE UpdateReads(u)
    <3>1. PICK p \in Procs : p = upd[u].p
      BY <2>2, UpdShape DEF UpdateReads, TypeOK
    <3>2. (IF isLoaded[p] THEN note[p].data ELSE Empty) \in Lists
      BY NoteAssumption DEF TypeOK, Notes, Lists, Empty
    <3>3. \A d \in Lists : /\ [pc |-> "compute", p |-> p, old |-> d] \in UpdStates
                           /\ [pc |-> "compute", p |-> p, old |-> d].pc = "compute"
      BY NewStates
    <3> QED BY <2>2, <3>1, <3>2, <3>3 DEF UpdateReads
  <2>3. CASE UpdateFails(u)
    <3>1. PICK p \in Procs : p = upd[u].p
      BY <2>3, UpdShape DEF UpdateFails, TypeOK
    <3> QED BY <2>3, <3>1, NewStates DEF UpdateFails
  <2> QED BY <2>1, <2>2, <2>3
<1>2. /\ note' \in [Procs -> Notes] /\ isLoaded' \in [Procs -> BOOLEAN]
      /\ \A q \in Procs : note'[q].version <= note[q].version
  BY <1>1, LoadType, VersionBound DEF TypeOK
<1>3. updMutex' \in [Procs -> Updates \cup {None}]
  <2>1. loadPersistentNotes(p) => updMutex' \in [Procs -> Updates \cup {None}]
    BY <1>1 DEF TypeOK
  <2> QED BY <1>1, <2>1 DEF TypeOK
<1>4. TypeOK'
  BY <1>1, <1>2, <1>3 DEF TypeOK
<1>5. \A q \in Procs : GetsDue(q)' = GetsDue(q) /\ UpdatesDue(q)' = UpdatesDue(q)
  BY <1>1 DEF GetsDue, UpdatesDue, TypeOK
<1>6. VersionsCounted'
  BY <1>1, <1>2, <1>5, CountSame
<1>7. CallsHaveNotes'
  BY <1>1 DEF CallsHaveNotes
<1> QED BY <1>4, <1>6, <1>7

\* An update request sets the note.
LEMMA UpdateSaveType ==
  ASSUME TypeInv, NEW u \in Updates, UpdateBeginsSave(u) \/ UpdateEndsSave(u)
  PROVE  TypeInv'
<1> USE DEF TypeInv
<1>0. PICK p \in Procs : p = upd[u].p
  BY UpdShape DEF TypeOK, UpdateBeginsSave, UpdateEndsSave
<1>1. upd[u].pc \in {"compute", "saving"} /\ upd[u].old \in Lists /\ upd[u] \in UpdStates
  BY UpdShape DEF TypeOK, UpdateBeginsSave, UpdateEndsSave
<1>2. CASE UpdateBeginsSave(u)
  <2> DEFINE n == [upd[u] EXCEPT !.pc = "saving"]
  <2>1. /\ upd[u].pc = "compute" /\ upd' = [upd EXCEPT ![u] = n]
        /\ saves < MaxSaves /\ saves' = saves + 1 /\ UNCHANGED get
    BY <1>2 DEF UpdateBeginsSave, TypeOK
  <2>2. n \in UpdStates /\ n.pc = "saving" /\ n.p = p
    BY <1>0, <1>1, <2>1, UpdShape, Zenon
  <2> HIDE DEF n
  <2>3. FreshList \in Lists /\ saves' \in 0..MaxSaves
    BY <2>1, NoteAssumption DEF TypeOK, Lists, FreshList
  <2>4. PICK data \in Lists : BeginSetNote(p, u, data)
    BY <1>0, <1>1, <1>2, <2>3 DEF UpdateBeginsSave
  <2>5. /\ file' \in Lists \cup {None}
        /\ saving' \in [Procs -> {None} \cup Savings]
        /\ UNCHANGED <<note, isLoaded, helper, reftimes, updMutex>>
    BY <2>4, BeginType
  <2>6. TypeOK'
    BY <2>1, <2>2, <2>3, <2>5 DEF TypeOK
  <2>7. \A q \in Procs \ {p} : GetsDue(q)' = GetsDue(q) /\ UpdatesDue(q)' = UpdatesDue(q)
    BY <1>0, <1>1, <2>1, <2>2 DEF GetsDue, UpdatesDue, TypeOK
  <2>8. GetsDue(p)' = GetsDue(p) /\ UpdatesDue(p)' = UpdatesDue(p) \cup {u}
    BY <1>0, <1>1, <2>1, <2>2 DEF GetsDue, UpdatesDue, TypeOK
  <2>9. VersionsCounted'
    BY <2>1, <2>5, <2>7, <2>8, CountGrows
  <2>10. CallsHaveNotes'
    BY <2>1, <2>5 DEF CallsHaveNotes
  <2> QED BY <2>6, <2>9, <2>10
<1>3. CASE UpdateEndsSave(u)
  <2>1. /\ upd[u].pc = "saving" /\ upd' = [upd EXCEPT ![u] = IdleUpd]
        /\ updMutex' = [updMutex EXCEPT ![p] = None]
        /\ UNCHANGED get /\ EndSetNote(p)
    BY <1>0, <1>3 DEF UpdateEndsSave
  <2>2. u \in UpdatesDue(p)
    BY <1>0, <2>1 DEF UpdatesDue
  <2>3. note[p].version < saves
    BY <2>2, VersionBound
  <2>4. /\ file' \in Lists \cup {None}
        /\ note' \in [Procs -> Notes]
        /\ note'[p].version = note[p].version + 1
        /\ \A q \in Procs \ {p} : note'[q] = note[q]
        /\ saving' \in [Procs -> {None} \cup Savings]
        /\ UNCHANGED <<isLoaded, helper, reftimes, saves>>
    BY <2>1, <2>3, EndType
  <2>5. TypeOK'
    BY <2>1, <2>4, NewStates DEF TypeOK
  <2>6. \A q \in Procs \ {p} : GetsDue(q)' = GetsDue(q) /\ UpdatesDue(q)' = UpdatesDue(q)
    BY <1>0, <2>1 DEF GetsDue, UpdatesDue, TypeOK, IdleUpd
  <2>7. GetsDue(p)' = GetsDue(p) /\ UpdatesDue(p)' = UpdatesDue(p) \ {u}
    BY <1>0, <2>1 DEF GetsDue, UpdatesDue, TypeOK, IdleUpd
  <2>8. VersionsCounted'
    BY <2>2, <2>4, <2>6, <2>7, CountEnds
  <2>9. CallsHaveNotes'
    BY <2>1, <2>4 DEF CallsHaveNotes
  <2> QED BY <2>5, <2>8, <2>9
<1> QED BY <1>2, <1>3

\* Every step keeps the types.
LEMMA TypeStep == TypeInv /\ [Next]_vars => TypeInv'
<1> SUFFICES ASSUME TypeInv, [Next]_vars PROVE TypeInv'
  OBVIOUS
<1>1. CASE \E r \in Gets, p \in Procs, h \in Handlers : checkForUpdatedNotes(r, p, h)
  BY <1>1, CheckType
<1>2. CASE \E r \in Gets : GetSteps(r)
  BY <1>2, DeliverType, ReftimesType, GetSaveType DEF GetSteps
<1>3. CASE \E u \in Updates, p \in Procs : UpdateBegins(u, p)
  BY <1>3, UpdateType
<1>4. CASE \E u \in Updates : \/ UpdateReads(u)
                              \/ UpdateFails(u)
                              \/ UpdateBeginsSave(u)
                              \/ UpdateEndsSave(u)
  BY <1>4, UpdateType, UpdateSaveType
<1>5. CASE UNCHANGED vars
  BY <1>5 DEF vars, TypeInv, TypeOK, VersionsCounted, CallsHaveNotes, GetsDue, UpdatesDue
<1> QED BY <1>1, <1>2, <1>3, <1>4, <1>5 DEF Next

\* The types hold for any number of processes, handlers and requests,
\* whatever reads and writes fail: no version outgrows the calls of setNote,
\* and callListeners copies a note, never a null pointer.
THEOREM TypeCorrect == SafeSpec => []TypeOK
<1>1. TypeInv => TypeOK
  BY DEF TypeInv
<1> QED BY <1>1, TypeInit, TypeStep, PTL DEF SafeSpec

----------------------------------------------------------------------------
(* Versions name notes                                                      *)

\* A helper that has seen a note has not seen a load that has not happened;
\* and what it has seen since the load, or without one, is n or older than n.
Behind(seen, n, loaded) ==
  seen # None =>
    /\ seen.loaded => loaded
    /\ seen.loaded = loaded =>
         /\ seen.version <= n.version
         /\ seen.version = n.version => seen.data = n.data

\* Every helper lags behind its manager, or has its note.
Lag == \A p \in Procs, h \in Handlers : Behind(helper[<<p, h>>], note[p], isLoaded[p])

\* What the types say of a helper and a manager.
LEMMA HelperShape ==
  ASSUME TypeInv, NEW p \in Procs, NEW h \in Handlers
  PROVE  /\ note[p].version \in Nat /\ isLoaded[p] \in BOOLEAN
         /\ helper[<<p, h>>] # None =>
              helper[<<p, h>>].version \in Nat /\ helper[<<p, h>>].loaded \in BOOLEAN
BY NoteAssumption DEF TypeInv, TypeOK, Notes, SeenNotes

\* Loading replaces the note of one process, and only a note that is not
\* loaded.
LEMMA LoadStep ==
  ASSUME TypeInv, NEW p \in Procs, loadPersistentNotes(p)
  PROVE  /\ \A q \in Procs : \/ note'[q] = note[q] /\ isLoaded'[q] = isLoaded[q]
                             \/ ~isLoaded[q] /\ isLoaded'[q]
         /\ isLoaded' \in [Procs -> BOOLEAN]
         /\ note'[p].version \in Nat
<1>1. /\ \A q \in Procs : \/ note'[q] = note[q] /\ isLoaded'[q] = isLoaded[q]
                          \/ ~isLoaded[q] /\ isLoaded'[q]
  BY DEF TypeInv, TypeOK, loadPersistentNotes
<1> QED BY <1>1, LoadType, NoteAssumption DEF Notes

\* Helpers lag behind a note that is loaded.
LEMMA LagLoaded ==
  ASSUME TypeInv, Lag, helper' = helper, isLoaded' \in [Procs -> BOOLEAN],
         \A q \in Procs : \/ note'[q] = note[q] /\ isLoaded'[q] = isLoaded[q]
                          \/ ~isLoaded[q] /\ isLoaded'[q]
  PROVE  Lag'
<1> SUFFICES ASSUME NEW p \in Procs, NEW h \in Handlers
             PROVE  Behind(helper[<<p, h>>], note'[p], isLoaded'[p])
  BY DEF Lag
<1>1. Behind(helper[<<p, h>>], note[p], isLoaded[p])
  BY DEF Lag
<1>2. CASE note'[p] = note[p] /\ isLoaded'[p] = isLoaded[p]
  BY <1>1, <1>2
<1>3. CASE ~isLoaded[p] /\ isLoaded'[p]
  BY <1>1, <1>3, HelperShape DEF Behind
<1> QED BY <1>2, <1>3

\* What the end of setNote does to the notes.
LEMMA SetStep ==
  ASSUME TypeInv, NEW p \in Procs, EndSetNote(p)
  PROVE  /\ note'[p].version = note[p].version + 1
         /\ \A q \in Procs \ {p} : note'[q] = note[q]
         /\ UNCHANGED <<isLoaded, helper, reftimes>>
BY DEF EndSetNote, TypeInv, TypeOK

\* A helper keeps lagging when the note it has seen is replaced.
LEMMA LagKept ==
  ASSUME TypeInv, Lag, helper' = helper, isLoaded' = isLoaded,
         \A p \in Procs : note'[p] = note[p] \/ note'[p].version = note[p].version + 1
  PROVE  Lag'
<1> SUFFICES ASSUME NEW p \in Procs, NEW h \in Handlers
             PROVE  Behind(helper[<<p, h>>], note'[p], isLoaded[p])
  BY DEF Lag
<1>1. Behind(helper[<<p, h>>], note[p], isLoaded[p])
  BY DEF Lag
<1> QED BY <1>1, HelperShape DEF Behind

\* Every step keeps it.
LEMMA LagStep ==
  ASSUME TypeInv, Lag, [Next]_vars
  PROVE  Lag'
<1>1. CASE \E r \in Gets, p \in Procs, h \in Handlers : checkForUpdatedNotes(r, p, h)
  <2>1. PICK r \in Gets, p \in Procs, h \in Handlers : checkForUpdatedNotes(r, p, h)
    BY <1>1
  <2>2. /\ \A q \in Procs : \/ note'[q] = note[q] /\ isLoaded'[q] = isLoaded[q]
                            \/ ~isLoaded[q] /\ isLoaded'[q]
        /\ isLoaded' \in [Procs -> BOOLEAN]
        /\ note'[p].version \in Nat
    BY <2>1, LoadStep DEF checkForUpdatedNotes
  <2>3. CASE helper' = helper
    BY <2>2, <2>3, LagLoaded
  <2>4. CASE helper' = [helper EXCEPT ![<<p, h>>] = Seen(note'[p], isLoaded'[p])]
    <3> SUFFICES ASSUME NEW q \in Procs, NEW k \in Handlers
                 PROVE  Behind(helper'[<<q, k>>], note'[q], isLoaded'[q])
      BY DEF Lag
    <3>1. CASE q = p /\ k = h
      <4>1. helper'[<<q, k>>] = Seen(note'[p], isLoaded'[p])
        BY <2>4, <3>1 DEF TypeInv, TypeOK
      <4> QED BY <2>2, <3>1, <4>1 DEF Behind, Seen
    <3>2. CASE ~(q = p /\ k = h)
      <4>1. helper'[<<q, k>>] = helper[<<q, k>>] /\ Behind(helper[<<q, k>>], note[q], isLoaded[q])
        BY <2>4, <3>2 DEF TypeInv, TypeOK, Lag
      <4> QED BY <2>2, <4>1, HelperShape DEF Behind
    <3> QED BY <3>1, <3>2
  <2> QED BY <2>1, <2>3, <2>4 DEF checkForUpdatedNotes
<1>2. CASE \E r \in Gets : GetSteps(r)
  <2>1. PICK r \in Gets : GetSteps(r)
    BY <1>2
  <2>2. CASE callListeners(r) \/ noteUpdated(r) \/ getProviderReftimes(r)
    BY <2>2 DEF Lag, callListeners, noteUpdated, getProviderReftimes
  <2>3. CASE GetBeginsSave(r)
    BY <2>3 DEF Lag, GetBeginsSave, BeginSetNote
  <2>4. CASE GetEndsSave(r)
    <3>1. get[r].p \in Procs
      BY <2>4, GetShape DEF GetEndsSave, TypeInv, TypeOK
    <3> QED BY <2>4, <3>1, SetStep, LagKept DEF GetEndsSave
  <2> QED BY <2>1, <2>2, <2>3, <2>4 DEF GetSteps
<1>3. CASE \E u \in Updates, p \in Procs : UpdateBegins(u, p)
  BY <1>3, LoadStep, LagLoaded DEF UpdateBegins
<1>4. CASE \E u \in Updates : UpdateReads(u) \/ UpdateFails(u)
  BY <1>4 DEF Lag, UpdateReads, UpdateFails
<1>5. CASE \E u \in Updates : UpdateBeginsSave(u)
  BY <1>5 DEF Lag, UpdateBeginsSave, BeginSetNote
<1>6. CASE \E u \in Updates : UpdateEndsSave(u)
  <2>1. PICK u \in Updates : UpdateEndsSave(u)
    BY <1>6
  <2>2. upd[u].p \in Procs
    BY <2>1, UpdShape DEF UpdateEndsSave, TypeInv, TypeOK
  <2> QED BY <2>1, <2>2, SetStep, LagKept DEF UpdateEndsSave
<1>7. CASE UNCHANGED vars
  BY <1>7 DEF Lag, vars
<1> QED BY <1>1, <1>2, <1>3, <1>4, <1>5, <1>6, <1>7 DEF Next

\* Comparing versions is as good as comparing notes between any two notes on
\* the same side of the load, in every process, whatever fails.
THEOREM VersionsName == SafeSpec => []VersionNamesNote
<1>1. Init => Lag
  BY DEF Init, Lag, Behind
<1>2. TypeInv /\ Lag /\ [Next]_vars => Lag'
  BY LagStep
<1>3. Lag => VersionNamesNote
  BY DEF Lag, Behind, VersionNamesNote
<1> QED BY <1>1, <1>2, <1>3, TypeInit, TypeStep, PTL DEF SafeSpec

----------------------------------------------------------------------------
(* No update is lost                                                        *)

\* The update under way holds the mutex of its process's update handler, and
\* whoever is inside setNote is the one the manager has let in.
Owners ==
  /\ \A u \in Updates :
       /\ upd[u].pc # "idle" => updMutex[upd[u].p] = u
       /\ upd[u].pc = "saving" => saving[upd[u].p] # None /\ saving[upd[u].p].by = u
  /\ \A r \in Gets :
       get[r].pc = "saving" => saving[get[r].p] # None /\ saving[get[r].p].by = r

\* What nobody owns changes hands freely.
LEMMA OwnersKept ==
  ASSUME TypeInv, Owners, saving' = saving, updMutex' = updMutex,
         \A u \in Updates : upd'[u] = upd[u] \/ /\ upd[u].pc # "idle" /\ upd'[u].p = upd[u].p
                                                /\ upd'[u].pc # "saving",
         \A r \in Gets : get'[r] = get[r] \/ get'[r].pc # "saving"
  PROVE  Owners'
BY DEF Owners

\* A forecast request enters setNote and leaves it.
LEMMA GetSaveOwners ==
  ASSUME TypeInv, Owners, NEW r \in Gets, GetBeginsSave(r) \/ GetEndsSave(r)
  PROVE  Owners'
<1>0. /\ upd' = upd /\ updMutex' = updMutex
      /\ \A s \in Gets \ {r} : get'[s] = get[s]
      /\ get[r].p \in Procs /\ saving \in [Procs -> {None} \cup Savings]
      /\ get \in [Gets -> GetStates]
  BY GetShape DEF TypeInv, TypeOK, GetBeginsSave, GetEndsSave, BeginSetNote
<1>1. PICK p \in Procs : p = get[r].p
  BY <1>0
<1>2. CASE GetBeginsSave(r)
  <2>1. /\ saving[p] = None
        /\ \A q \in Procs \ {p} : saving'[q] = saving[q]
        /\ saving'[p] # None /\ saving'[p].by = r
    <3>1. PICK opened \in {TRUE, ~WritesMayFail} :
            saving' = [saving EXCEPT ![p] = [by |-> r, data |-> get[r].data, opened |-> opened]]
      BY <1>1, <1>2 DEF GetBeginsSave, BeginSetNote
    <3>2. [by |-> r, data |-> get[r].data, opened |-> opened] \in Savings
      BY <1>0, <1>2, GetShape, NoteAssumption DEF Savings, GetBeginsSave
    <3> QED BY <1>0, <1>1, <1>2, <3>1, <3>2, NoteAssumption DEF GetBeginsSave, BeginSetNote, MutexFree
  <2>2. get'[r].p = p
    BY <1>0, <1>1, <1>2, GetShape DEF GetBeginsSave
  <2>3. /\ \A u \in Updates : upd[u].pc = "saving" => upd[u].p # p /\ upd[u].p \in Procs
        /\ \A s \in Gets : get[s].pc = "saving" => get[s].p # p /\ get[s].p \in Procs
    BY <2>1, GetShape, UpdShape DEF Owners, TypeInv, TypeOK
  <2> QED BY <1>0, <1>1, <2>1, <2>2, <2>3 DEF Owners
<1>3. CASE GetEndsSave(r)
  <2>1. /\ saving[p].by = r /\ saving' = [saving EXCEPT ![p] = None]
        /\ get'[r].pc = "idle"
    BY <1>0, <1>1, <1>3, NewStates DEF GetEndsSave, EndSetNote, Owners
  <2>2. /\ \A u \in Updates : upd[u].pc = "saving" => upd[u].p # p /\ upd[u].p \in Procs
        /\ \A s \in Gets \ {r} : get[s].pc = "saving" => get[s].p # p /\ get[s].p \in Procs
    <3>1. /\ \A u \in Updates : upd[u].pc = "saving" => upd[u].p # p
          /\ \A s \in Gets \ {r} : get[s].pc = "saving" => get[s].p # p
      BY <2>1, NoteAssumption DEF Owners
    <3>2. /\ \A u \in Updates : upd[u].pc = "saving" => upd[u].p \in Procs
          /\ \A s \in Gets : get[s].pc = "saving" => get[s].p \in Procs
      BY GetShape, UpdShape DEF TypeInv, TypeOK
    <3> QED BY <3>1, <3>2
  <2> QED BY <1>0, <2>1, <2>2 DEF Owners
<1> QED BY <1>2, <1>3

\* An update takes the mutex of the update handler, and gives it back.
LEMMA UpdateOwners ==
  ASSUME TypeInv, Owners, NEW u \in Updates,
         (\E p \in Procs : UpdateBegins(u, p)) \/ UpdateReads(u) \/ UpdateFails(u)
  PROVE  Owners'
<1>0. /\ saving' = saving /\ get' = get
      /\ \A w \in Updates \ {u} : upd'[w] = upd[w]
      /\ upd \in [Updates -> UpdStates] /\ updMutex \in [Procs -> Updates \cup {None}]
      /\ \A w \in Updates : upd[w].pc # "idle" => upd[w].p \in Procs
  BY UpdShape DEF TypeInv, TypeOK, UpdateBegins, UpdateReads, UpdateFails
<1>1. CASE \E p \in Procs : UpdateBegins(u, p)
  <2>1. PICK p \in Procs : UpdateBegins(u, p)
    BY <1>1
  <2>2. /\ updMutex[p] = None /\ updMutex' = [updMutex EXCEPT ![p] = u]
        /\ upd'[u].pc = "read" /\ upd'[u].p = p
    BY <1>0, <2>1 DEF UpdateBegins
  <2>3. \A w \in Updates : upd[w].pc # "idle" => upd[w].p # p
    BY <2>2, NoteAssumption DEF Owners
  <2> QED BY <1>0, <2>2, <2>3 DEF Owners
<1>2. CASE UpdateReads(u)
  <2>1. /\ updMutex' = updMutex /\ upd[u].pc = "read"
        /\ upd'[u].pc = "compute" /\ upd'[u].p = upd[u].p
    BY <1>0, <1>2 DEF UpdateReads
  <2> QED BY <1>0, <2>1 DEF Owners
<1>3. CASE UpdateFails(u)
  <2>1. PICK p \in Procs : p = upd[u].p
    BY <1>0, <1>3 DEF UpdateFails
  <2>2. /\ updMutex[p] = u /\ updMutex' = [updMutex EXCEPT ![p] = None]
        /\ upd'[u].pc = "idle"
    BY <1>0, <1>3, <2>1, NewStates DEF UpdateFails, Owners
  <2>3. \A w \in Updates \ {u} : upd[w].pc # "idle" => upd[w].p # p
    BY <2>2 DEF Owners
  <2> QED BY <1>0, <2>2, <2>3 DEF Owners
<1> QED BY <1>1, <1>2, <1>3

\* An update enters setNote and leaves it.
LEMMA UpdateSaveOwners ==
  ASSUME TypeInv, Owners, NEW u \in Updates, UpdateBeginsSave(u) \/ UpdateEndsSave(u)
  PROVE  Owners'
<1>0. /\ get' = get
      /\ \A w \in Updates \ {u} : upd'[w] = upd[w]
      /\ upd \in [Updates -> UpdStates] /\ updMutex \in [Procs -> Updates \cup {None}]
      /\ saving \in [Procs -> {None} \cup Savings]
      /\ \A w \in Updates : upd[w].pc # "idle" => upd[w].p \in Procs
      /\ \A s \in Gets : get[s].pc # "idle" => get[s].p \in Procs
  BY UpdShape, GetShape DEF TypeInv, TypeOK, UpdateBeginsSave, UpdateEndsSave
<1>1. PICK p \in Procs : p = upd[u].p
  BY <1>0 DEF UpdateBeginsSave, UpdateEndsSave
<1>2. \A w \in Updates \ {u} : upd[w].pc # "idle" => upd[w].p # p
  BY <1>1 DEF Owners, UpdateBeginsSave, UpdateEndsSave
<1>3. CASE UpdateBeginsSave(u)
  <2>1. PICK data \in {FreshList, upd[u].old}, opened \in {TRUE, ~WritesMayFail} :
          saving' = [saving EXCEPT ![p] = [by |-> u, data |-> data, opened |-> opened]]
    BY <1>1, <1>3 DEF UpdateBeginsSave, BeginSetNote
  <2>2. [by |-> u, data |-> data, opened |-> opened] # None
    <3>1. upd[u].old \in Lists /\ FreshList \in Lists
      BY <1>0, <1>3, UpdShape, NoteAssumption
         DEF UpdateBeginsSave, FreshList, Lists, TypeInv, TypeOK
    <3>2. opened \in BOOLEAN /\ data \in Lists
      BY <3>1, NoteAssumption
    <3>3. [by |-> u, data |-> data, opened |-> opened] \in Savings
      BY <3>2 DEF Savings
    <3> QED BY <3>3, NoteAssumption
  <2>3. /\ saving[p] = None /\ updMutex' = updMutex
        /\ saving'[p] # None /\ saving'[p].by = u
        /\ \A q \in Procs \ {p} : saving'[q] = saving[q]
    BY <1>0, <1>1, <1>3, <2>1, <2>2 DEF UpdateBeginsSave, BeginSetNote, MutexFree
  <2>4. upd'[u].pc = "saving" /\ upd'[u].p = p /\ upd[u].pc = "compute"
    BY <1>0, <1>1, <1>3, UpdShape DEF UpdateBeginsSave
  <2>5. /\ \A w \in Updates : upd[w].pc = "saving" => upd[w].p # p
        /\ \A s \in Gets : get[s].pc = "saving" => get[s].p # p
    BY <2>3 DEF Owners
  <2> QED BY <1>0, <1>1, <2>3, <2>4, <2>5 DEF Owners
<1>4. CASE UpdateEndsSave(u)
  <2>1. /\ saving[p].by = u /\ saving' = [saving EXCEPT ![p] = None]
        /\ updMutex' = [updMutex EXCEPT ![p] = None] /\ upd'[u].pc = "idle"
    BY <1>0, <1>1, <1>4, NewStates DEF UpdateEndsSave, EndSetNote, Owners
  <2>2. \A s \in Gets : get[s].pc = "saving" => get[s].p # p
    BY <2>1, NoteAssumption DEF Owners
  <2> QED BY <1>0, <1>2, <2>1, <2>2 DEF Owners
<1> QED BY <1>3, <1>4

\* Every step keeps the owners.
LEMMA OwnersStep == ASSUME TypeInv, Owners, [Next]_vars PROVE Owners'
<1>1. CASE \E r \in Gets, p \in Procs, h \in Handlers : checkForUpdatedNotes(r, p, h)
  <2>1. \A r \in Gets : get'[r] = get[r] \/ get'[r].pc # "saving"
    BY <1>1 DEF checkForUpdatedNotes, TypeInv, TypeOK
  <2> QED BY <1>1, <2>1, OwnersKept DEF checkForUpdatedNotes
<1>2. CASE \E r \in Gets : callListeners(r) \/ noteUpdated(r) \/ getProviderReftimes(r)
  <2>1. \A r \in Gets : get'[r] = get[r] \/ get'[r].pc # "saving"
    BY <1>2, NewStates DEF callListeners, noteUpdated, getProviderReftimes, TypeInv, TypeOK
  <2> QED BY <1>2, <2>1, OwnersKept DEF callListeners, noteUpdated, getProviderReftimes
<1>3. CASE UNCHANGED vars
  BY <1>3 DEF vars, Owners
<1> QED BY <1>1, <1>2, <1>3, GetSaveOwners, UpdateOwners, UpdateSaveOwners DEF Next, GetSteps

\* What may happen to the note under an update that has read it.
LEMMA UpdateKeepsNote ==
  ASSUME TypeInv, Owners, Next, NEW u \in Updates, upd[u].pc \in {"compute", "saving"},
         note'[upd[u].p] # note[upd[u].p]
  PROVE  \/ saving[upd[u].p] # None /\ saving[upd[u].p].by \in {u} \cup Gets
         \/ ~isLoaded[upd[u].p] /\ isLoaded'[upd[u].p]
<1>1. PICK p \in Procs : p = upd[u].p
  BY UpdShape DEF TypeInv, TypeOK
<1>2. CASE \E q \in Procs : loadPersistentNotes(q)
  BY <1>1, <1>2, LoadStep
<1>3. CASE \E r \in Gets : GetEndsSave(r)
  <2>1. PICK r \in Gets : GetEndsSave(r)
    BY <1>3
  <2>2. get[r].pc = "saving" /\ get[r].p \in Procs
    BY <2>1, GetShape DEF GetEndsSave, TypeInv, TypeOK
  <2>3. get[r].p = p
    BY <1>1, <2>1, <2>2, SetStep DEF GetEndsSave
  <2> QED BY <1>1, <2>2, <2>3 DEF Owners
<1>4. CASE \E w \in Updates : UpdateEndsSave(w)
  <2>1. PICK w \in Updates : UpdateEndsSave(w)
    BY <1>4
  <2>2. upd[w].pc = "saving" /\ upd[w].p \in Procs
    BY <2>1, UpdShape DEF UpdateEndsSave, TypeInv, TypeOK
  <2>3. upd[w].p = p
    BY <1>1, <2>1, <2>2, SetStep DEF UpdateEndsSave
  <2>4. w = u
    BY <1>1, <2>2, <2>3 DEF Owners
  <2> QED BY <1>1, <2>2, <2>4 DEF Owners
<1>5. CASE note' = note
  BY <1>5
<1> QED BY <1>2, <1>3, <1>4, <1>5
        DEF Next, GetSteps, checkForUpdatedNotes, callListeners, noteUpdated, getProviderReftimes,
            GetBeginsSave, UpdateBegins, UpdateReads, UpdateFails, UpdateBeginsSave, BeginSetNote

\* With any number of forecast requests under way, no update replaces the note
\* under another that has read it: only the load of the note and a forecast
\* request that sets a list of its own do.
THEOREM NoUpdateIsLost == SafeSpec => NoLostUpdate
<1>1. Init => Owners
  BY NewStates DEF Init, Owners
<1>2. TypeInv /\ Owners /\ [Next]_vars => Owners'
  BY OwnersStep
<1>3. TypeInv /\ Owners /\ [Next]_vars =>
        [\A u \in Updates :
           LET p == upd[u].p
           IN upd[u].pc \in {"compute", "saving"} /\ note'[p] # note[p] =>
                \/ saving[p] # None /\ saving[p].by \in {u} \cup Gets
                \/ ~isLoaded[p] /\ isLoaded'[p]]_vars
  BY UpdateKeepsNote
<1> QED BY <1>1, <1>2, <1>3, TypeInit, TypeStep, PTL DEF SafeSpec, NoLostUpdate

================================================================================
