------------------------- MODULE FileLockHelperProofs -------------------------
(***************************************************************************)
(* Proofs about FileLockHelper for any number of processes, threads and    *)
(* contents, with calls that fail and processes that die.                  *)
(***************************************************************************)
EXTENDS FileLockHelper, TLAPS

\* What the advisory lock comes to: a writer behind flock.lock() has the
\* exclusive lock, a reader behind lock_sharable() its process's share, and
\* the two are never held together.
LocksHeld ==
  /\ \A t \in Threads :
       call[t].pc \in {"truncate", "write", "unlock"} => writer = call[t].p
  /\ \A t \in Threads :
       call[t].pc \in {"size", "read", "unlock_sharable"} => call[t].p \in readers
  /\ writer # None => readers = {}

\* An empty file is one somebody is about to write, or one a write that failed
\* has left behind; and it never holds anything but the last write.
EmptyIsPending ==
  /\ file \in {last, Empty}
  /\ file = Empty =>
       broken \/ \E t \in Threads : call[t].pc \in {"lock", "truncate", "write"}

\* A read that is quiet so far runs beside no write, and what it has got until
\* now is not the empty file.
QuietSoFar ==
  \A t \in Threads :
    /\ call[t].pc \in Reading /\ call[t].quiet => Writing = {} /\ ~broken
    /\ call[t].pc = "read" /\ call[t].quiet => call[t].sized \in Contents
    /\ call[t].pc = "unlock_sharable" /\ call[t].quiet => call[t].result \in Contents
    /\ At(t, "done") /\ "quiet" \in DOMAIN call[t] /\ call[t].quiet =>
         call[t].result \in Contents

\* The inductive invariant.
IInv == TypeOK /\ LocksHeld /\ EmptyIsPending /\ QuietSoFar

\* Where a write has the file open.
WritePoints == {"lock", "truncate", "write", "unlock"}

\* What the state of a call says of its fields.
LEMMA Shape ==
  ASSUME NEW c \in CallStates
  PROVE  /\ c.pc \in {"idle", "done"} \cup WritePoints \cup Reading
         /\ c.pc \in WritePoints \cup Reading => c.p \in Procs
         /\ c.pc \in WritePoints => c.data \in Contents
         /\ c.pc \in Reading => c.quiet \in BOOLEAN
         /\ c.pc = "read" => c.sized \in Contents \cup {Empty}
         /\ c.pc = "unlock_sharable" => c.result \in Contents \cup {Empty, Garbage}
BY DEF CallStates, WritePoints, Reading, IdleCall

\* Going on keeps the other fields, and so does losing the quiet.
LEMMA Moved ==
  ASSUME NEW c \in CallStates
  PROVE  /\ \A pc \in WritePoints : c.pc \in WritePoints =>
              /\ [c EXCEPT !.pc = pc] \in CallStates
              /\ [c EXCEPT !.pc = pc].pc = pc
              /\ [c EXCEPT !.pc = pc].p = c.p
         /\ c.pc = "lock_sharable" =>
              /\ [c EXCEPT !.pc = "size"] \in CallStates
              /\ [c EXCEPT !.pc = "size"].pc = "size"
              /\ [c EXCEPT !.pc = "size"].p = c.p
              /\ [c EXCEPT !.pc = "size"].quiet = c.quiet
         /\ c.pc \in Reading =>
              /\ [c EXCEPT !.quiet = FALSE] \in CallStates
              /\ [c EXCEPT !.quiet = FALSE].pc = c.pc
              /\ [c EXCEPT !.quiet = FALSE].p = c.p
              /\ [c EXCEPT !.quiet = FALSE].quiet = FALSE
<1>1. CASE c \in [pc : WritePoints, p : Procs, data : Contents]
  BY <1>1 DEF WritePoints, Reading, CallStates
<1>2. CASE c \in [pc : {"lock_sharable", "size"}, p : Procs, quiet : BOOLEAN]
  BY <1>2 DEF WritePoints, Reading, CallStates
<1>3. CASE c \in [pc : {"read"}, p : Procs, sized : Contents \cup {Empty}, quiet : BOOLEAN]
  BY <1>3 DEF WritePoints, Reading, CallStates
<1>4. CASE c \in [pc : {"unlock_sharable"}, p : Procs, result : Contents \cup {Empty, Garbage},
                  quiet : BOOLEAN]
  BY <1>4 DEF WritePoints, Reading, CallStates
<1>5. CASE c.pc \in {"idle", "done"}
  BY <1>5 DEF WritePoints, Reading
<1> QED BY <1>1, <1>2, <1>3, <1>4, <1>5 DEF CallStates, IdleCall, WritePoints

\* Init establishes the invariant.
LEMMA InitEstablishes == Init => IInv
<1> SUFFICES ASSUME Init PROVE IInv
  OBVIOUS
<1> USE FileAssumption DEF Init
<1>1. TypeOK
  BY DEF TypeOK, CallStates, IdleCall
<1>2. LocksHeld
  BY DEF LocksHeld, IdleCall
<1>3. EmptyIsPending
  BY DEF EmptyIsPending
<1>4. QuietSoFar
  BY DEF QuietSoFar, Reading, IdleCall, At
<1> QED BY <1>1, <1>2, <1>3, <1>4 DEF IInv

\* What the mutexes say: two threads inside are inside different objects.
LEMMA Alone ==
  ASSUME TypeOK, NEW s \in Threads, NEW t \in Threads,
         call[s].pc \in WritePoints \cup Reading, call[t].pc \in WritePoints \cup Reading,
         call[s].p = call[t].p
  PROVE  s = t
BY DEF TypeOK, WritePoints, Reading

\* A write opens the file.
LEMMA WriteOpenStep ==
  ASSUME IInv, NEW t \in Threads, NEW p \in Procs, NEW data \in Contents, WriteOpen(t, p, data)
  PROVE  IInv'
<1> USE FileAssumption
<1>0. \A r \in Threads : call[r] \in CallStates
  BY DEF IInv, TypeOK
<1>1. /\ call'[t] = [pc |-> "lock", p |-> p, data |-> data]
      /\ \A r \in Threads \ {t} :
           call'[r] = IF call[r].pc \in Reading THEN [call[r] EXCEPT !.quiet = FALSE] ELSE call[r]
  BY DEF WriteOpen
<1>2. /\ call'[t] \in CallStates
      /\ call'[t].pc = "lock"
      /\ call'[t].p = p
  BY <1>1 DEF CallStates
<1>3. \A r \in Threads \ {t} :
        /\ call'[r] \in CallStates
        /\ call'[r].pc = call[r].pc
        /\ call'[r].pc \in WritePoints \cup Reading => call'[r].p = call[r].p
        /\ call'[r].pc \in Reading => ~call'[r].quiet
        /\ call[r].pc \notin Reading => call'[r] = call[r]
  <2> TAKE r \in Threads \ {t}
  <2>1. CASE call[r].pc \in Reading
    <3>1. call'[r] = [call[r] EXCEPT !.quiet = FALSE] /\ call[r] \in CallStates
      BY <2>1, <1>0, <1>1
    <3>2. /\ [call[r] EXCEPT !.quiet = FALSE] \in CallStates
          /\ [call[r] EXCEPT !.quiet = FALSE].pc = call[r].pc
          /\ [call[r] EXCEPT !.quiet = FALSE].p = call[r].p
          /\ [call[r] EXCEPT !.quiet = FALSE].quiet = FALSE
      BY <2>1, <3>1, Moved, Zenon
    <3> QED BY <2>1, <3>1, <3>2
  <2>2. CASE call[r].pc \notin Reading
    BY <2>2, <1>0, <1>1
  <2> QED BY <2>1, <2>2
<1>4. DOMAIN call' = Threads /\ call' = [r \in Threads |-> call'[r]]
  BY DEF WriteOpen
<1>5. TypeOK'
  <2>1. call' \in [Threads -> CallStates]
    BY <1>2, <1>3, <1>4
  <2>2. mutex[p] = None /\ mutex' = [mutex EXCEPT ![p] = t]
    BY DEF WriteOpen, Enter
  <2>3. \A r \in Threads : call'[r].pc \notin {"idle", "done"} => mutex'[call'[r].p] = r
    BY <1>0, <1>2, <1>3, <2>2, Shape DEF IInv, TypeOK
  <2> QED BY <2>1, <2>2, <2>3 DEF IInv, TypeOK, WriteOpen
<1>6. LocksHeld'
  BY <1>2, <1>3 DEF IInv, LocksHeld, WriteOpen, WritePoints, Reading
<1>7. EmptyIsPending'
  BY <1>2 DEF EmptyIsPending, WriteOpen
<1>8. QuietSoFar'
  BY <1>2, <1>3 DEF IInv, QuietSoFar, Reading, At
<1> QED BY <1>5, <1>6, <1>7, <1>8 DEF IInv

\* A step of one thread: what the invariant needs to know of it. The others
\* keep their state, so that only t's own clauses have to be shown.
LEMMA OneThread ==
  ASSUME IInv, NEW t \in Threads, NEW c \in CallStates, call' = [call EXCEPT ![t] = c]
  PROVE  /\ call' \in [Threads -> CallStates]
         /\ call'[t] = c
         /\ \A r \in Threads \ {t} : call'[r] = call[r]
         /\ \A r \in Threads : call[r] \in CallStates
BY DEF IInv, TypeOK

\* The steps of write behind the first open.
LEMMA WriteStep ==
  ASSUME IInv, NEW t \in Threads,
         WriteLock(t) \/ WriteTruncate(t) \/ WriteFlush(t)
  PROVE  IInv'
<1> USE FileAssumption
<1> DEFINE pc == IF At(t, "lock") THEN "truncate"
                 ELSE IF At(t, "truncate") THEN "write" ELSE "unlock"
           c == [call[t] EXCEPT !.pc = pc]
<1>1. /\ call[t] \in CallStates
      /\ call[t].pc \in {"lock", "truncate", "write"}
      /\ pc \in {"truncate", "write", "unlock"}
  BY DEF IInv, TypeOK, WriteLock, WriteTruncate, WriteFlush, At
<1>2. c \in CallStates /\ c.pc = pc /\ c.p = call[t].p
  <2>1. call[t].pc \in WritePoints /\ pc \in WritePoints
    BY <1>1 DEF WritePoints
  <2> HIDE DEF pc
  <2> QED BY <1>1, <2>1, Moved, Zenon
<1>3. call' = [call EXCEPT ![t] = c]
  BY DEF IInv, TypeOK, WriteLock, WriteTruncate, WriteFlush, At, Goto
<1>4. /\ call' \in [Threads -> CallStates]
      /\ call'[t] = c
      /\ \A r \in Threads \ {t} : call'[r] = call[r]
      /\ \A r \in Threads : call[r] \in CallStates
  BY <1>2, <1>3, OneThread
<1>5. call[t].p \in Procs /\ call[t].data \in Contents
  BY <1>1, Shape DEF WritePoints
<1> HIDE DEF pc, c
<1>6. TypeOK'
  <2>1. /\ file' \in Contents \cup {Empty}
        /\ writer' \in Procs \cup {None}
        /\ last' \in Contents
        /\ broken' \in BOOLEAN
        /\ UNCHANGED <<readers, mutex>>
    BY <1>5 DEF IInv, TypeOK, WriteLock, WriteTruncate, WriteFlush
  <2>2. \A r \in Threads : call'[r].pc \notin {"idle", "done"} => mutex'[call'[r].p] = r
    BY <1>1, <1>2, <1>4, <2>1 DEF IInv, TypeOK
  <2> QED BY <1>4, <2>1, <2>2 DEF IInv, TypeOK
<1>7. LocksHeld'
  <2>1. CASE WriteLock(t)
    <3>1. writer' = call[t].p /\ readers' = {} /\ readers = {} /\ writer = None
      BY <2>1 DEF WriteLock
    <3>2. \A r \in Threads \ {t} : call[r].pc \notin {"truncate", "write", "unlock"}
      BY <3>1, <1>4, Shape DEF IInv, LocksHeld, WritePoints, Reading
    <3> QED BY <1>1, <1>2, <1>4, <3>1, <3>2 DEF IInv, LocksHeld
  <2>2. CASE WriteTruncate(t) \/ WriteFlush(t)
    BY <1>1, <1>2, <1>4, <2>2 DEF IInv, LocksHeld, WriteTruncate, WriteFlush, At
  <2> QED BY <2>1, <2>2
<1>8. EmptyIsPending'
  <2>1. CASE WriteLock(t) \/ WriteTruncate(t)
    <3>1. pc \in {"truncate", "write"}
      BY <2>1 DEF pc, WriteLock, WriteTruncate, At
    <3>2. call'[t].pc \in {"lock", "truncate", "write"}
      BY <3>1, <1>2, <1>4
    <3> QED BY <2>1, <3>2 DEF IInv, EmptyIsPending, WriteLock, WriteTruncate
  <2>2. CASE WriteFlush(t)
    BY <1>5, <2>2 DEF EmptyIsPending, WriteFlush
  <2> QED BY <2>1, <2>2
<1>9. QuietSoFar'
  <2>1. t \in Writing
    BY <1>1 DEF Writing
  <2> QED BY <1>1, <1>2, <1>4, <2>1 DEF IInv, QuietSoFar, Reading, At
<1> QED BY <1>6, <1>7, <1>8, <1>9 DEF IInv

\* A thread leaves the object, with or without a result: it gives up no lock
\* but its own, and if it had emptied the file and not written it, the file
\* counts as broken.
LEMMA LeaveStep ==
  ASSUME IInv, NEW t \in Threads, call[t].pc \in WritePoints \cup Reading,
         NEW c \in CallStates, c.pc \in {"idle", "done"},
         c.pc = "done" /\ "quiet" \in DOMAIN c /\ c.quiet => c.result \in Contents,
         call' = [call EXCEPT ![t] = c],
         mutex' = [mutex EXCEPT ![call[t].p] = None],
         writer' = writer \/ (writer = call[t].p /\ writer' = None),
         readers' \subseteq readers, readers \subseteq readers' \cup {call[t].p},
         broken' \in BOOLEAN, broken => broken',
         call[t].pc \in {"lock", "truncate", "write"} => broken',
         call[t].pc \in Reading => broken' = broken,
         UNCHANGED <<file, last>>
  PROVE  IInv'
<1> USE FileAssumption
<1>1. /\ call' \in [Threads -> CallStates]
      /\ call'[t] = c
      /\ \A r \in Threads \ {t} : call'[r] = call[r]
      /\ \A r \in Threads : call[r] \in CallStates
  BY OneThread
<1>2. call[t].p \in Procs
  BY <1>1, Shape
<1>3. \A r \in Threads \ {t} :
        call[r].pc \in WritePoints \cup Reading => call[r].p \in Procs /\ call[r].p # call[t].p
  BY <1>1, Shape, Alone DEF IInv
<1>4. TypeOK'
  <2>1. \A r \in Threads : call'[r].pc \notin {"idle", "done"} => mutex'[call'[r].p] = r
    BY <1>1, <1>2, <1>3, Shape DEF IInv, TypeOK
  <2> QED BY <1>1, <1>2, <2>1 DEF IInv, TypeOK
<1>5. LocksHeld'
  BY <1>1, <1>3 DEF IInv, LocksHeld, WritePoints, Reading
<1>6. EmptyIsPending'
  BY <1>1 DEF IInv, EmptyIsPending
<1>7. QuietSoFar'
  <2>1. Writing' = Writing \ {t}
    BY <1>1 DEF Writing
  <2>2. \A r \in Threads \ {t} :
          call[r].pc \in Reading /\ call[r].quiet => Writing' = {} /\ ~broken'
    <3> SUFFICES ASSUME NEW r \in Threads \ {t}, call[r].pc \in Reading, call[r].quiet
                 PROVE  Writing' = {} /\ ~broken'
      OBVIOUS
    <3>1. Writing = {} /\ ~broken
      BY DEF IInv, QuietSoFar
    <3>2. call[t].pc \in Reading
      BY <3>1 DEF Writing, WritePoints
    <3> QED BY <2>1, <3>1, <3>2
  <2>3. At(t, "done")' /\ "quiet" \in DOMAIN call'[t] /\ call'[t].quiet => call'[t].result \in Contents
    BY <1>1 DEF IInv, QuietSoFar, At
  <2> QED BY <1>1, <2>2, <2>3 DEF IInv, QuietSoFar, Reading, At
<1> QED BY <1>4, <1>5, <1>6, <1>7 DEF IInv

\* write returns, or fails.
LEMMA WriteEndStep ==
  ASSUME IInv, NEW t \in Threads, WriteUnlock(t) \/ WriteFails(t)
  PROVE  IInv'
<1> DEFINE c == [pc |-> "done", result |-> IF WriteUnlock(t) THEN "written" ELSE "failed"]
<1>1. /\ c \in CallStates
      /\ c.pc = "done"
      /\ "quiet" \notin DOMAIN c
  BY DEF CallStates
<1>2. call' = [call EXCEPT ![t] = c] /\ mutex' = [mutex EXCEPT ![call[t].p] = None]
  BY DEF WriteUnlock, WriteFails, Return, At
<1>3. call[t].pc \in {"lock", "truncate", "unlock"}
  BY DEF WriteUnlock, WriteFails, At
<1>4. call[t].pc \in {"truncate", "unlock"} => writer = call[t].p
  BY DEF IInv, LocksHeld
<1>5. writer' = writer \/ (writer = call[t].p /\ writer' = None)
  BY <1>3, <1>4 DEF WriteUnlock, WriteFails, At
<1>6. /\ UNCHANGED <<file, readers, last>>
      /\ broken' \in BOOLEAN
      /\ broken => broken'
      /\ call[t].pc \in {"lock", "truncate"} => broken'
  BY DEF WriteUnlock, WriteFails, At, IInv, TypeOK
<1> HIDE DEF c
<1> QED BY <1>1, <1>2, <1>3, <1>5, <1>6, LeaveStep DEF WritePoints, Reading

\* read opens the file.
LEMMA ReadOpenStep ==
  ASSUME IInv, NEW t \in Threads, NEW p \in Procs, ReadOpen(t, p)
  PROVE  IInv'
<1> USE FileAssumption
<1> DEFINE c == [pc |-> "lock_sharable", p |-> p, quiet |-> Writing = {} /\ ~broken]
<1>1. /\ c \in CallStates
      /\ c.pc = "lock_sharable"
      /\ c.p = p
      /\ c.quiet => Writing = {} /\ ~broken
  BY DEF CallStates
<1>2. call' = [call EXCEPT ![t] = c]
  BY DEF ReadOpen
<1>3. /\ mutex[p] = None /\ mutex' = [mutex EXCEPT ![p] = t]
      /\ call[t].pc \in {"idle", "done"}
      /\ UNCHANGED <<file, writer, readers, last, broken>>
  BY DEF ReadOpen, Enter
<1> HIDE DEF c
<1>4. /\ call' \in [Threads -> CallStates]
      /\ call'[t] = c
      /\ \A r \in Threads \ {t} : call'[r] = call[r]
      /\ \A r \in Threads : call[r] \in CallStates
  BY <1>1, <1>2, OneThread
<1>5. Writing' = Writing
  BY <1>1, <1>3, <1>4 DEF Writing
<1>6. TypeOK'
  <2>1. \A r \in Threads : call'[r].pc \notin {"idle", "done"} => mutex'[call'[r].p] = r
    BY <1>1, <1>3, <1>4, Shape DEF IInv, TypeOK
  <2> QED BY <1>3, <1>4, <2>1 DEF IInv, TypeOK
<1>7. LocksHeld'
  BY <1>1, <1>3, <1>4 DEF IInv, LocksHeld
<1>8. EmptyIsPending'
  BY <1>1, <1>3, <1>4 DEF IInv, EmptyIsPending
<1>9. QuietSoFar'
  BY <1>1, <1>3, <1>4, <1>5 DEF IInv, QuietSoFar, At
<1> QED BY <1>6, <1>7, <1>8, <1>9 DEF IInv

\* read goes on to c: it has the lock from "size" on, and what it has read, if
\* nobody has been writing, is what the file has.
LEMMA ReadOnStep ==
  ASSUME IInv, NEW t \in Threads, NEW c \in CallStates,
         call[t].pc \in Reading, c.pc \in {"size", "read", "unlock_sharable"},
         c.p = call[t].p, c.quiet => call[t].quiet,
         c.pc = "read" /\ c.quiet => c.sized \in Contents,
         c.pc = "unlock_sharable" /\ c.quiet => c.result \in Contents,
         call' = [call EXCEPT ![t] = c],
         readers' = readers \cup {call[t].p},
         writer = None \/ call[t].p \in readers,
         UNCHANGED <<file, writer, mutex, last, broken>>
  PROVE  IInv'
<1> USE FileAssumption
<1>1. /\ call' \in [Threads -> CallStates]
      /\ call'[t] = c
      /\ \A r \in Threads \ {t} : call'[r] = call[r]
      /\ \A r \in Threads : call[r] \in CallStates
  BY OneThread
<1>2. call[t].p \in Procs
  BY <1>1, Shape
<1>3. TypeOK'
  <2>1. \A r \in Threads : call'[r].pc \notin {"idle", "done"} => mutex'[call'[r].p] = r
    BY <1>1 DEF IInv, TypeOK, Reading
  <2> QED BY <1>1, <1>2, <2>1 DEF IInv, TypeOK
<1>4. LocksHeld'
  BY <1>1 DEF IInv, LocksHeld
<1>5. EmptyIsPending'
  BY <1>1 DEF IInv, EmptyIsPending, Reading
<1>6. QuietSoFar'
  <2>1. Writing' = Writing
    BY <1>1 DEF Writing, Reading
  <2> QED BY <1>1, <2>1 DEF IInv, QuietSoFar, At
<1> QED BY <1>3, <1>4, <1>5, <1>6 DEF IInv

\* While a read is quiet the file has the last write.
LEMMA QuietFile ==
  ASSUME IInv, NEW t \in Threads, call[t].pc \in Reading, call[t].quiet
  PROVE  file \in Contents
<1>1. Writing = {} /\ ~broken
  BY DEF IInv, QuietSoFar
<1>2. file # Empty
  BY <1>1 DEF IInv, EmptyIsPending, Writing
<1> QED BY <1>2 DEF IInv, TypeOK

\* The steps of a read.
LEMMA ReadStep ==
  ASSUME IInv, NEW t \in Threads, ReadLock(t) \/ ReadSize(t) \/ ReadBytes(t)
  PROVE  IInv'
<1> USE FileAssumption
<1>0. call[t] \in CallStates /\ call[t].pc \in {"lock_sharable", "size", "read"}
  BY DEF IInv, TypeOK, ReadLock, ReadSize, ReadBytes, At
<1>1. /\ call[t].p \in Procs
      /\ call[t].quiet \in BOOLEAN
      /\ call[t].pc = "read" => call[t].sized \in Contents \cup {Empty}
  BY <1>0, Shape DEF Reading
<1>2. CASE ReadLock(t)
  <2> DEFINE c == [call[t] EXCEPT !.pc = "size"]
  <2>1. call[t].pc = "lock_sharable"
    BY <1>2 DEF ReadLock, At
  <2>2. c \in CallStates /\ c.pc = "size" /\ c.p = call[t].p /\ c.quiet = call[t].quiet
    BY <1>0, <2>1, Moved, Zenon
  <2>3. call' = [call EXCEPT ![t] = c]
    BY <1>2 DEF ReadLock, Goto, IInv, TypeOK
  <2>4. writer = None /\ readers' = readers \cup {call[t].p}
        /\ UNCHANGED <<file, writer, mutex, last, broken>>
    BY <1>2 DEF ReadLock
  <2> HIDE DEF c
  <2> QED BY <1>1, <2>1, <2>2, <2>3, <2>4, ReadOnStep DEF Reading
<1>3. CASE ReadSize(t)
  <2> DEFINE c == [pc |-> "read", p |-> call[t].p, sized |-> file, quiet |-> call[t].quiet]
  <2>1. call[t].pc = "size" /\ call[t].p \in readers /\ call[t].pc \in Reading
    BY <1>3 DEF ReadSize, At, IInv, LocksHeld, Reading
  <2>2. c \in CallStates /\ c.pc = "read" /\ c.p = call[t].p /\ c.quiet = call[t].quiet
    BY <1>1 DEF CallStates, IInv, TypeOK
  <2>3. call' = [call EXCEPT ![t] = c]
    BY <1>3 DEF ReadSize, IInv, TypeOK
  <2>4. c.quiet => c.sized \in Contents
    BY <2>1, QuietFile
  <2>5. readers' = readers \cup {call[t].p} /\ UNCHANGED <<file, writer, mutex, last, broken>>
    BY <1>3, <2>1 DEF ReadSize
  <2> HIDE DEF c
  <2> QED BY <2>1, <2>2, <2>3, <2>4, <2>5, ReadOnStep
<1>4. CASE ReadBytes(t)
  <2>1. call[t].pc = "read" /\ call[t].p \in readers /\ call[t].pc \in Reading
    BY <1>4 DEF ReadBytes, At, IInv, LocksHeld, Reading
  <2>2. PICK result \in BufferAfterRead(t) :
          call' = [call EXCEPT ![t] = [pc |-> "unlock_sharable", p |-> @.p, result |-> result,
                                       quiet |-> @.quiet]]
    BY <1>4 DEF ReadBytes
  <2> DEFINE c == [pc |-> "unlock_sharable", p |-> call[t].p, result |-> result,
                   quiet |-> call[t].quiet]
  <2>3. result \in Contents \cup {Empty, Garbage}
    BY DEF BufferAfterRead, IInv, TypeOK
  <2>4. call[t].quiet => result \in Contents
    BY <2>1, QuietFile DEF BufferAfterRead, IInv, QuietSoFar
  <2>5. c \in CallStates /\ c.pc = "unlock_sharable" /\ c.p = call[t].p
        /\ c.quiet = call[t].quiet /\ c.result = result
    BY <1>1, <2>3 DEF CallStates
  <2>6. call' = [call EXCEPT ![t] = c]
    BY <2>2 DEF IInv, TypeOK
  <2>7. readers' = readers \cup {call[t].p} /\ UNCHANGED <<file, writer, mutex, last, broken>>
    BY <1>4, <2>1 DEF ReadBytes
  <2> HIDE DEF c
  <2> QED BY <2>1, <2>4, <2>5, <2>6, <2>7, ReadOnStep
<1> QED BY <1>2, <1>3, <1>4

\* read returns, or fails.
LEMMA ReadEndStep ==
  ASSUME IInv, NEW t \in Threads, ReadUnlock(t) \/ ReadFails(t)
  PROVE  IInv'
<1>0. call[t] \in CallStates /\ call[t].pc \in Reading
  BY DEF IInv, TypeOK, ReadUnlock, ReadFails, At, Reading
<1>1. /\ mutex' = [mutex EXCEPT ![call[t].p] = None]
      /\ readers' \subseteq readers
      /\ readers \subseteq readers' \cup {call[t].p}
      /\ UNCHANGED <<file, writer, last, broken>>
      /\ broken' \in BOOLEAN
  BY DEF ReadUnlock, ReadFails, Return, IInv, TypeOK
<1>2. CASE ReadUnlock(t)
  <2> DEFINE c == [pc |-> "done", result |-> call[t].result, quiet |-> call[t].quiet]
  <2>1. call[t].pc = "unlock_sharable"
    BY <1>2 DEF ReadUnlock, At
  <2>2. c \in CallStates /\ c.pc = "done"
    BY <1>0, <2>1, Shape DEF CallStates, Reading
  <2>3. c.quiet => c.result \in Contents
    BY <2>1 DEF IInv, QuietSoFar
  <2>4. call' = [call EXCEPT ![t] = c]
    BY <1>2 DEF ReadUnlock, IInv, TypeOK
  <2> HIDE DEF c
  <2> QED BY <1>0, <1>1, <2>1, <2>2, <2>3, <2>4, LeaveStep DEF Reading
<1>3. CASE ReadFails(t)
  <2> DEFINE c == [pc |-> "done", result |-> "failed"]
  <2>1. c \in CallStates /\ c.pc = "done" /\ "quiet" \notin DOMAIN c
    BY DEF CallStates
  <2>2. call' = [call EXCEPT ![t] = c]
    BY <1>3 DEF ReadFails, Return
  <2> HIDE DEF c
  <2> QED BY <1>0, <1>1, <2>1, <2>2, LeaveStep DEF Reading
<1> QED BY <1>2, <1>3

\* A process dies in the middle of a call.
LEMMA CrashStep ==
  ASSUME IInv, NEW t \in Threads, Crash(t)
  PROVE  IInv'
<1>1. call[t] \in CallStates /\ call[t].pc \in WritePoints \cup Reading
  BY Shape DEF IInv, TypeOK, Crash
<1>2. IdleCall \in CallStates /\ IdleCall.pc = "idle"
  BY DEF IdleCall, CallStates
<1>3. /\ call' = [call EXCEPT ![t] = IdleCall]
      /\ mutex' = [mutex EXCEPT ![call[t].p] = None]
      /\ writer' = writer \/ (writer = call[t].p /\ writer' = None)
      /\ readers' = readers \ {call[t].p}
      /\ UNCHANGED <<file, last>>
      /\ broken' = (broken \/ t \in Writing)
  BY DEF Crash
<1>4. broken' \in BOOLEAN /\ (broken => broken')
  BY <1>3 DEF IInv, TypeOK
<1>5. call[t].pc \in {"lock", "truncate", "write"} => broken'
  BY <1>3 DEF Writing
<1>6. call[t].pc \in Reading => broken' = broken
  BY <1>3 DEF Writing, Reading, IInv, TypeOK
<1> QED BY <1>1, <1>2, <1>3, <1>4, <1>5, <1>6, LeaveStep

\* The invariant holds in every state.
LEMMA Invariance == SafeSpec => []IInv
<1>1. ASSUME IInv, [Next]_vars PROVE IInv'
  <2>1. CASE UNCHANGED vars
    BY <1>1, <2>1 DEF vars, IInv, TypeOK, LocksHeld, EmptyIsPending, QuietSoFar, Writing, At
  <2>2. CASE Next
    BY <1>1, <2>2, WriteOpenStep, WriteStep, WriteEndStep, ReadOpenStep, ReadStep,
       ReadEndStep, CrashStep
    DEF Next, Steps
  <2> QED BY <1>1, <2>1, <2>2
<1> QED BY <1>1, InitEstablishes, PTL DEF SafeSpec

----------------------------------------------------------------------------

\* Every variable keeps its type, and a thread inside an object is the one the
\* mutex of its process names (the scoped_lock of write and read), also when a
\* call fails half way or a process dies.
THEOREM TypeCorrect == SafeSpec => []TypeOK
<1>1. IInv => TypeOK
  BY DEF IInv
<1> QED BY <1>1, Invariance, PTL

\* However many processes write and read, no two are behind flock.lock(), nor
\* one there while another is behind lock_sharable(): the mutex separates the
\* threads of a process, the lock on the file the processes.
THEOREM Exclusion == SafeSpec => []LockExcludes
<1>1. ASSUME IInv PROVE LockExcludes
  <2> SUFFICES ASSUME NEW s \in Threads, NEW t \in Threads,
                      call[s].pc \in {"truncate", "write", "unlock"}, s # t,
                      call[t].pc \in {"truncate", "write", "unlock", "size", "read",
                                      "unlock_sharable"}
               PROVE  FALSE
    BY DEF LockExcludes
  <2>1. call[s].p \in Procs /\ call[t].p \in Procs
    BY <1>1, Shape DEF IInv, TypeOK, WritePoints, Reading
  <2>2. writer = call[s].p /\ writer # None /\ readers = {}
    BY <1>1, <2>1, FileAssumption DEF IInv, LocksHeld
  <2>3. call[t].p = call[s].p
    BY <1>1, <2>2 DEF IInv, LocksHeld
  <2> QED BY <1>1, <2>3, Alone DEF IInv, WritePoints, Reading
<1> QED BY <1>1, Invariance, PTL

\* When nobody is inside write the file holds what was written last, although
\* opening it for writing empties it outside the lock; it is empty only after a
\* write that failed. A read that no write has overlapped returns a content.
THEOREM LastWriteKept == SafeSpec => []LastWriteSurvives
<1>1. ASSUME IInv PROVE LastWriteSurvives
  BY <1>1 DEF IInv, EmptyIsPending, QuietSoFar, LastWriteSurvives, Writing
<1> QED BY <1>1, Invariance, PTL

================================================================================
