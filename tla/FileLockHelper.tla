---------------------------- MODULE FileLockHelper ----------------------------
(***************************************************************************)
(* miutil::FileLockHelper: one file that threads of several processes      *)
(* write and read (a persistent note). Threads of one process are kept     *)
(* apart by the object's mutex, processes by a lock on the file, which is  *)
(* advisory: opening the file for writing empties it whoever has the lock. *)
(* The version built with Boost is modelled, with wait = true, as          *)
(* NoteManager calls it.                                                   *)
(***************************************************************************)
EXTENDS FiniteSets

CONSTANTS
  Procs,     \* processes
  Threads,   \* calls under way at the same time, in any process
  Contents,  \* what may be written
  Initial,   \* what is in the file at the start
  Empty,     \* the empty file
  Garbage,   \* bytes of the buffer that read never filled
  None,      \* nobody
  MayFail    \* calls of the operating system may fail, processes may die

ASSUME FileAssumption ==
  /\ Initial \in Contents
  /\ Empty \notin Contents
  /\ Garbage \notin Contents
  /\ None \notin Procs \cup Threads
  /\ MayFail \in BOOLEAN

VARIABLES
  file,      \* what is in the file
  writer,    \* the process that has the exclusive lock, or None
  readers,   \* the processes that have the shared lock
  mutex,     \* mutex[p]: the thread inside p's object, or None
  call,      \* where each thread is
  last,      \* history: what was written last, or Initial
  broken     \* history: a write has failed since

vars == <<file, writer, readers, mutex, call, last, broken>>

IdleCall == [pc |-> "idle"]

Init ==
  /\ file = Initial
  /\ writer = None
  /\ readers = {}
  /\ mutex = [p \in Procs |-> None]
  /\ call = [t \in Threads |-> IdleCall]
  /\ last = Initial
  /\ broken = FALSE

\* A thread enters the object of its process. Mutant: there is no mutex.
EnterUnlocked(t, p) ==
  /\ call[t].pc \in {"idle", "done"}
  /\ mutex' = [mutex EXCEPT ![p] = t]
Enter(t, p) ==
  /\ call[t].pc \in {"idle", "done"}
  /\ mutex[p] = None
  /\ mutex' = [mutex EXCEPT ![p] = t]

\* It leaves it with a result.
Return(t, result) ==
  /\ call' = [call EXCEPT ![t] = [pc |-> "done", result |-> result]]
  /\ mutex' = [mutex EXCEPT ![call[t].p] = None]

At(t, pc) == call[t].pc = pc
Goto(t, pc) == call' = [call EXCEPT ![t].pc = pc]

Reading == {"lock_sharable", "size", "read", "unlock_sharable"}

----------------------------------------------------------------------------
(* write                                                                   *)

\* fdTmp.open( filename_ ): the file is empty from here on. Reads under way
\* in other processes are not quiet any more.
WriteOpen(t, p, data) ==
  /\ Enter(t, p)
  /\ file' = Empty
  /\ call' = [r \in Threads |->
       CASE r = t -> [pc |-> "lock", p |-> p, data |-> data]
         [] r # t /\ call[r].pc \in Reading -> [call[r] EXCEPT !.quiet = FALSE]
         [] OTHER -> call[r]]
  /\ UNCHANGED <<writer, readers, last, broken>>

\* flock.lock() waits for all other processes. Mutant: for writers only.
WriteLockShared(t) ==
  /\ At(t, "lock")
  /\ writer = None
  /\ writer' = call[t].p
  /\ Goto(t, "truncate")
  /\ UNCHANGED <<file, readers, mutex, last, broken>>
WriteLock(t) ==
  /\ At(t, "lock")
  /\ writer = None
  /\ readers = {}
  /\ writer' = call[t].p
  /\ Goto(t, "truncate")
  /\ UNCHANGED <<file, readers, mutex, last, broken>>

\* The second open truncates again. Failures leave the file empty.
WriteTruncate(t) ==
  /\ At(t, "truncate")
  /\ file' = Empty
  /\ Goto(t, "write")
  /\ UNCHANGED <<writer, readers, mutex, last, broken>>

\* Mutant: the buffer is not flushed.
WriteNothing(t) ==
  /\ At(t, "write")
  /\ last' = call[t].data
  /\ broken' = FALSE
  /\ Goto(t, "unlock")
  /\ UNCHANGED <<file, writer, readers, mutex>>
WriteFlush(t) ==
  /\ At(t, "write")
  /\ file' = call[t].data
  /\ last' = call[t].data
  /\ broken' = FALSE
  /\ Goto(t, "unlock")
  /\ UNCHANGED <<writer, readers, mutex>>

\* Mutant: the lock is kept.
WriteKeepsLock(t) ==
  /\ At(t, "unlock")
  /\ Return(t, "written")
  /\ UNCHANGED <<file, writer, readers, last, broken>>
WriteUnlock(t) ==
  /\ At(t, "unlock")
  /\ writer' = None
  /\ Return(t, "written")
  /\ UNCHANGED <<file, readers, last, broken>>

\* write returns false: open, lock or truncation has failed.
WriteFails(t) ==
  /\ MayFail
  /\ At(t, "lock") \/ At(t, "truncate")
  /\ writer' = IF At(t, "truncate") THEN None ELSE writer
  /\ broken' = TRUE
  /\ Return(t, "failed")
  /\ UNCHANGED <<file, readers, last>>

----------------------------------------------------------------------------
(* read                                                                    *)

Writing == {t \in Threads : call[t].pc \in {"lock", "truncate", "write", "unlock"}}

\* quiet is history: nobody is writing, and the last write has not failed.
ReadOpen(t, p) ==
  /\ Enter(t, p)
  /\ call' = [call EXCEPT ![t] = [pc |-> "lock_sharable", p |-> p,
                                  quiet |-> Writing = {} /\ ~broken]]
  /\ UNCHANGED <<file, writer, readers, last, broken>>

ReadLock(t) ==
  /\ At(t, "lock_sharable")
  /\ writer = None
  /\ readers' = readers \cup {call[t].p}
  /\ Goto(t, "size")
  /\ UNCHANGED <<file, writer, mutex, last, broken>>

\* seekg to the end, tellg: the size of what is there now.
ReadSize(t) ==
  /\ At(t, "size")
  /\ call' = [call EXCEPT ![t] = [pc |-> "read", p |-> @.p, sized |-> file,
                                  quiet |-> @.quiet]]
  /\ UNCHANGED <<file, writer, readers, mutex, last, broken>>

\* The buffer has the size found before; what read does not fill is what the
\* heap had there, and the result is the text up to the first zero byte.
BufferAfterRead(t) ==
  IF call[t].sized = Empty THEN {Empty}
  ELSE IF file = Empty THEN {Empty, Garbage} ELSE {file}

ReadBytes(t) ==
  /\ At(t, "read")
  /\ \E result \in BufferAfterRead(t) :
       call' = [call EXCEPT ![t] = [pc |-> "unlock_sharable", p |-> @.p, result |-> result,
                                    quiet |-> @.quiet]]
  /\ UNCHANGED <<file, writer, readers, mutex, last, broken>>

ReadUnlock(t) ==
  /\ At(t, "unlock_sharable")
  /\ readers' = readers \ {call[t].p}
  /\ call' = [call EXCEPT ![t] = [pc |-> "done", result |-> @.result, quiet |-> @.quiet]]
  /\ mutex' = [mutex EXCEPT ![call[t].p] = None]
  /\ UNCHANGED <<file, writer, last, broken>>

ReadFails(t) ==
  /\ MayFail
  /\ At(t, "lock_sharable") \/ At(t, "size")
  /\ readers' = IF At(t, "size") THEN readers \ {call[t].p} ELSE readers
  /\ Return(t, "failed")
  /\ UNCHANGED <<file, writer, last, broken>>

----------------------------------------------------------------------------
\* A process dies in the middle of a call; the system drops its locks.
Crash(t) ==
  /\ MayFail
  /\ call[t].pc \notin {"idle", "done"}
  /\ writer' = IF writer = call[t].p THEN None ELSE writer
  /\ readers' = readers \ {call[t].p}
  /\ mutex' = [mutex EXCEPT ![call[t].p] = None]
  /\ call' = [call EXCEPT ![t] = IdleCall]
  /\ broken' = (broken \/ t \in Writing)
  /\ UNCHANGED <<file, last>>

Steps(t) ==
  \/ WriteLock(t) \/ WriteTruncate(t) \/ WriteFlush(t) \/ WriteUnlock(t)
  \/ ReadLock(t) \/ ReadSize(t) \/ ReadBytes(t) \/ ReadUnlock(t)

Next ==
  \E t \in Threads :
    \/ \E p \in Procs, data \in Contents : WriteOpen(t, p, data)
    \/ \E p \in Procs : ReadOpen(t, p)
    \/ Steps(t)
    \/ WriteFails(t)
    \/ ReadFails(t)
    \/ Crash(t)

SafeSpec == Init /\ [][Next]_vars

\* The system gives a file lock to every process that keeps asking for it.
Fairness == \A t \in Threads : SF_vars(Steps(t))

Spec == SafeSpec /\ Fairness

----------------------------------------------------------------------------
(* Properties                                                              *)

\* What is known of a call at each point of write and of read.
CallStates ==
  {IdleCall}
  \cup [pc : {"lock", "truncate", "write", "unlock"}, p : Procs, data : Contents]
  \cup [pc : {"lock_sharable", "size"}, p : Procs, quiet : BOOLEAN]
  \cup [pc : {"read"}, p : Procs, sized : Contents \cup {Empty}, quiet : BOOLEAN]
  \cup [pc : {"unlock_sharable"}, p : Procs, result : Contents \cup {Empty, Garbage},
        quiet : BOOLEAN]
  \cup [pc : {"done"}, result : Contents \cup {Empty, Garbage}, quiet : BOOLEAN]
  \cup [pc : {"done"}, result : {"written", "failed"}]

\* The type of every variable; the object of a process has at most one
\* thread inside, the one its mutex names.
TypeOK ==
  /\ file \in Contents \cup {Empty}
  /\ writer \in Procs \cup {None}
  /\ readers \in SUBSET Procs
  /\ mutex \in [Procs -> Threads \cup {None}]
  /\ call \in [Threads -> CallStates]
  /\ last \in Contents
  /\ broken \in BOOLEAN
  /\ \A t \in Threads :
       call[t].pc \notin {"idle", "done"} => mutex[call[t].p] = t

\* When nobody is inside write, the file holds what was written last: no
\* truncation of one process survives the write of another. A write that
\* fails half way leaves it empty, until the next one. And a read that no write
\* overlaps (quiet) returns what was put in the file, whole.
LastWriteSurvives ==
  /\ Writing = {} => file = last \/ (broken /\ file = Empty)
  /\ \A t \in Threads :
       At(t, "done") /\ "quiet" \in DOMAIN call[t] /\ call[t].quiet =>
         call[t].result \in Contents

\* While a process is between its lock and its unlock no other one holds the
\* lock, so a content never mixes two writes.
LockExcludes ==
  \A s, t \in Threads :
    call[s].pc \in {"truncate", "write", "unlock"} /\ s # t =>
      call[t].pc \notin {"truncate", "write", "unlock", "size", "read", "unlock_sharable"}

\* Every call ends, also of a writer that waits for readers of other
\* processes, provided that these leave a gap now and then: a lock of fcntl
\* gives a waiting writer no precedence over new readers.
CallsReturn ==
  []<>(readers = {}) =>
    \A t \in Threads : ~At(t, "done") /\ ~At(t, "idle") ~> At(t, "done") \/ At(t, "idle")

================================================================================
