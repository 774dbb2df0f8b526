\* Two processes write and read; calls may fail and processes die.
CONSTANTS
  Procs = {p1, p2}
  Threads = {t1, t2, t3}
  Contents = {d0, d1}
  Initial = d0
  Empty = Empty
  Garbage = Garbage
  None = None
  MayFail = TRUE
SPECIFICATION Spec
INVARIANTS
  TypeOK
  LastWriteSurvives
  LockExcludes
PROPERTY CallsReturn
