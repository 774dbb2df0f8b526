\* Two threads, two generations of models, and the note of the start and one
\* update of it.
CONSTANTS
  Threads = {t1, t2}
  None = None
  MaxModels = 2
  MaxVersion = 1
SYMMETRY ThreadSymmetry
SPECIFICATION Spec
INVARIANTS
  TypeOK
  RequestHasReftimes
  UpdateTakesEffect
  RacesNeedNotes
