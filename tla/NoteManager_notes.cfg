\* Forecast requests race with each other and with updates; the file may be
\* missing at the start, and reading and writing it may fail.
CONSTANTS
  Procs = {p1}
  Handlers = {h1}
  Gets = {r1, r2}
  Updates = {u1, u2}
  None = None
  FilesAtStart <- MCAnyFile
  ReadsMayFail = TRUE
  WritesMayFail = TRUE
  MaxSaves = 3
SPECIFICATION Spec
INVARIANTS
  TypeOK
  VersionNamesNote
PROPERTIES
  NoLostUpdate
  HandlersCatchUp
