\* The first update of a fresh installation; forecast requests one at a time.
CONSTANTS
  Procs = {p1}
  Handlers = {h1}
  Gets = {r1}
  Updates = {u1}
  None = None
  FilesAtStart <- MCNoFile
  ReadsMayFail = FALSE
  WritesMayFail = FALSE
  MaxSaves = 2
SPECIFICATION Spec
PROPERTY HandlersFollow
