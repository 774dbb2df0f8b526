\* Two forecast requests deliver two notes to one handler.
CONSTANTS
  Procs = {p1}
  Handlers = {h1}
  Gets = {r1, r2}
  Updates = {u1}
  None = None
  FilesAtStart <- MCFile
  ReadsMayFail = FALSE
  WritesMayFail = FALSE
  MaxSaves = 2
SPECIFICATION Spec
PROPERTY HandlersFollow
