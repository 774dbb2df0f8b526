SPECIFICATION Spec
CONSTANTS
  Inputs <- MCInputs
  Hours = 5
  From = 4
  MaxHours = 2
  MaxChanges = 2
INVARIANTS
  TypeOK
  SymbolsFromOneModel
  SymbolsFromTheFirst
  MetaCoversMoments
  MomentsInOrder
  NoDataIsTrue
CHECK_DEADLOCK FALSE
