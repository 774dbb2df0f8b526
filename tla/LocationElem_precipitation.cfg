\* Four hours with every kind of rain; periods of one to four hours.
CONSTANTS
  Inputs <- MCInputs
  Hours = 4
  Periods = {1, 2, 3, 4}
  MaxEstimateHours = 3
SPECIFICATION Spec
INVARIANTS
  PartsFitTheWhole
  EstimateIsOrdered
CHECK_DEADLOCK FALSE
