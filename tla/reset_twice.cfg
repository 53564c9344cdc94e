SPECIFICATION Spec
CONSTANTS
  MaxResults = 3
  MaxRows = 2
  MaxLosses = 1
INVARIANTS
  ParamsFreedOnce
CHECK_DEADLOCK FALSE
