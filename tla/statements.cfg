SPECIFICATION Spec
CONSTANTS
  MaxResults = 5
  MaxRows = 2
  MaxLosses = 1
INVARIANTS
  ResultListExact
  ResultsFreedOnce
  OwnersApart
  BufferedFetchGivesAll
CHECK_DEADLOCK FALSE
