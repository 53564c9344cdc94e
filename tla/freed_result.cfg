CONSTANTS
  Modes <- NonBlockingModes
  Servers <- SomeServers
  Events <- SomeEvents
  MaxEvents = 2
  MaxStarts = 1
SPECIFICATION Spec
INVARIANTS
  ResultDone
CHECK_DEADLOCK FALSE
