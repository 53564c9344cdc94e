CONSTANTS
  Modes <- AllModes
  Servers <- SomeServers
  Events <- SomeEvents
  MaxEvents = 5
  MaxStarts = 2
SPECIFICATION Spec
INVARIANTS
  DeliveredAsSent ErrorsComeLast ResultLive OneAtATime
CHECK_DEADLOCK FALSE
