CONSTANTS
  SocketType = "tcp"
  NonBlocking = TRUE
  HasTimeout = FALSE
  HasCallback = TRUE
  CallbackErrors = {"PAUSE"}
  NAddr = 2
  PacketMod = 4
  SendCap = 2
  HangupAlone = TRUE
  MaxFaults = 1
  CommandChunks = 1
  MaxColumns = 1
  MaxRows = 1
  ServerGoodbye = FALSE
  ApiCalls = {"query", "noreply", "columns", "skip", "row"}
  Disciplined = FALSE
  MaxConnects = 1
  MaxCommands = 1
SPECIFICATION Spec
INVARIANTS
  WellFormedStack StackInvariant
