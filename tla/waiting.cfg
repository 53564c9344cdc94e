CONSTANTS
  SocketType = "tcp"
  NonBlocking = TRUE
  HasTimeout = FALSE
  HasCallback = TRUE
  CallbackErrors = {}
  NAddr = 2
  PacketMod = 4
  SendCap = 2
  HangupAlone = FALSE
  MaxFaults = 2
  CommandChunks = 2
  MaxColumns = 1
  MaxRows = 1
  ServerGoodbye = FALSE
  ApiCalls = {"connect", "query", "noreply", "columns", "row", "free_result", "close"}
  Disciplined = TRUE
  MaxConnects = 2
  MaxCommands = 1
SPECIFICATION WaySpec
INVARIANTS
  WaitsForWhatItNeeds WatchCovers
PROPERTIES
  CallReturns CallCompletes
