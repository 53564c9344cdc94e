CONSTANTS
  SocketType = "tcp"
  NonBlocking = FALSE
  HasTimeout = FALSE
  HasCallback = FALSE
  CallbackErrors = {}
  NAddr = 1
  PacketMod = 4
  SendCap = 2
  HangupAlone = FALSE
  MaxFaults = 0
  CommandChunks = 1
  MaxColumns = 1
  MaxRows = 1
  ServerGoodbye = FALSE
  ApiCalls = {"query", "skip", "row"}
  Disciplined = TRUE
  MaxConnects = 1
  MaxCommands = 1
SPECIFICATION Spec
INVARIANTS
  EndOfRows
