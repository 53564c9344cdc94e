CONSTANTS
  SocketType = "tcp"
  NonBlocking = FALSE
  HasTimeout = TRUE
  HasCallback = FALSE
  CallbackErrors = {}
  NAddr = 2
  PacketMod = 4
  SendCap = 2
  HangupAlone = TRUE
  MaxFaults = 2
  CommandChunks = 2
  MaxColumns = 2
  MaxRows = 2
  ServerGoodbye = FALSE
  ApiCalls = {"connect", "query", "init_db", "noreply", "quit", "columns", "row", "free_result", "close"}
  Disciplined = TRUE
  MaxConnects = 2
  MaxCommands = 2
SPECIFICATION Spec
INVARIANTS
  AddressInStep ReadyWhenConnected FailureResets HeaderAtHand PacketAtHand DoneMeansDrained CommandStream ResultLive
PROPERTY FreshConnection
