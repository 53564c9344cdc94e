--------------------------- MODULE MCDrizzleWaiting ---------------------------
(***************************************************************************)
(* Three ways to wait for the server, one of which is picked at the start: *)
(*   "loop"    a non-blocking connection in an event loop that the         *)
(*             callback instructs, with the constants of waiting.cfg;      *)
(*   "again"   a non-blocking connection whose application calls           *)
(*             drizzle_wait and makes its call again;                      *)
(*   "block"   a blocking connection, over a Unix socket.                  *)
(* The properties are those of DrizzleProperties.                          *)
(***************************************************************************)
EXTENDS DrizzleWaiting

VARIABLE way

(* The connections without an event loop have no mask for it: watch stands *)
(* for all events there.                                                   *)
Again == INSTANCE DrizzleProperties WITH
  SocketType <- "tcp", NonBlocking <- TRUE, HasTimeout <- FALSE,
  HasCallback <- FALSE, CallbackErrors <- {}, NAddr <- 2, PacketMod <- 4,
  SendCap <- 1, HangupAlone <- TRUE, MaxFaults <- 1, CommandChunks <- 2,
  MaxColumns <- 1, MaxRows <- 1, ServerGoodbye <- FALSE, ApiCalls <- ApiCalls,
  Disciplined <- TRUE, MaxConnects <- 2, MaxCommands <- 1, watch <- {}

Inside == INSTANCE DrizzleProperties WITH
  SocketType <- "uds", NonBlocking <- FALSE, HasTimeout <- FALSE,
  HasCallback <- FALSE, CallbackErrors <- {}, NAddr <- 1, PacketMod <- 4,
  SendCap <- 2, HangupAlone <- FALSE, MaxFaults <- 1, CommandChunks <- 1,
  MaxColumns <- 1, MaxRows <- 1, ServerGoodbye <- TRUE,
  ApiCalls <- ApiCalls \cup {"init_db", "quit"},
  Disciplined <- TRUE, MaxConnects <- 1, MaxCommands <- 1, watch <- {}

wayVars == <<way, vars>>
Kept == UNCHANGED way /\ (way # "loop" => UNCHANGED watch)

WayInit ==
  \/ way = "loop" /\ Init
  \/ way \in {"again", "block"} /\ Again!Init /\ watch = {"IN", "OUT"}

WayNext ==
  /\ Kept
  /\ \/ way = "loop"  /\ Next
     \/ way = "again" /\ Again!Next
     \/ way = "block" /\ Inside!Next

----------------------------------------------------------------------------
(* The fairness of DrizzleProperties, for whichever way was picked.        *)

LibraryOf ==
  \/ way = "loop"  /\ LibraryNext
  \/ way = "again" /\ Again!LibraryNext
  \/ way = "block" /\ Inside!LibraryNext

PeerOf ==
  \/ way = "loop"  /\ PeerWorks
  \/ way = "again" /\ Again!PeerWorks
  \/ way = "block" /\ Inside!PeerWorks

CallAgain ==
  \/ way = "loop"  /\ pc = "again" /\ Call
  \/ way = "again" /\ pc = "again" /\ Again!Call

WaySpec ==
  /\ WayInit /\ [][WayNext]_wayVars
  /\ WF_wayVars(Kept /\ LibraryOf) /\ WF_wayVars(Kept /\ PeerOf)
  /\ SF_wayVars(Kept /\ way = "again" /\ Again!AppWait)
  /\ SF_wayVars(Kept /\ way = "loop" /\ AppEventLoop)
  /\ SF_wayVars(Kept /\ CallAgain)
===============================================================================
