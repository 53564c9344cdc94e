----------------------------- MODULE DrizzleWaiting -----------------------------
(***************************************************************************)
(* Why the library never waits for the wrong event: the invariant that     *)
(* says how the poll masks of the connection, the mask of the event loop   *)
(* around it and what has arrived go together.  DrizzleWaitingProofs       *)
(* proves it, and from it WaitsForWhatItNeeds and WatchCovers.             *)
(***************************************************************************)
EXTENDS DrizzlePackets

(* An event loop is not told of a hang-up without POLLOUT.  If it is,      *)
(* events keeps POLLOUT for the socket of the next address, and the        *)
(* callback is not called for an event that is in events already.          *)
HangupsTold == HasCallback => ~ HangupAlone

(* Only these are ever asked for.  A reported event is no longer wanted,   *)
(* and only drizzle_state_read wants POLLIN.                               *)
EventsPolled ==
  /\ events \subseteq {"IN", "OUT"} /\ watch \subseteq {"IN", "OUT"}
  /\ ~ HasCallback => watch = {}
  /\ ~ ("IN" \in events /\ "IN" \in revents)
  /\ NonBlocking /\ "IN" \in events => Top({"read"})

(* A handler that gives up for now has asked for what it needs, and so has *)
(* the thread that waits in drizzle_wait.  Only a blocking connection      *)
(* waits there, and only a non-blocking one returns to the application.    *)
GaveUp == pc \in {"stop", "leave"} /\ rc = "IO_WAIT"

Awaits ==
  /\ pc = "wait" \/ GaveUp => Need # {} /\ Need \subseteq events
  /\ pc = "wait" => ~ NonBlocking
  /\ GaveUp => NonBlocking \/ inConnect
  /\ pc = "again" => NonBlocking

(* A socket that was not connected is given up before it is used, and a    *)
(* connect() that is waited for has a socket.                              *)
FailedApart ==
  /\ sock = "failed" => Closing \/ Top({"connect", "connecting"})
  /\ stack = <<>> => sock \in {"invalid", "connected"}
  /\ Top({"connecting"}) => sock # "invalid"

(* The server takes all of a command before it answers: there is room to   *)
(* write as long as there is something to read.                            *)
Uncrossed ==
  /\ s2c # <<>> /\ ~ HungUp /\ ~ Closing => c2s = <<>>
  /\ Top({"addrinfo", "connect"}) /\ ~ Closing => c2s = <<>>

(* With an event loop: it watches all that is wanted and not yet reported. *)
(* Nothing is when a connection is begun; and POLLIN, left in the loop's   *)
(* mask after it was reported, goes when POLLOUT is asked for.             *)
LoopTold ==
  NonBlocking /\ HasCallback =>
    /\ events \subseteq watch
    /\ stack = <<>> /\ sock = "invalid" => events = {}
    /\ Top({"addrinfo", "connect"}) /\ (~ Closing \/ sock = "invalid") => events = {}
    /\ Top({"connecting"}) =>
         watch \subseteq {"OUT"} /\ revents \subseteq {"OUT", "ERR"}
         /\ (revents # {} => events = {})
    /\ "OUT" \in events /\ "IN" \in watch => "IN" \in events

(* Between two calls, what the handler on top needs is wanted still; or it *)
(* was reported, nothing else is wanted, and whatever the event loop may   *)
(* report again has it, too.                                               *)
AgainCovered ==
  pc = "again" /\ sock # "invalid" =>
    /\ stack # <<>> /\ Need # {}
    /\ \/ Need \subseteq events
       \/ /\ Need \subseteq revents /\ events = {}
          /\ Need = {"IN"} => Readable /\ (watch # {} => "IN" \in watch)
          /\ Need = {"OUT"} => watch \subseteq {"OUT"}

(* With StackInvariant, SessionInvariant and PacketInvariant it is         *)
(* preserved by every step.                                                *)
WaitInvariant ==
  /\ EventsPolled /\ Awaits /\ FailedApart /\ Uncrossed
  /\ LoopTold /\ AgainCovered
=============================================================================
