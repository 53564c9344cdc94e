------------------------------ MODULE DrizzleIO ------------------------------
(***************************************************************************)
(* The handlers that talk to the kernel (drizzle_state_addrinfo, _connect, *)
(* _connecting, _read, _write), the one that frames packets                *)
(* (drizzle_state_packet_read), and drizzle_wait, the poll() around them.  *)
(*                                                                         *)
(* The stream is cut into units: a packet is a header unit (size and       *)
(* sequence number) and a body unit.  recv() returns any non-empty prefix  *)
(* of what has arrived and send() takes any non-empty prefix of the        *)
(* buffer, so a packet may be split, and packets may be glued, anywhere a  *)
(* handler can tell the difference.  EINTR from recv, send and poll is     *)
(* retried by the code with nothing changed and has no step of its own.    *)
(***************************************************************************)
EXTENDS DrizzleState

CONSTANTS
  SendCap,        \* units the kernel holds towards the server
  HangupAlone,    \* poll() may report POLLERR/POLLHUP without POLLOUT
  MaxFaults       \* bound: failing system calls and server hang-ups

ASSUME IOAssumption ==
  /\ SendCap \in Nat \ {0}
  /\ HangupAlone \in BOOLEAN
  /\ MaxFaults \in Nat

(* A failure of the environment, drawn from the budget.                    *)
Fault == faults < MaxFaults /\ faults' = faults + 1
NoFault == UNCHANGED faults

NextAddr(a) == IF a = NAddr THEN 0 ELSE a + 1      \* ai_next

(* What the handlers below never touch.                                    *)
Others == UNCHANGED <<cmdVars, callVars, appVars>>

(* The server has hung up: after authenticating the client, or before.     *)
HungUp == server \in {"closed", "refused"}

(* The other socket of an attempt: the old one is closed, with everything  *)
(* in flight on it and the event loop's registration of it.                *)
NewSocket(state, srv) ==
  /\ sock' = state /\ server' = srv
  /\ watch' = {} /\ s2c' = <<>> /\ c2s' = <<>>

----------------------------------------------------------------------------
drizzle_state_addrinfo ==
  /\ Running("addrinfo")
  /\ \/ /\ SocketType = "tcp"
        /\ addrinfo_next' = 1
        /\ Pop /\ Continue /\ NoFault
     \/ /\ SocketType = "tcp" /\ Fault
        /\ Return("GETADDRINFO")
        /\ UNCHANGED <<stack, addrinfo_next>>
     \/ /\ SocketType = "uds"
        /\ Pop /\ Continue /\ NoFault
        /\ UNCHANGED addrinfo_next
  /\ UNCHANGED <<ioVars, conVars, pollVars, dataVars, connects>> /\ Others

(* The UDS branch: connect() blocks.  EINPROGRESS, EALREADY and EINTR      *)
(* `continue' a do-while(0) loop, that is, leave it as success does.       *)
ConnectUds ==
  /\ SocketType = "uds"
  /\ \/ NewSocket("connected", "greet") /\ Pop /\ Continue /\ NoFault
     \/ NewSocket("open", "none") /\ Pop /\ Continue /\ Fault
     \/ /\ \E s \in {"invalid", "open"} : NewSocket(s, "none")
        /\ Return("COULD_NOT_CONNECT") /\ Fault
        /\ UNCHANGED stack
  /\ UNCHANGED <<addrinfo_next, conVars, pollVars, buf>>

NoAddressLeft ==
  /\ SocketType = "tcp" /\ addrinfo_next = 0
  /\ NewSocket("invalid", "none")
  /\ stack' = <<>>
  /\ Return("COULD_NOT_CONNECT") /\ NoFault
  /\ UNCHANGED <<addrinfo_next, conVars, pollVars, buf>>

(* _setsockopt: one of its system calls fails.                             *)
SetSockOptFails == NewSocket("open", "none") /\ UNCHANGED revents

(* A failure that is not about this address.                               *)
ConnectFails ==
  /\ SocketType = "tcp" /\ addrinfo_next # 0
  /\ \/ NewSocket("invalid", "none") /\ UNCHANGED revents    \* socket()
     \/ SetSockOptFails
     \/ NewSocket("open", "none") /\ revents' = {}           \* connect()
  /\ Return("COULD_NOT_CONNECT") /\ Fault
  /\ UNCHANGED <<stack, addrinfo_next, conVars, events, buf>>

(* Mutant of ConnectAtOnce: the list of addresses is kept.                 *)
ConnectAtOnceKeepsList ==
  /\ SocketType = "tcp" /\ addrinfo_next # 0
  /\ NewSocket("connected", "greet")
  /\ revents' = {"OUT"}
  /\ Pop /\ Continue /\ NoFault
  /\ UNCHANGED <<addrinfo_next, conVars, events, buf>>

ConnectAtOnce ==
  /\ SocketType = "tcp" /\ addrinfo_next # 0
  /\ NewSocket("connected", "greet")
  /\ revents' = {"OUT"}
  /\ addrinfo_next' = 0
  /\ Pop /\ Continue /\ NoFault
  /\ UNCHANGED <<conVars, events, buf>>

ConnectRefused ==
  /\ SocketType = "tcp" /\ addrinfo_next # 0
  /\ NewSocket("open", "none")
  /\ revents' = {}
  /\ addrinfo_next' = NextAddr(addrinfo_next)
  /\ Continue /\ Fault
  /\ UNCHANGED <<stack, conVars, events, buf>>

(* EINPROGRESS.  What drizzle_set_events returns is ignored: when the      *)
(* callback refuses, drizzle_close has emptied the stack and invalidated   *)
(* the fd, and drizzle_state_connecting is pushed all the same.            *)
ConnectInProgress ==
  /\ SocketType = "tcp" /\ addrinfo_next # 0
  /\ s2c' = <<>> /\ c2s' = <<>> /\ server' = "none" /\ revents' = {}
  /\ \/ /\ events' = events \cup {"OUT"}
        /\ watch' = IF HasCallback /\ "OUT" \notin events
                    THEN events \cup {"OUT"} ELSE {}
        /\ sock' = "pending"
        /\ Replace(<<"connecting">>)
        /\ UNCHANGED <<conVars, buf>>
     \/ /\ HasCallback /\ "OUT" \notin events /\ CallbackErrors # {}
        /\ sock' = "invalid" /\ watch' = {} /\ Reset
        /\ stack' = <<"connecting">>
  /\ Continue /\ NoFault
  /\ UNCHANGED addrinfo_next

drizzle_state_connect ==
  /\ Running("connect")
  /\ \/ ConnectUds
     \/ NoAddressLeft
     \/ ConnectFails
     \/ ConnectAtOnce
     \/ ConnectRefused
     \/ ConnectInProgress
  /\ UNCHANGED <<packet_size, connects>> /\ Others

(* connect_failed_try_next *)
TryNextAddress ==
  /\ addrinfo_next' = NextAddr(addrinfo_next)
  /\ Replace(<<"connect">>)
  /\ Continue

drizzle_state_connecting ==
  /\ Running("connecting")
  /\ \/ /\ revents \cap {"OUT", "ERR"} # {}
        /\ \/ /\ IF sock = "invalid" THEN NoFault ELSE Fault
              /\ Pop /\ Return("INTERNAL_ERROR")         \* getsockopt fails
              /\ UNCHANGED addrinfo_next
           \/ /\ sock \notin {"invalid", "failed"} /\ "OUT" \in revents
              /\ addrinfo_next' = 0
              /\ Pop /\ Continue /\ NoFault
           \/ /\ sock # "invalid"
              /\ sock = "failed" \/ "OUT" \notin revents
              /\ TryNextAddress /\ NoFault
        /\ UNCHANGED <<ioVars, conVars, pollVars, buf>>
     \/ /\ revents \cap {"OUT", "ERR"} = {} /\ "NVAL" \in revents
        /\ revents' = {}
        /\ TryNextAddress /\ NoFault
        /\ UNCHANGED <<ioVars, conVars, events, buf>>
     \/ /\ revents \cap {"OUT", "ERR", "NVAL"} = {}
        /\ WaitFor({"OUT"}, {}, Yield)
        /\ NoFault /\ UNCHANGED addrinfo_next
  /\ UNCHANGED <<packet_size, connects>> /\ Others

----------------------------------------------------------------------------
(* drizzle_state_read.                                                     *)

Lost == {"LOST_CONNECTION", "ERRNO"}

(* Mutant of ReadWaitsForPoll: drizzle_set_events is not called.           *)
ReadYields ==
  /\ NonBlocking /\ "IN" \notin revents
  /\ Yield
  /\ NoFault /\ UNCHANGED <<stack, addrinfo_next, ioVars, conVars, pollVars, buf>>

ReadWaitsForPoll ==            \* non-blocking: no recv() before POLLIN
  /\ NonBlocking /\ "IN" \notin revents
  /\ WaitFor({"IN"}, revents, Yield)
  /\ NoFault /\ UNCHANGED addrinfo_next

(* POLLIN is kept in revents only when recv() filled the buffer.           *)
ReadSome ==
  /\ sock = "connected"
  /\ \E n \in 1..Len(s2c) :
       /\ buf' = buf \o SubSeq(s2c, 1, n)
       /\ s2c' = SubSeq(s2c, n + 1, Len(s2c))
  /\ revents' \in {revents, revents \ {"IN"}}
  /\ Pop /\ Continue /\ NoFault
  /\ UNCHANGED <<addrinfo_next, sock, watch, c2s, server, conVars, events>>

ReadWouldBlock ==
  /\ SocketType = "tcp" /\ sock = "connected"
  /\ s2c = <<>> /\ ~ HungUp
  /\ WaitFor({"IN"}, revents \ {"IN"}, Block)
  /\ NoFault /\ UNCHANGED addrinfo_next

(* ECONNREFUSED: back to drizzle_state_connect, if an address is left.     *)
ReadRefused ==
  /\ sock = "connected" /\ Fault
  /\ revents' = {}
  /\ Replace(<<"connect">>)
  /\ IF addrinfo_next = 0
     THEN Return("COULD_NOT_CONNECT") /\ UNCHANGED addrinfo_next
     ELSE Continue /\ addrinfo_next' = NextAddr(addrinfo_next)
  /\ UNCHANGED <<ioVars, conVars, events, buf>>

(* Mutant of ReadFails: the end of the file passes for data of no length.  *)
ReadFailsNotAtEnd ==
  /\ \/ /\ sock = "connected" /\ s2c = <<>> /\ HungUp
        /\ Pop /\ Continue /\ NoFault
     \/ /\ \/ sock # "connected" /\ Return("ERRNO") /\ NoFault
           \/ Fault /\ \E code \in Lost : Return(code)
        /\ UNCHANGED stack
  /\ UNCHANGED <<addrinfo_next, ioVars, conVars, pollVars, buf>>

(* End of file, an error of recv(), or of the growth of the buffer.        *)
ReadFails ==
  /\ \/ /\ sock = "connected" /\ s2c = <<>> /\ HungUp
        /\ Return("LOST_CONNECTION") /\ NoFault
     \/ sock # "connected" /\ Return("ERRNO") /\ NoFault
     \/ Fault /\ \E code \in Lost \cup {"INTERNAL_ERROR", "MEMORY"} : Return(code)
  /\ UNCHANGED <<stack, addrinfo_next, ioVars, conVars, pollVars, buf>>

drizzle_state_read ==
  /\ Running("read")
  /\ \/ ReadWaitsForPoll
     \/ /\ ~ NonBlocking \/ "IN" \in revents
        /\ ReadSome \/ ReadWouldBlock \/ ReadRefused \/ ReadFails
  /\ UNCHANGED <<packet_size, connects>> /\ Others

----------------------------------------------------------------------------
(* drizzle_state_write: send until the buffer is empty.                    *)

Sent(n) == /\ buf' = SubSeq(buf, n + 1, Len(buf))
           /\ IF n = Len(buf) THEN Pop ELSE UNCHANGED stack

WriteSome ==
  /\ sock = "connected"
  /\ \E n \in 1..Len(buf) :
       /\ Sent(n)
       /\ \/ /\ ~ HungUp /\ Len(c2s) + n <= SendCap
             /\ c2s' = c2s \o SubSeq(buf, 1, n)
          \/ HungUp /\ UNCHANGED c2s      \* taken, never read
  /\ Continue /\ NoFault
  /\ UNCHANGED <<sock, watch, s2c, server, conVars, pollVars>>

WriteWouldBlock ==
  /\ SocketType = "tcp" /\ sock = "connected"
  /\ ~ HungUp /\ Len(c2s) = SendCap
  /\ WaitFor({"OUT"}, revents, Block)
  /\ NoFault

WriteFails ==
  /\ \/ (sock # "connected" \/ HungUp) /\ NoFault
     \/ Fault
  /\ \E code \in Lost : Return(code)
  /\ UNCHANGED <<stack, ioVars, conVars, pollVars, buf>>

drizzle_state_write ==
  /\ Running("write")
  /\ \/ /\ buf = <<>>
        /\ Pop /\ Continue /\ NoFault
        /\ UNCHANGED <<ioVars, conVars, pollVars, buf>>
     \/ buf # <<>> /\ (WriteSome \/ WriteWouldBlock \/ WriteFails)
  /\ UNCHANGED <<addrinfo_next, packet_size, connects>> /\ Others

----------------------------------------------------------------------------
(* drizzle_state_packet_read: asks for more until the whole packet is in   *)
(* the buffer, checks its number, and consumes the header.                 *)

(* Mutant of drizzle_state_packet_read: waits for the header only.         *)
PacketReadOfHeader ==
  /\ Running("packet_read")
  /\ IF buf = <<>>
     THEN Push(<<"read">>) /\ UNCHANGED <<packet_number, dataVars>>
     ELSE /\ packet_size' = 1
          /\ packet_number' = (packet_number + 1) % PacketMod
          /\ buf' = Tail(buf) /\ Pop
  /\ Continue
  /\ UNCHANGED <<ready, ioVars, pollVars, addrinfo_next, budgetVars>>
  /\ Others

drizzle_state_packet_read ==
  /\ Running("packet_read")
  /\ IF Len(buf) < 2
     THEN /\ Push(<<"read">>) /\ Continue
          /\ UNCHANGED <<packet_number, dataVars>>
     ELSE /\ packet_size' = 1
          /\ IF Head(buf).seq # packet_number
             THEN /\ Return("BAD_PACKET_NUMBER")
                  /\ UNCHANGED <<stack, packet_number, buf>>
             ELSE /\ packet_number' = (packet_number + 1) % PacketMod
                  /\ buf' = Tail(buf)
                  /\ Pop /\ Continue
  /\ UNCHANGED <<ready, ioVars, pollVars, addrinfo_next, budgetVars>>
  /\ Others

----------------------------------------------------------------------------
(* drizzle_wait and drizzle_set_revents.                                   *)

(* What poll() reports of the socket; ERR is reported unasked.             *)
Readable == sock = "connected" /\ (s2c # <<>> \/ HungUp)
Writable == sock = "connected" /\ (Len(c2s) < SendCap \/ HungUp)

Reported(mask) ==
  CASE sock = "failed"    -> {(mask \cap {"IN", "OUT"}) \cup {"ERR"}}
                             \cup (IF HangupAlone THEN {{"ERR"}} ELSE {})
    [] sock = "connected" -> {(IF Readable THEN mask \cap {"IN"} ELSE {})
                              \cup (IF Writable THEN mask \cap {"OUT"} ELSE {})} \ {{}}
    [] OTHER              -> {}

(* drizzle_set_revents when the callback accepts, or is not called: it is  *)
(* called when POLLOUT was reported without being wanted.  w is what the   *)
(* caller's event loop goes on watching.                                   *)
UnwantedOut(r) == HasCallback /\ "OUT" \in r /\ "OUT" \notin events

(* Mutant of SetRevents: a reported event is still taken for a wanted one. *)
SetReventsOnly(r, w) ==
  /\ revents' = r
  /\ watch' = IF UnwantedOut(r) THEN events ELSE w
  /\ UNCHANGED <<stack, sock, s2c, c2s, server, conVars, buf, events>>

SetRevents(r, w) ==
  /\ revents' = r
  /\ events' = events \ r
  /\ watch' = IF UnwantedOut(r) THEN events ELSE w
  /\ UNCHANGED <<stack, sock, s2c, c2s, server, conVars, buf>>

(* The library's own call of drizzle_wait (blocking mode): on success the  *)
(* loop around the system call, or drizzle_connect, runs the handler again;*)
(* a failure is the return code of the handler that waits in the middle of *)
(* its work, and of drizzle_connect for drizzle_state_connecting.          *)
WaitFails(code) ==
  /\ IF Head(stack) = "connecting" THEN pc' = "leave" ELSE pc' = "stop"
  /\ rc' = code
  /\ UNCHANGED <<stack, ioVars, conVars, pollVars, buf>>

drizzle_wait ==
  /\ pc = "wait"
  /\ \/ /\ events = {}
        /\ WaitFails("NO_ACTIVE_CONNECTIONS") /\ NoFault
     \/ /\ events # {}
        /\ \/ /\ \E r \in Reported(events) : SetRevents(r, watch)
              /\ pc' = "loop" /\ UNCHANGED rc /\ NoFault
           \/ /\ HasTimeout /\ Reported(events) = {}
              /\ WaitFails("TIMEOUT") /\ NoFault
           \/ WaitFails("ERRNO") /\ Fault
  /\ UNCHANGED <<addrinfo_next, packet_size, connects>> /\ Others
=============================================================================
