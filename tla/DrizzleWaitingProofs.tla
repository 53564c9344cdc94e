-------------------------- MODULE DrizzleWaitingProofs --------------------------
(***************************************************************************)
(* Proofs that WaitInvariant is inductive with the invariants before it in *)
(* an orderly use of the connection, and of what follows from it: whoever  *)
(* waits, waits for an event that the handler on top needs, and an event   *)
(* loop watches all that the library wants.                                *)
(***************************************************************************)
EXTENDS DrizzlePacketProofs, DrizzleWaiting

----------------------------------------------------------------------------
(* The socket and what is in flight on it.                                 *)

(* drizzle_close leaves nothing in flight, on no socket.                   *)
LEMMA CloseEmpties ==
  ASSUME Sound, drizzle_close
  PROVE  /\ sock' = "invalid" /\ s2c' = <<>> /\ c2s' = <<>>
         /\ stack' = <<>> \/ (sock = "invalid" /\ stack' = stack)
<1>1. sock # "connected" => c2s = <<>>
  BY DEF Sound, PacketInvariant, CallsMatch
<1>2. sock' = "invalid" /\ s2c' = <<>>
  BY CloseCleans DEF Sound, SessionInvariant
<1>3. c2s' = <<>>
  BY <1>1 DEF drizzle_close, Hangup, ioVars
<1>4. stack' = <<>> \/ (sock = "invalid" /\ stack' = stack)
  BY DEF drizzle_close
<1> QED BY <1>2, <1>3, <1>4

(* A step that moves nothing on the socket.                                *)
LEMMA StaysUncrossed ==
  ASSUME Uncrossed, UNCHANGED <<s2c, c2s, server>>, Closing => Closing',
         Top({"addrinfo", "connect"})' /\ ~ Closing'
           => c2s = <<>> \/ (Top({"addrinfo", "connect"}) /\ ~ Closing)
  PROVE  Uncrossed'
BY DEF Uncrossed, HungUp

LEMMA StaysApart ==
  ASSUME FailedApart, UNCHANGED <<sock, stack>>, Closing => Closing'
  PROVE  FailedApart'
BY DEF FailedApart, Top

(* The end of a socket.                                                    *)
LEMMA CloseApart ==
  ASSUME Sound, FailedApart, drizzle_close
  PROVE  FailedApart' /\ Uncrossed'
<1>1. FailedApart'
  BY CloseEmpties DEF FailedApart, Top
<1> QED BY <1>1, CloseEmpties DEF Uncrossed

Crossing == FailedApart /\ Uncrossed

(* A handler that waits.                                                   *)
LEMMA WaitCrossing ==
  ASSUME Sound, Crossing, pc = "loop", NEW ev, NEW rev,
         WaitFor(ev, rev, Yield) \/ WaitFor(ev, rev, Block)
  PROVE  Crossing'
<1>1. CASE drizzle_close
  BY <1>1, CloseApart DEF Crossing
<1>2. CASE UNCHANGED <<stack, sock, s2c, c2s, server>>
  <2>1. ~ Closing
    BY DEF Closing
  <2> QED BY <1>2, <2>1, StaysUncrossed, StaysApart DEF Crossing, Top
<1> QED BY <1>1, <1>2 DEF WaitFor

(* The three handlers that connect.                                        *)
LEMMA AddrinfoCrossing ==
  ASSUME Sound, Crossing, drizzle_state_addrinfo
  PROVE  Crossing'
<1>1. /\ pc = "loop" /\ stack \in StackStates /\ stack # <<>> /\ Head(stack) = "addrinfo"
  BY DEF drizzle_state_addrinfo, Running, Sound, StackInvariant, WellFormedStack
<1>2. stack = <<"addrinfo", "connect", "packet_read", "handshake_server_read">>
  BY <1>1, Shapes
<1>3. Tail(stack) # <<>> /\ Head(Tail(stack)) = "connect"
  BY <1>2
<1>4. stack' \in {stack, Tail(stack)} /\ UNCHANGED <<sock, s2c, c2s, server>>
  BY DEF drizzle_state_addrinfo, Pop, ioVars
<1>5. Top({"addrinfo", "connect"}) /\ ~ Closing
  BY <1>1 DEF Top, Closing
<1>6. Uncrossed'
  BY <1>4, <1>5, StaysUncrossed DEF Crossing
<1>7. FailedApart'
  <2>1. sock # "failed"
    BY <1>1 DEF Crossing, FailedApart, Top, Closing
  <2>2. stack' # <<>> /\ ~ Top({"connecting"})'
    BY <1>1, <1>3, <1>4 DEF Top
  <2> QED BY <1>4, <2>1, <2>2 DEF FailedApart
<1> QED BY <1>6, <1>7 DEF Crossing

LEMMA ConnectCrossing ==
  ASSUME CallbackAccepts, Sound, Crossing, drizzle_state_connect
  PROVE  Crossing'
<1>1. s2c' = <<>>
  BY ConnectEffect DEF Sound
<1>2. c2s' = <<>>
  BY DEF drizzle_state_connect, ConnectUds, NoAddressLeft, ConnectFails,
     SetSockOptFails, ConnectAtOnce, ConnectRefused, ConnectInProgress, NewSocket
<1>3. sock' # "failed"
  BY DEF drizzle_state_connect, ConnectUds, NoAddressLeft, ConnectFails,
     SetSockOptFails, ConnectAtOnce, ConnectRefused, ConnectInProgress, NewSocket
<1>4. stack = <<"connect", "packet_read", "handshake_server_read">>
  BY ConnectEffect DEF Sound
<1>5. Tail(stack) = <<"packet_read", "handshake_server_read">> /\ Tail(stack) # <<>>
      /\ Head(Tail(stack)) = "packet_read" /\ stack # <<>> /\ Head(stack) = "connect"
  BY <1>4
<1>6. stack' = <<>> => sock' = "invalid"
  <2>1. <<"connecting">> \o Tail(stack) # <<>>
    <3>1. Tail(stack) \in Seq(Handlers) /\ "connecting" \in Handlers
      BY <1>5 DEF Handlers, Sound, StackInvariant, TypeOK
    <3> QED BY <3>1, Extend
  <2> QED BY <1>5, <2>1
    DEF drizzle_state_connect, ConnectUds, NoAddressLeft, ConnectFails, ConnectAtOnce,
        ConnectRefused, ConnectInProgress, NewSocket, Pop, Replace
<1>7. Top({"connecting"})' => sock' # "invalid"
  <2>1. CASE ConnectInProgress
    BY <2>1, ConfigAssumption DEF ConnectInProgress, CallbackAccepts
  <2>2. CASE ~ ConnectInProgress
    <3>1. stack' \in {stack, Tail(stack), <<>>}
      BY <2>2 DEF drizzle_state_connect, ConnectUds, NoAddressLeft, ConnectFails,
         ConnectAtOnce, ConnectRefused, Pop
    <3> QED BY <1>5, <3>1 DEF Top
  <2> QED BY <2>1, <2>2
<1> QED BY <1>1, <1>2, <1>3, <1>6, <1>7 DEF Crossing, FailedApart, Uncrossed

LEMMA ConnectingCrossing ==
  ASSUME Sound, Crossing, drizzle_state_connecting
  PROVE  Crossing'
<1>1. /\ pc = "loop" /\ stack \in StackStates /\ stack # <<>> /\ Head(stack) = "connecting"
      /\ ~ Closing
  BY DEF drizzle_state_connecting, Running, Sound, StackInvariant, WellFormedStack, Closing
<1>2. stack = <<"connecting", "packet_read", "handshake_server_read">>
  <2>1. stack \notin {<<"connecting">>}
    BY DEF Sound, SessionInvariant, StackTellsReady
  <2> QED BY <1>1, <2>1, Shapes
<1>3. /\ Tail(stack) = <<"packet_read", "handshake_server_read">>
      /\ Tail(stack) # <<>> /\ Head(Tail(stack)) = "packet_read"
      /\ Tail(stack) \in Seq(Handlers) /\ "connect" \in Handlers
  BY <1>2 DEF Handlers, Sound, StackInvariant, TypeOK
<1>4. <<"connect">> \o Tail(stack) # <<>> /\ Head(<<"connect">> \o Tail(stack)) = "connect"
  BY <1>3, Extend
<1>5. c2s = <<>>
  <2>1. sock = "connected" => ~ ready
    BY <1>1 DEF Sound, SessionInvariant, CleanApart, Top, Clean
  <2> QED BY <1>1, <1>2, <2>1 DEF Sound, PacketInvariant, CallsMatch, HandshakeInOrder
<1>6. CASE WaitFor({"OUT"}, {}, Yield)
  BY <1>1, <1>6, WaitCrossing
<1>7. ASSUME UNCHANGED ioVars,
             \/ stack' = Tail(stack) /\ (sock = "failed" => Closing')
             \/ stack' = <<"connect">> \o Tail(stack) /\ pc' = "loop"
      PROVE  Crossing'
  <2>1. Uncrossed'
    BY <1>1, <1>5, <1>7, StaysUncrossed DEF Crossing, ioVars
  <2>2. FailedApart'
    BY <1>3, <1>4, <1>7 DEF FailedApart, ioVars, Top
  <2> QED BY <2>1, <2>2 DEF Crossing
<1>8. TryNextAddress => stack' = <<"connect">> \o Tail(stack) /\ pc' = "loop"
  BY <1>1 DEF TryNextAddress, Replace, Continue
<1>9. Return("INTERNAL_ERROR") => Closing'
  BY DEF Return, Closing, Resumable
<1> QED BY <1>6, <1>7, <1>8, <1>9 DEF drizzle_state_connecting, Pop

(* drizzle_state_read: on its way up the stack, or back to                 *)
(* drizzle_state_connect on a connection about to be closed.               *)
LEMMA ReadRefusedCloses ==
  ASSUME Sound, pc = "loop", Top({"read"}), ReadRefused
  PROVE  Closing' /\ stack' # <<>> /\ Top({"connect"})'
<1>1. addrinfo_next = 0
  BY DEF Sound, StackInvariant, AddressKept, ReadRefused, Top, Resumable
<1>2. Closing'
  BY <1>1 DEF ReadRefused, Return, Closing, Resumable
<1>3. Tail(stack) \in Seq(Handlers) /\ "connect" \in Handlers
  BY DEF Sound, StackInvariant, TypeOK, Top, Handlers
<1>4. stack' = <<"connect">> \o Tail(stack)
  BY DEF ReadRefused, Replace
<1> QED BY <1>2, <1>3, <1>4, Extend DEF Top

LEMMA ReadTop ==
  ASSUME Sound, drizzle_state_read
  PROVE  /\ pc = "loop" /\ Top({"read"}) /\ stack \in StackStates /\ ~ Closing
         /\ stack # <<>> /\ Head(stack) = "read"
         /\ Tail(stack) # <<>> /\ Head(Tail(stack)) \in {"packet_read", "field_read"}
<1>1. /\ pc = "loop" /\ stack # <<>> /\ Head(stack) = "read" /\ stack \in StackStates
  BY DEF drizzle_state_read, Running, Sound, StackInvariant, WellFormedStack
<1>2. Tail(stack) # <<>> /\ Head(Tail(stack)) \in {"packet_read", "field_read"}
  <2>1. PICK h : Tail(stack) \in {<<"packet_read", h>>, <<"field_read">>}
    BY <1>1, ReadShape
  <2>2. /\ <<"packet_read", h>> # <<>> /\ Head(<<"packet_read", h>>) = "packet_read"
        /\ <<"field_read">> # <<>> /\ Head(<<"field_read">>) = "field_read"
    OBVIOUS
  <2> QED BY <2>1, <2>2
<1> QED BY <1>1, <1>2 DEF Top, Closing

LEMMA ReadCrossing ==
  ASSUME Sound, Crossing, drizzle_state_read
  PROVE  Crossing'
<1>1. /\ pc = "loop" /\ Top({"read"}) /\ ~ Closing /\ stack # <<>> /\ Head(stack) = "read"
      /\ Tail(stack) # <<>> /\ Head(Tail(stack)) \in {"packet_read", "field_read"}
  BY ReadTop
<1>2. CASE ReadWaitsForPoll \/ ReadWouldBlock
  BY <1>1, <1>2, WaitCrossing DEF ReadWaitsForPoll, ReadWouldBlock
<1>3. CASE ReadSome
  <2>1. /\ sock = "connected" /\ UNCHANGED <<sock, c2s, server>> /\ s2c # <<>>
        /\ stack' = Tail(stack)
    <3>1. PICK n \in 1..Len(s2c) : TRUE
      BY <1>3 DEF ReadSome
    <3>2. s2c # <<>>
      BY <3>1
    <3> QED BY <1>3, <3>2 DEF ReadSome, Pop
  <2>2. ~ Top({"addrinfo", "connect"})' /\ ~ Top({"connecting"})' /\ stack' # <<>>
    BY <1>1, <2>1 DEF Top
  <2> QED BY <1>1, <2>1, <2>2 DEF Crossing, FailedApart, Uncrossed, HungUp
<1>4. CASE ReadRefused
  <2>1. Closing' /\ stack' # <<>> /\ Top({"connect"})' /\ UNCHANGED <<sock, s2c, c2s, server>>
    BY <1>1, <1>4, ReadRefusedCloses DEF ReadRefused, ioVars
  <2> QED BY <1>4, <2>1 DEF Crossing, FailedApart, Uncrossed, Top, ReadRefused
<1>5. CASE ReadFails
  <2>1. UNCHANGED <<sock, stack, s2c, c2s, server>>
    BY <1>5 DEF ReadFails, ioVars
  <2> QED BY <1>1, <2>1, StaysUncrossed, StaysApart DEF Crossing, Top
<1> QED BY <1>2, <1>3, <1>4, <1>5 DEF drizzle_state_read

(* drizzle_state_write: only while nothing is to be read.                  *)
LEMMA WriteTop ==
  ASSUME Sound, drizzle_state_write
  PROVE  /\ pc = "loop" /\ Top({"write"}) /\ stack \in StackStates /\ ~ Closing
         /\ stack # <<>> /\ Head(stack) = "write" /\ sock = "connected" /\ s2c = <<>>
         /\ Tail(stack) # <<>> => Head(Tail(stack)) \in {"command_write", "packet_read"}
<1>1. /\ pc = "loop" /\ stack # <<>> /\ Head(stack) = "write" /\ stack \in StackStates
  BY DEF drizzle_state_write, Running, Sound, StackInvariant, WellFormedStack
<1>2. Top({"write"}) /\ ~ Closing
  BY <1>1 DEF Top, Closing
<1>3. stack \in CommandStates \cup HandshakeStates
  BY <1>1, WriteShape
<1>4. sock = "connected"
  BY <1>3 DEF Sound, SessionInvariant, StackTellsReady, CleanApart, Clean
<1>5. s2c = <<>>
  BY <1>2, <1>4 DEF Sound, PacketInvariant, Requests, HandshakeInOrder
<1> QED BY <1>1, <1>2, <1>4, <1>5, WriteShape

LEMMA WriteCrossing ==
  ASSUME Sound, Crossing, drizzle_state_write
  PROVE  Crossing'
<1>1. /\ pc = "loop" /\ ~ Closing /\ stack # <<>> /\ Head(stack) = "write"
      /\ sock = "connected" /\ s2c = <<>>
      /\ Tail(stack) # <<>> => Head(Tail(stack)) \in {"command_write", "packet_read"}
  BY WriteTop
<1>2. CASE WriteWouldBlock
  BY <1>1, <1>2, WaitCrossing DEF WriteWouldBlock
<1>3. ASSUME stack' \in {stack, Tail(stack)}, UNCHANGED <<sock, s2c>>
      PROVE  Crossing'
  <2>1. ~ Top({"addrinfo", "connect"})' /\ ~ Top({"connecting"})'
    BY <1>1, <1>3 DEF Top
  <2> QED BY <1>1, <1>3, <2>1 DEF Crossing, FailedApart, Uncrossed
<1>4. CASE WriteFails \/ (buf = <<>> /\ Pop /\ UNCHANGED ioVars)
  BY <1>3, <1>4 DEF WriteFails, Pop, ioVars
<1>5. CASE WriteSome
  BY <1>3, <1>5 DEF WriteSome, Sent, Pop
<1> QED BY <1>2, <1>4, <1>5 DEF drizzle_state_write

(* The other handlers work on the buffer, above or below each other.       *)
Works ==
  /\ pc = "loop" /\ ~ Top({"read", "addrinfo", "connect", "connecting"})
  /\ ~ Top({"addrinfo", "connect", "connecting"})'
  /\ stack' = <<>> => sock = "connected"
  /\ UNCHANGED <<sock, watch, s2c, c2s, server, events, revents>>
  /\ pc' \in {"loop", "stop"} /\ (pc' = "stop" => rc' # "IO_WAIT")

LEMMA WorkCrossing ==
  ASSUME Crossing, Works
  PROVE  Crossing'
<1>1. ~ Closing /\ sock # "failed"
  BY DEF Works, Closing, Crossing, FailedApart, Top
<1> QED BY <1>1 DEF Works, Crossing, FailedApart, Uncrossed, HungUp, Top

LEMMA PacketReadWorks ==
  ASSUME Sound, drizzle_state_packet_read
  PROVE  Works
<1>1. /\ pc = "loop" /\ stack \in StackStates /\ stack # <<>>
      /\ Head(stack) = "packet_read" /\ stack \in Seq(Handlers)
  BY DEF drizzle_state_packet_read, Running, Sound, StackInvariant, WellFormedStack, TypeOK
<1>2. PICK h \in Parsers : stack = <<"packet_read", h>>
  BY <1>1, Shapes
<1>3. /\ Tail(stack) # <<>>
      /\ Head(Tail(stack)) \notin {"addrinfo", "connect", "connecting"}
  BY <1>2 DEF Parsers
<1>4. <<"read">> \o stack # <<>> /\ Head(<<"read">> \o stack) = "read"
  <2>1. "read" \in Handlers
    BY DEF Handlers
  <2> QED BY <1>1, <2>1, Extend
<1>5. stack' \in {<<"read">> \o stack, stack, Tail(stack)}
  BY DEF drizzle_state_packet_read, Push, Pop
<1>6. stack' # <<>> /\ ~ Top({"addrinfo", "connect", "connecting"})'
  BY <1>1, <1>3, <1>4, <1>5 DEF Top
<1>7. /\ UNCHANGED <<sock, watch, s2c, c2s, server, events, revents>>
      /\ pc' \in {"loop", "stop"} /\ (pc' = "stop" => rc' # "IO_WAIT")
  BY <1>1 DEF drizzle_state_packet_read, ioVars, pollVars, Continue, Return
<1> QED BY <1>1, <1>6, <1>7 DEF Works, Top

(* What a handler of the protocol leaves alone.                            *)
LEMMA ProtocolWorks ==
  ASSUME Sound, pc = "loop", stack # <<>>,
         Head(stack) \notin {"read", "addrinfo", "connect", "connecting"},
         Quiet, pc' \in {"loop", "stop"}, pc' = "stop" => rc' # "IO_WAIT",
         stack' = <<>> => sock = "connected",
         stack' # <<>> => Head(stack') \notin {"addrinfo", "connect", "connecting"}
  PROVE  Works
BY DEF Works, Quiet, ioVars, pollVars, Top

(* A parser stands alone on the stack, with a packet of the server.        *)
LEMMA ParserAlone ==
  ASSUME Sound, NEW h \in Parsers, Running(h)
  PROVE  /\ pc = "loop" /\ stack = <<h>> /\ stack # <<>> /\ Head(stack) = h
         /\ Tail(stack) = <<>>
         /\ <<"read">> \o stack # <<>> /\ Head(<<"read">> \o stack) = "read"
         /\ h \notin {"read", "addrinfo", "connect", "connecting"}
<1>1. pc = "loop" /\ stack \in StackStates /\ stack # <<>> /\ Head(stack) = h
      /\ stack \in Seq(Handlers)
  BY DEF Running, Sound, StackInvariant, WellFormedStack, TypeOK
<1>2. stack = <<h>>
  BY <1>1, Shapes DEF Parsers
<1>3. Tail(stack) = <<>>
  BY <1>2
<1>4. <<"read">> \o stack # <<>> /\ Head(<<"read">> \o stack) = "read"
  <2>1. "read" \in Handlers
    BY DEF Handlers
  <2> QED BY <1>1, <2>1, Extend
<1>5. h \notin {"read", "addrinfo", "connect", "connecting"}
  BY DEF Parsers
<1> QED BY <1>1, <1>2, <1>3, <1>4, <1>5

(* Bytes in the buffer are those of a connection.                          *)
LEMMA ConnectedBuffer ==
  ASSUME Sound, buf # <<>>
  PROVE  sock = "connected"
BY DEF Sound, SessionInvariant, CleanApart, Clean

LEMMA HandshakeWorks ==
  ASSUME Sound, \/ drizzle_state_handshake_server_read
                \/ drizzle_state_handshake_client_write
                \/ drizzle_state_handshake_result_read
  PROVE  Works
<1>1. CASE drizzle_state_handshake_server_read
  <2>1. /\ Running("handshake_server_read") /\ "handshake_server_read" \in Parsers /\ Quiet
    BY <1>1 DEF drizzle_state_handshake_server_read, Parsers
  <2>2. /\ pc = "loop" /\ stack = <<"handshake_server_read">> /\ stack # <<>>
        /\ Head(stack) = "handshake_server_read" /\ Tail(stack) = <<>>
        /\ <<"read">> \o stack # <<>> /\ Head(<<"read">> \o stack) = "read"
    BY <2>1, ParserAlone
  <2> DEFINE hs == <<"handshake_client_write", "write", "packet_read",
                     "handshake_result_read">>
  <2>3. hs \o <<>> = hs /\ hs # <<>> /\ Head(hs) = "handshake_client_write"
    <3>1. /\ "handshake_client_write" \in Handlers /\ "write" \in Handlers
          /\ "packet_read" \in Handlers /\ "handshake_result_read" \in Handlers
      BY DEF Handlers
    <3>2. hs \in Seq(Handlers)
      BY <3>1
    <3> HIDE DEF hs
    <3>3. hs \o <<>> = hs
      BY <3>2, OnEmpty
    <3> QED BY <3>3 DEF hs
  <2>4. stack' \in {<<"read">> \o stack, stack, hs \o <<>>}
    BY <1>1, <2>2 DEF drizzle_state_handshake_server_read, Parse, GreetingIsError,
       GreetingRejected, GreetingAccepted, Push, Replace
  <2>5. pc' \in {"loop", "stop"} /\ (pc' = "stop" => rc' # "IO_WAIT")
    BY <1>1, <2>2 DEF drizzle_state_handshake_server_read, Parse, GreetingIsError,
       GreetingRejected, GreetingAccepted, Continue, Return
  <2> HIDE DEF hs
  <2>6. stack' # <<>> /\ Head(stack') \in {"read", "handshake_server_read",
                                          "handshake_client_write"}
    BY <2>2, <2>3, <2>4
  <2> QED BY <2>1, <2>2, <2>5, <2>6, ProtocolWorks
<1>2. CASE drizzle_state_handshake_client_write
  <2>1. /\ pc = "loop" /\ stack # <<>> /\ Head(stack) = "handshake_client_write"
        /\ stack \in StackStates
    BY <1>2 DEF drizzle_state_handshake_client_write, Running, Sound, StackInvariant,
       WellFormedStack
  <2>2. stack = <<"handshake_client_write", "write", "packet_read", "handshake_result_read">>
    BY <2>1, Shapes
  <2>3. Tail(stack) # <<>> /\ Head(Tail(stack)) = "write"
    BY <2>2
  <2> QED BY <1>2, <2>1, <2>3, ProtocolWorks
          DEF drizzle_state_handshake_client_write, Pop, Continue
<1>3. CASE drizzle_state_handshake_result_read
  <2>1. Running("handshake_result_read") /\ "handshake_result_read" \in Parsers /\ Quiet
    BY <1>3 DEF drizzle_state_handshake_result_read, Parsers
  <2>2. /\ pc = "loop" /\ stack = <<"handshake_result_read">> /\ stack # <<>>
        /\ Head(stack) = "handshake_result_read" /\ Tail(stack) = <<>>
        /\ <<"read">> \o stack # <<>> /\ Head(<<"read">> \o stack) = "read"
    BY <2>1, ParserAlone
  <2>3. sock = "connected"
    BY <2>1, <2>2, ConnectedBuffer DEF Sound, StackInvariant, ParserHasPacket, Top, Parsers
  <2>4. stack' \in {<<"read">> \o stack, <<>>}
    BY <1>3, <2>2 DEF drizzle_state_handshake_result_read, Push, Pop
  <2>5. pc' \in {"loop", "stop"} /\ (pc' = "stop" => rc' # "IO_WAIT")
    BY <1>3, <2>2 DEF drizzle_state_handshake_result_read, Continue, Return
  <2>6. stack' # <<>> => Head(stack') = "read"
    BY <2>2, <2>4
  <2> QED BY <2>1, <2>2, <2>3, <2>5, <2>6, ProtocolWorks
<1> QED BY <1>1, <1>2, <1>3

LEMMA ReplyWorks ==
  ASSUME Sound, \/ drizzle_state_command_write \/ drizzle_state_result_read
                \/ drizzle_state_column_read \/ drizzle_state_row_read
                \/ drizzle_state_field_read
  PROVE  Works
<1>1. CASE drizzle_state_command_write
  <2>1. /\ pc = "loop" /\ stack = <<"command_write">> /\ Quiet /\ pc' = "loop"
        /\ stack' \in {<<"write">>, <<"write", "command_write">>,
                       <<"write", "packet_read", "result_read">>}
    BY <1>1, CommandWriteEffect DEF Sound
  <2>2. stack # <<>> /\ Head(stack) = "command_write"
        /\ stack' # <<>> /\ Head(stack') = "write"
    BY <2>1
  <2> QED BY <2>1, <2>2, ProtocolWorks
<1>2. CASE \/ drizzle_state_result_read \/ drizzle_state_column_read
           \/ drizzle_state_row_read \/ drizzle_state_field_read
  <2>1. PICK h \in {"result_read", "column_read", "row_read", "field_read"} : Running(h)
    BY <1>2 DEF drizzle_state_result_read, drizzle_state_column_read,
       drizzle_state_row_read, drizzle_state_field_read
  <2>2. /\ pc = "loop" /\ stack = <<h>> /\ stack # <<>> /\ Head(stack) = h /\ h \in Parsers
        /\ Tail(stack) = <<>>
        /\ <<"read">> \o stack # <<>> /\ Head(<<"read">> \o stack) = "read"
    <3>1. h \in Parsers
      BY <2>1 DEF Parsers
    <3> QED BY <2>1, <3>1, ParserAlone
  <2>3. <<"result_read">> \o <<>> = <<"result_read">>
    <3>1. "result_read" \in Handlers
      BY DEF Handlers
    <3>2. <<"result_read">> \in Seq(Handlers)
      BY <3>1
    <3> QED BY <3>2, OnEmpty
  <2>4. stack' \in {<<"read">> \o stack, <<"result_read">>, <<>>}
    BY <1>2, <2>2, <2>3 DEF drizzle_state_result_read, drizzle_state_column_read,
       drizzle_state_row_read, drizzle_state_field_read, Parse, Push, Pop, Replace
  <2>5. Quiet /\ pc' \in {"loop", "stop"} /\ (pc' = "stop" => rc' # "IO_WAIT")
    BY <1>2, <2>2 DEF drizzle_state_result_read, drizzle_state_column_read,
       drizzle_state_row_read, drizzle_state_field_read, Parse, Continue, Return
  <2>6. stack' = <<>> => sock = "connected"
    <3>1. CASE h = "field_read"
      <4>1. drizzle_state_field_read
        BY <1>2, <2>2, <3>1 DEF drizzle_state_result_read, drizzle_state_column_read,
           drizzle_state_row_read, Running
      <4>2. stack' = <<>> => buf # <<>>
        BY <2>2, <4>1 DEF drizzle_state_field_read, Push
      <4> QED BY <4>2, ConnectedBuffer
    <3>2. CASE h # "field_read"
      BY <2>1, <2>2, <3>2, ConnectedBuffer
         DEF Sound, StackInvariant, ParserHasPacket, Top, Parsers
    <3> QED BY <3>1, <3>2
  <2>7. stack' # <<>> => Head(stack') \in {"read", "result_read"}
    BY <2>2, <2>4
  <2>8. h \notin {"read", "addrinfo", "connect", "connecting"}
    OBVIOUS
  <2> QED BY <2>2, <2>5, <2>6, <2>7, <2>8, ProtocolWorks
<1> QED BY <1>1, <1>2

----------------------------------------------------------------------------
(* The API functions and the application.                                  *)

(* The states that an API function pushes on an empty stack.               *)
LEMMA Entered ==
  ASSUME stack = <<>>,
         NEW hs \in {<<"addrinfo", "connect", "packet_read", "handshake_server_read">>,
                     <<"command_write">>, <<"packet_read", "column_read">>,
                     <<"packet_read", "row_read">>, <<"field_read">>},
         Push(hs)
  PROVE  /\ stack' # <<>>
         /\ Head(stack') \in {"addrinfo", "command_write", "packet_read", "field_read"}
         /\ Head(stack') = "addrinfo" =>
              hs = <<"addrinfo", "connect", "packet_read", "handshake_server_read">>
<1>1. hs \in Seq(Handlers)
  <2>1. /\ "addrinfo" \in Handlers /\ "connect" \in Handlers /\ "packet_read" \in Handlers
        /\ "handshake_server_read" \in Handlers /\ "command_write" \in Handlers
        /\ "column_read" \in Handlers /\ "row_read" \in Handlers /\ "field_read" \in Handlers
    BY DEF Handlers
  <2>2. /\ <<"addrinfo", "connect", "packet_read", "handshake_server_read">> \in Seq(Handlers)
        /\ <<"command_write">> \in Seq(Handlers) /\ <<"field_read">> \in Seq(Handlers)
    BY <2>1
  <2>3. /\ <<"packet_read", "column_read">> \in Seq(Handlers)
        /\ <<"packet_read", "row_read">> \in Seq(Handlers)
    BY <2>1
  <2> QED BY <2>2, <2>3, Zenon
<1>2. /\ hs # <<>> /\ Head(hs) \in {"addrinfo", "command_write", "packet_read", "field_read"}
      /\ Head(hs) = "addrinfo" =>
           hs = <<"addrinfo", "connect", "packet_read", "handshake_server_read">>
  OBVIOUS
<1>3. stack' = hs
  BY <1>1, OnEmpty DEF Push
<1> QED BY <1>2, <1>3

(* What a call, and the function it has called drizzle_state_loop from, do *)
(* to what one may wait for.  Only a call that waits keeps its states.     *)
ApiMoves ==
  /\ pc \in {"app", "again", "leave"} /\ pc' \in {"app", "again", "loop", "wait"}
  /\ UNCHANGED <<sock, watch, s2c, c2s, server, events, revents>>
  /\ \/ stack' = stack
     \/ /\ stack = <<>> /\ stack' # <<>> /\ pc' = "loop"
        /\ Head(stack') \in {"addrinfo", "command_write", "packet_read", "field_read"}
        /\ Head(stack') = "addrinfo" => sock # "connected"
  /\ pc' \in {"again", "wait"} => pc = "leave" /\ rc = "IO_WAIT"
  /\ pc' = "wait" => ~ NonBlocking
  /\ pc' = "again" => NonBlocking \/ ~ inConnect

(* The call returns to the application.                                    *)
LEMMA FinishMoves ==
  ASSUME pc \in {"app", "again", "leave"}, ApiOnly, NEW name, NEW code, NEW r,
         Finish(name, code, r), code = "IO_WAIT" => pc = "leave" /\ rc = "IO_WAIT",
         code = "IO_WAIT" => NonBlocking \/ ~ inConnect
  PROVE  ApiMoves
BY DEF Finish, ApiOnly, ioVars, pollVars, ApiMoves

(* It goes on with the states it has pushed or found.                      *)
LEMMA StartMoves ==
  ASSUME Sound, pc \in {"app", "again", "leave"}, ApiOnly, pc' = "loop",
         \/ stack' = stack
         \/ stack = <<>> /\ \/ Push(<<"command_write">>) \/ Push(<<"field_read">>)
                            \/ Push(<<"packet_read", "column_read">>)
                            \/ Push(<<"packet_read", "row_read">>)
         \/ EnterConnect /\ ~ ready
  PROVE  ApiMoves
<1>1. UNCHANGED <<sock, watch, s2c, c2s, server, events, revents>>
  BY DEF ApiOnly, ioVars, pollVars
<1>2. CASE stack' = stack
  BY <1>1, <1>2 DEF ApiMoves
<1>3. ASSUME stack = <<>>, NEW hs \in {<<"command_write">>, <<"packet_read", "column_read">>,
                                       <<"packet_read", "row_read">>, <<"field_read">>},
             Push(hs)
      PROVE  ApiMoves
  <2>1. hs # <<"addrinfo", "connect", "packet_read", "handshake_server_read">>
    OBVIOUS
  <2>2. /\ stack' # <<>> /\ Head(stack') # "addrinfo"
        /\ Head(stack') \in {"addrinfo", "command_write", "packet_read", "field_read"}
    BY <1>3, <2>1, Entered
  <2> QED BY <1>1, <1>3, <2>2 DEF ApiMoves
<1>4. CASE /\ stack = <<>> /\ ~ ready
           /\ Push(<<"addrinfo", "connect", "packet_read", "handshake_server_read">>)
  <2>1. /\ stack' # <<>>
        /\ Head(stack') \in {"addrinfo", "command_write", "packet_read", "field_read"}
    BY <1>4, Entered
  <2>2. ~ Connecting
    BY <1>4 DEF Connecting, ConnectStates, HandshakeStates, ReaderStates
  <2>3. sock # "connected"
    BY <1>4, <2>2, Apart
  <2> QED BY <1>1, <1>4, <2>1, <2>3 DEF ApiMoves
<1>5. EnterConnect /\ ~ ready =>
        \/ stack' = stack
        \/ /\ stack = <<>> /\ ~ ready
           /\ Push(<<"addrinfo", "connect", "packet_read", "handshake_server_read">>)
  BY DEF EnterConnect
<1> QED BY <1>2, <1>3, <1>4, <1>5

(* The functions that called drizzle_state_loop.                           *)
LEMMA ReturnMoves ==
  ASSUME Sound, Awaits,
         ConnectReturns \/ CommandReturns \/ ColumnsReturn \/ SkipReturns \/ RowReturns
  PROVE  ApiMoves
<1>1. pc = "leave"
  BY DEF ConnectReturns, CommandReturns, ColumnsReturn, SkipReturns, RowReturns
<1>2. rc = "IO_WAIT" => NonBlocking \/ inConnect
  BY <1>1 DEF Awaits, GaveUp
<1>3. CASE ConnectReturns
  <2>1. ApiOnly
    BY <1>3 DEF ConnectReturns
  <2>2. CASE rc = "IO_WAIT" /\ ~ NonBlocking /\ pc' = "wait" /\ stack' = stack
    BY <1>1, <2>1, <2>2 DEF ApiOnly, ioVars, pollVars, ApiMoves
  <2>3. CASE op \in Commands /\ EnterCommand(op) /\ pc' = "loop"
    BY <1>1, <2>1, <2>3, StartMoves DEF EnterCommand
  <2>4. CASE ~ (rc = "IO_WAIT" /\ ~ NonBlocking) /\ Finish(op, rc, result)
    BY <1>1, <2>1, <2>4, FinishMoves
  <2> QED BY <1>3, <2>2, <2>3, <2>4 DEF ConnectReturns
<1>4. CASE CommandReturns
  <2>1. /\ ApiOnly /\ ~ inConnect
        /\ \E code, r : Finish(op, code, r) /\ (code = "IO_WAIT" => rc = "IO_WAIT")
    BY <1>4 DEF CommandReturns
  <2> QED BY <1>1, <1>2, <2>1, FinishMoves
<1>5. ~ inConnect \/ ~ (op \in {"columns", "row", "fields"})
  BY <1>1 DEF Sound, PacketInvariant, CallsMatch, Asks, Commands
<1>6. CASE ColumnsReturn
  <2>1. ApiOnly /\ op = "columns"
    BY <1>6 DEF ColumnsReturn
  <2>2. CASE rc = "OK" /\ EnterColumn /\ pc' = "loop"
    <3>1. stack = <<>>
      BY <1>1, <2>2 DEF Sound, StackInvariant, LoopOutcome
    <3> QED BY <1>1, <2>1, <2>2, <3>1, StartMoves DEF EnterColumn, EnterReader
  <2>3. CASE \E r : Finish(op, rc, r)
    BY <1>1, <1>5, <2>1, <2>3, FinishMoves
  <2> QED BY <1>6, <2>2, <2>3 DEF ColumnsReturn, Start
<1>7. ~ SkipReturns
  BY DEF SkipReturns, Sound, PacketInvariant, CallsMatch, Asks, Commands
<1>8. CASE RowReturns
  <2>1. ApiOnly /\ op \in {"row", "fields"}
    BY <1>8 DEF RowReturns
  <2>2. CASE rc = "OK" /\ Push(<<"field_read">>) /\ pc' = "loop"
    <3>1. stack = <<>>
      BY <1>1, <2>2 DEF Sound, StackInvariant, LoopOutcome
    <3> QED BY <1>1, <2>1, <2>2, <3>1, StartMoves
  <2>3. CASE Finish("row", rc, result)
    BY <1>1, <1>5, <2>1, <2>3, FinishMoves
  <2> QED BY <1>8, <2>2, <2>3 DEF RowReturns, Start
<1> QED BY <1>3, <1>4, <1>6, <1>7, <1>8

(* The calls.                                                              *)
LEMMA CallMoves ==
  ASSUME OrderlyUse, Sound, Call
  PROVE  ApiMoves
<1>1. CASE CallConnect
  <2>1. pc \in {"app", "again"} /\ ApiOnly
    BY <1>1 DEF CallConnect, May, AppRuns
  <2>2. CASE Finish("connect", "OK", result)
    BY <2>1, <2>2, FinishMoves
  <2>3. CASE EnterConnect /\ ~ ready /\ pc' = "loop"
    BY <2>1, <2>3, StartMoves
  <2> QED BY <1>1, <2>2, <2>3 DEF CallConnect, Start
<1>2. ASSUME NEW name \in Commands, CallCommand(name)
      PROVE  ApiMoves
  <2>1. pc \in {"app", "again"} /\ ApiOnly /\ pc' = "loop"
    BY <1>2 DEF CallCommand, May, AppRuns, Start
  <2>2. CASE EnterCommand(name)
    BY <2>1, <2>2, StartMoves DEF EnterCommand
  <2>3. CASE EnterConnect /\ ~ ready
    BY <2>1, <2>3, StartMoves
  <2> QED BY <1>2, <2>2, <2>3 DEF CallCommand
<1>3. CASE CallColumns
  <2>1. pc \in {"app", "again"} /\ ApiOnly
    BY <1>3 DEF CallColumns, May, AppRuns
  <2>2. CASE \E r : Finish("columns", "OK", r)
    BY <2>1, <2>2, FinishMoves
  <2>3. CASE EnterColumn /\ pc' = "loop"
    BY <2>1, <2>3, StartMoves DEF EnterColumn, EnterReader
  <2> QED BY <1>3, <2>2, <2>3 DEF CallColumns, Start
<1>4. CASE CallRow
  <2>1. pc \in {"app", "again"} /\ ApiOnly
    BY <1>4 DEF CallRow, May, AppRuns
  <2>2. CASE Finish("row", "NOT_READY", result)
    BY <2>1, <2>2, FinishMoves
  <2>3. CASE EnterRow /\ pc' = "loop"
    BY <2>1, <2>3, StartMoves DEF EnterRow, EnterReader
  <2> QED BY <1>4, <2>2, <2>3 DEF CallRow, Start
<1>5. ~ CallSkip
  BY DEF CallSkip, May, OrderlyUse
<1> QED BY <1>1, <1>2, <1>3, <1>4, <1>5 DEF Call

(* What neither of them does to the socket.                                *)
LEMMA ApiCrossing ==
  ASSUME Sound, Crossing, ApiMoves
  PROVE  Crossing'
<1>1. ~ Closing
  BY DEF ApiMoves, Closing
<1>2. CASE stack' = stack
  <2>1. UNCHANGED <<s2c, c2s, server, sock, stack>>
    BY <1>2 DEF ApiMoves
  <2> QED BY <1>1, <2>1, StaysUncrossed, StaysApart DEF Crossing, Top
<1>3. CASE stack' # stack
  <2>1. /\ stack = <<>> /\ stack' # <<>> /\ UNCHANGED <<s2c, c2s, server, sock>>
        /\ Head(stack') \notin {"connect", "connecting"}
        /\ Head(stack') = "addrinfo" => sock # "connected"
    BY <1>3 DEF ApiMoves
  <2>2. Head(stack') = "addrinfo" => c2s = <<>>
    BY <2>1 DEF Sound, PacketInvariant, CallsMatch
  <2>3. sock # "failed"
    BY <2>1 DEF Crossing, FailedApart
  <2> QED BY <1>1, <2>1, <2>2, <2>3 DEF Crossing, FailedApart, Uncrossed, HungUp, Top
<1> QED BY <1>2, <1>3

(* A step that leaves stack and socket as they are, or closes the socket.  *)
LEMMA SameCrossing ==
  ASSUME Sound, Crossing, ~ Closing,
         UNCHANGED <<stack, sock, s2c, c2s, server>> \/ drizzle_close
  PROVE  Crossing'
<1>1. CASE UNCHANGED <<stack, sock, s2c, c2s, server>>
  BY <1>1, StaysUncrossed, StaysApart DEF Crossing, Top
<1>2. CASE drizzle_close
  BY <1>2, CloseApart DEF Crossing
<1> QED BY <1>1, <1>2

(* The poll() of the library and around it, and the ends of                *)
(* drizzle_state_loop, of drizzle_quit and of the connection.              *)
LEMMA EndCrossing ==
  ASSUME Sound, Crossing,
         \/ drizzle_wait \/ StateLoopStops \/ StateLoopEnds \/ QuitReturns
         \/ CallResultFree \/ CallClose \/ AppRests \/ LoopNext \/ UNCHANGED vars
  PROVE  Crossing'
<1>1. CASE drizzle_wait \/ LoopNext
  <2>1. ~ Closing
    BY <1>1 DEF drizzle_wait, LoopNext, AppWait, AppEventLoop, AppLoopStale, AppRuns, Closing
  <2>2. UNCHANGED <<stack, sock, s2c, c2s, server>> \/ drizzle_close
    BY <1>1 DEF drizzle_wait, WaitFails, ioVars, LoopNext, AppWait, AppEventLoop,
       AppLoopStale, SetRevents
  <2> QED BY <2>1, <2>2, SameCrossing
<1>2. CASE StateLoopStops
  <2>1. CASE rc \in {"IO_WAIT", "PAUSE", "ERROR_CODE"}
    <3>1. ~ Closing /\ UNCHANGED <<stack, sock, s2c, c2s, server>>
      BY <1>2, <2>1 DEF StateLoopStops, ioVars, Closing, Resumable
    <3> QED BY <3>1, SameCrossing
  <2>2. CASE rc \notin {"IO_WAIT", "PAUSE", "ERROR_CODE"}
    BY <1>2, <2>2, CloseApart DEF StateLoopStops, Crossing
  <2> QED BY <2>1, <2>2
<1>3. CASE StateLoopEnds \/ CallResultFree
  <2>1. ~ Closing /\ UNCHANGED <<stack, sock, s2c, c2s, server>>
    BY <1>3 DEF StateLoopEnds, CallResultFree, AppRuns, ApiOnly, ioVars, Closing
  <2> QED BY <2>1, SameCrossing
<1>4. CASE QuitReturns \/ CallClose
  BY <1>4, CloseApart DEF QuitReturns, CallClose, Crossing
<1>5. CASE AppRests \/ UNCHANGED vars
  <2>1. UNCHANGED <<stack, sock, s2c, c2s, server, pc, rc>>
    BY <1>5 DEF AppRests, vars, ioVars
  <2>2. Closing' <=> Closing
    BY <2>1 DEF Closing
  <2> QED BY <2>1, <2>2, StaysUncrossed, StaysApart DEF Crossing, Top
<1> QED BY <1>1, <1>2, <1>3, <1>4, <1>5

----------------------------------------------------------------------------
(* The peer.                                                               *)

(* What is read behind the server's back is read in the right order.       *)
LEMMA SaysCrossing ==
  ASSUME Crossing, Still, UNCHANGED sock, sock = "connected",
         HungUp' \/ Closing \/ s2c' = <<>> \/ c2s' = <<>>,
         c2s' = <<>> \/ UNCHANGED c2s \/ Closing \/ ~ Top({"addrinfo", "connect"})
  PROVE  Crossing'
<1>1. (Closing' <=> Closing) /\ \A hs : Top(hs)' = Top(hs)
  BY DEF Still, Closing, Top
<1>2. FailedApart'
  BY <1>1 DEF Crossing, FailedApart, Still, Top
<1>3. Uncrossed'
  BY <1>1 DEF Crossing, Uncrossed, Top, Still
<1> QED BY <1>2, <1>3 DEF Crossing

LEMMA KernelCrossing ==
  ASSUME Sound, Crossing, KernelConnects
  PROVE  Crossing'
<1>1. /\ stack' = stack /\ s2c' = <<>> /\ sock = "pending" /\ sock' \in {"connected", "failed"}
      /\ stack = <<"connecting", "packet_read", "handshake_server_read">>
  BY KernelEffect DEF Sound
<1>2. Top({"connecting"}) /\ ~ Top({"addrinfo", "connect"}) /\ stack # <<>>
  BY <1>1 DEF Top
<1>3. Top({"connecting"})' /\ ~ Top({"addrinfo", "connect"})' /\ stack' # <<>>
  BY <1>1, <1>2 DEF Top
<1>4. Top({"connect", "connecting"})'
  BY <1>3 DEF Top
<1> QED BY <1>1, <1>3, <1>4 DEF Crossing, FailedApart, Uncrossed

LEMMA ServerGreetsCrossing ==
  ASSUME Sound, Crossing, ServerGreets
  PROVE  Crossing'
<1>1. /\ server = "greet" /\ Still /\ UNCHANGED <<sock, c2s>> /\ sock = "connected" /\ ~ ready
      /\ stack # <<"handshake_server_read">> /\ stack \notin HandshakeStates
  BY PeerStill DEF ServerGreets, Sound, SessionInvariant, CleanApart, RepliesFollow, GreetingFirst
<1>2. CASE ~ Closing
  <2>1. stack \in ConnectStates
    BY <1>1, <1>2 DEF Sound, SessionInvariant, StackTellsReady
  <2>2. stack \in Reading("handshake_server_read")
                  \cup {<<"connecting", "packet_read", "handshake_server_read">>}
        => c2s = <<>>
    BY <1>1, <1>2 DEF Sound, PacketInvariant, HandshakeInOrder
  <2>3. Top({"addrinfo", "connect"}) => c2s = <<>>
    BY <1>2 DEF Crossing, Uncrossed
  <2>4. stack = <<"connecting">> => FALSE
    BY DEF Sound, SessionInvariant, StackTellsReady
  <2>5. \/ stack \in Reading("handshake_server_read")
                     \cup {<<"connecting", "packet_read", "handshake_server_read">>}
        \/ Top({"addrinfo", "connect"})
    BY <1>1, <2>1, <2>4 DEF ConnectStates, Reading, Top
  <2>6. c2s' = <<>>
    BY <1>1, <2>2, <2>3, <2>5
  <2> QED BY <1>1, <2>6, SaysCrossing
<1>3. CASE Closing
  BY <1>1, <1>3, SaysCrossing
<1> QED BY <1>2, <1>3

(* The client's answer to the greeting is all that it has sent.            *)
LEMMA LoginAlone ==
  ASSUME Sound, Crossing, ~ ready, ~ Closing, sock = "connected", c2s # <<>>
  PROVE  Head(c2s).kind = "auth" /\ Tail(c2s) = <<>>
<1>1. c2s \in Seq(Units)
  BY DEF Sound, StackInvariant, TypeOK, PeerTypeOK
<1>2. stack \in ConnectStates \cup HandshakeStates
  BY DEF Sound, SessionInvariant, StackTellsReady
<1>3. ~ Top({"addrinfo", "connect"})
  BY DEF Crossing, Uncrossed
<1>4. stack \in Reading("handshake_result_read") => Silent /\ Login(c2s)
  BY DEF Sound, PacketInvariant, HandshakeInOrder
<1>5. /\ stack \notin Reading("handshake_server_read")
                      \cup {<<"connecting", "packet_read", "handshake_server_read">>}
      /\ stack # <<"handshake_server_read">> /\ stack # <<"handshake_result_read">>
      /\ ~ Top({"handshake_client_write"}) /\ ~ Top({"write"})
  BY DEF Sound, PacketInvariant, HandshakeInOrder
<1>6. stack # <<"connecting">> /\ stack # <<"connect">>
  BY DEF Sound, SessionInvariant, StackTellsReady
<1>7. stack \in Reading("handshake_result_read")
  BY <1>2, <1>3, <1>5, <1>6
     DEF ConnectStates, HandshakeStates, ReaderStates, Reading, Top
<1>8. c2s[1].kind = "auth" /\ Len(c2s) = 1
  BY <1>4, <1>7 DEF Login
<1>9. Head(c2s) = c2s[1] /\ (Tail(c2s) = <<>> <=> Len(c2s) < 2)
  BY <1>1, Behind
<1>10. Len(c2s) = 1 => Len(c2s) < 2
  OBVIOUS
<1> QED BY <1>8, <1>9, <1>10

LEMMA ServerTakesCrossing ==
  ASSUME Sound, Crossing, ServerAuthenticates \/ ServerAnswers
  PROVE  Crossing'
<1>1. /\ Still /\ UNCHANGED sock /\ sock = "connected" /\ c2s # <<>> /\ c2s' = Tail(c2s)
      /\ server \in {"auth", "idle"}
  <2>1. server \in {"auth", "idle"} /\ c2s # <<>> /\ c2s' = Tail(c2s) /\ Library /\ UNCHANGED sock
    BY DEF ServerAuthenticates, ServerAnswers
  <2>2. sock = "connected"
    BY <2>1 DEF Sound, SessionInvariant, CleanApart
  <2> QED BY <2>1, <2>2, PeerStill
<1>2. c2s \in Seq(Units) /\ Head(c2s) = c2s[1] /\ Head(c2s) \in Units
  <2>1. c2s \in Seq(Units)
    BY DEF Sound, StackInvariant, TypeOK, PeerTypeOK
  <2> QED BY <1>1, <2>1, HeadTailProperties
<1>3. Closing \/ (s2c = <<>> /\ ~ Top({"addrinfo", "connect"}))
  BY <1>1 DEF Crossing, Uncrossed, HungUp
<1>4. Closing \/ ready \/ c2s' = <<>>
  BY <1>1, LoginAlone
<1>5. CASE ready /\ ~ Closing /\ ~ UNCHANGED s2c
  <2>1. server = "idle" /\ ServerAnswers
    BY <1>1, <1>5 DEF Sound, SessionInvariant, RepliesFollow, ServerAuthenticates
  <2>2. Final(c2s[1])
    BY <1>2, <1>5, <2>1, FinalAnswered
  <2>3. Asked(c2s)
    BY <1>5 DEF Sound, PacketInvariant, Requests
  <2>4. Len(c2s) < 2
    <3>1. Len(c2s) \in Nat /\ Len(c2s) >= 1
      BY <1>1, <1>2, Behind
    <3>2. 1 \in 1..Len(c2s)
      BY <3>1
    <3>3. 1 = Len(c2s)
      BY <2>2, <2>3, <3>2 DEF Asked
    <3>4. 1 = Len(c2s) => Len(c2s) < 2
      OBVIOUS
    <3> QED BY <3>3, <3>4
  <2>5. c2s' = <<>>
    BY <1>1, <1>2, <2>4, Behind
  <2> QED BY <1>1, <2>5, SaysCrossing
<1>6. CASE ~ (ready /\ ~ Closing /\ ~ UNCHANGED s2c)
  <2>1. Closing \/ s2c' = <<>> \/ c2s' = <<>>
    BY <1>3, <1>4, <1>6
  <2> QED BY <1>1, <1>3, <2>1, SaysCrossing
<1> QED BY <1>5, <1>6

LEMMA PeerCrossing ==
  ASSUME Sound, Crossing, PeerNext
  PROVE  Crossing'
<1>1. ASSUME ServerFails PROVE Crossing'
  <2>1. Still /\ UNCHANGED <<sock, c2s>> /\ HungUp'
    BY <1>1, PeerStill DEF ServerFails, HungUp
  <2>2. sock = "connected"
    BY <1>1 DEF ServerFails, Sound, SessionInvariant, CleanApart
  <2> QED BY <2>1, <2>2, SaysCrossing
<1> QED BY <1>1, KernelCrossing, ServerGreetsCrossing, ServerTakesCrossing DEF PeerNext

(* Every step keeps the two sides of the socket apart.                     *)
LEMMA CrossingNext ==
  ASSUME OrderlyUse, Sound, Crossing, Awaits, [Next]_vars
  PROVE  Crossing'
<1>1. CASE Handler
  BY <1>1, AddrinfoCrossing, ConnectCrossing, ConnectingCrossing, ReadCrossing, WriteCrossing,
     PacketReadWorks, HandshakeWorks, ReplyWorks, WorkCrossing DEF Handler, OrderlyUse
<1>2. CASE \/ ConnectReturns \/ CommandReturns \/ ColumnsReturn \/ SkipReturns \/ RowReturns
           \/ Call
  BY <1>2, ReturnMoves, CallMoves, ApiCrossing
<1>3. CASE \/ drizzle_wait \/ StateLoopStops \/ StateLoopEnds \/ QuitReturns
           \/ CallResultFree \/ CallClose \/ AppRests \/ LoopNext \/ UNCHANGED vars
  BY <1>3, EndCrossing
<1>4. CASE PeerNext
  BY <1>4, PeerCrossing
<1> QED BY <1>1, <1>2, <1>3, <1>4 DEF Next, LibraryNext, AppNext

----------------------------------------------------------------------------
(* The masks of the connection and of the event loop.                      *)

Masks == EventsPolled /\ LoopTold

(* A step that asks for nothing and is told of nothing.                    *)
LEMMA MasksStand ==
  ASSUME Masks, UNCHANGED <<events, watch>>, revents' \subseteq revents,
         NonBlocking /\ "IN" \in events => Top({"read"})',
         stack' = <<>> /\ sock' = "invalid" => (stack = <<>> /\ sock = "invalid") \/ events = {},
         Top({"addrinfo", "connect"})' /\ (~ Closing' \/ sock' = "invalid")
           => events = {} \/ (Top({"addrinfo", "connect"}) /\ (~ Closing \/ sock = "invalid")),
         Top({"connecting"})' => Top({"connecting"})
  PROVE  Masks'
<1>1. EventsPolled'
  BY DEF Masks, EventsPolled
<1>2. LoopTold'
  BY DEF Masks, LoopTold
<1> QED BY <1>1, <1>2 DEF Masks

(* The end of a socket.                                                    *)
LEMMA MasksClose ==
  ASSUME Masks, drizzle_close
  PROVE  Masks'
<1>1. CASE sock = "invalid"
  <2>1. UNCHANGED <<stack, sock, watch, events, revents>>
    BY <1>1 DEF drizzle_close, ioVars, pollVars
  <2> QED BY <1>1, <2>1, MasksStand DEF Masks, EventsPolled, Top
<1>2. CASE sock # "invalid"
  <2>1. watch' = {} /\ events' = {} /\ revents' = {}
    BY <1>2 DEF drizzle_close, Hangup, Reset
  <2> QED BY <2>1 DEF Masks, EventsPolled, LoopTold
<1> QED BY <1>1, <1>2

(* A handler that waits asks for what its kind needs.                      *)
LEMMA WaitMasks ==
  ASSUME Masks, pc = "loop", NEW ev \in {{"IN"}, {"OUT"}}, NEW rev, rev \subseteq revents,
         ev = {"IN"} => Top({"read"}) /\ "IN" \notin rev,
         ev = {"OUT"} => Top({"write", "connecting"}),
         Top({"connecting"}) => rev = {},
         WaitFor(ev, rev, Yield) \/ WaitFor(ev, rev, Block)
  PROVE  Masks'
<1>1. CASE drizzle_close
  BY <1>1, MasksClose
<1>2. CASE SetEventsOk(ev) /\ revents' = rev /\ UNCHANGED <<stack, sock>>
  <2>1. events' = events \cup ev /\ revents' \subseteq revents
        /\ watch' \in {watch, events \cup ev} /\ (~ HasCallback => watch' = watch)
    BY <1>2 DEF SetEventsOk
  <2>2. stack # <<>> /\ ~ Top({"addrinfo", "connect"})
    BY DEF Top
  <2>3. stack' # <<>> /\ ~ Top({"addrinfo", "connect"})' /\ \A hs : Top(hs)' = Top(hs)
    BY <1>2, <2>2 DEF Top
  <2>4. ev = {"OUT"} /\ NonBlocking => "IN" \notin events
    BY DEF Masks, EventsPolled, Top
  <2>5. EventsPolled'
    <3>1. events' \subseteq {"IN", "OUT"} /\ watch' \subseteq {"IN", "OUT"}
      BY <2>1 DEF Masks, EventsPolled
    <3>2. ~ HasCallback => watch' = {}
      BY <2>1 DEF Masks, EventsPolled
    <3>3. ~ ("IN" \in events' /\ "IN" \in revents')
      BY <1>2, <2>1 DEF Masks, EventsPolled
    <3>4. NonBlocking /\ "IN" \in events' => Top({"read"})'
      BY <2>1, <2>3, <2>4
    <3> QED BY <3>1, <3>2, <3>3, <3>4 DEF EventsPolled
  <2>6. ASSUME NonBlocking, HasCallback
        PROVE  LoopTold'
    <3>1. watch' = IF ev \subseteq events THEN watch ELSE events \cup ev
      BY <1>2, <2>6 DEF SetEventsOk
    <3>2. events' \subseteq watch'
      BY <2>1, <2>6, <3>1 DEF Masks, LoopTold
    <3>3. "OUT" \in events' /\ "IN" \in watch' => "IN" \in events'
      BY <2>1, <2>6, <3>1 DEF Masks, LoopTold
    <3>4. Top({"connecting"})' =>
            watch' \subseteq {"OUT"} /\ revents' \subseteq {"OUT", "ERR"}
            /\ (revents' # {} => events' = {})
      <4> SUFFICES ASSUME Top({"connecting"})
                   PROVE  watch' \subseteq {"OUT"} /\ revents' = {}
        BY <2>3
      <4>1. ev = {"OUT"} /\ rev = {}
        BY DEF Top
      <4> QED BY <1>2, <2>6, <3>1, <4>1 DEF Masks, LoopTold
    <3> QED BY <2>3, <3>2, <3>3, <3>4 DEF LoopTold
  <2> QED BY <2>5, <2>6 DEF Masks, LoopTold
<1> QED BY <1>1, <1>2 DEF WaitFor

(* The handlers that connect.                                              *)
LEMMA AddrinfoMasks ==
  ASSUME Sound, Masks, drizzle_state_addrinfo
  PROVE  Masks'
<1>1. pc = "loop" /\ stack # <<>> /\ Head(stack) = "addrinfo" /\ stack \in StackStates
  BY DEF drizzle_state_addrinfo, Running, Sound, StackInvariant, WellFormedStack
<1>2. stack = <<"addrinfo", "connect", "packet_read", "handshake_server_read">>
  BY <1>1, Shapes
<1>3. Tail(stack) # <<>> /\ Head(Tail(stack)) = "connect"
  BY <1>2
<1>4. stack' \in {stack, Tail(stack)} /\ UNCHANGED <<sock, watch, events, revents>>
  BY DEF drizzle_state_addrinfo, Pop, ioVars, pollVars
<1>5. Top({"addrinfo", "connect"}) /\ ~ Closing /\ ~ Top({"read"})
  BY <1>1 DEF Top, Closing
<1>6. ~ Top({"connecting"})' /\ stack' # <<>>
  BY <1>1, <1>3, <1>4 DEF Top
<1>7. ~ (NonBlocking /\ "IN" \in events)
  BY <1>5 DEF Masks, EventsPolled
<1> QED BY <1>4, <1>5, <1>6, <1>7, MasksStand

LEMMA ConnectMasks ==
  ASSUME CallbackAccepts, Sound, Masks, drizzle_state_connect
  PROVE  Masks'
<1>1. /\ pc = "loop" /\ stack = <<"connect", "packet_read", "handshake_server_read">>
      /\ stack' \in {<<"packet_read", "handshake_server_read">>, stack, <<>>,
                     <<"connecting", "packet_read", "handshake_server_read">>}
  BY ConnectEffect DEF Sound
<1>2. stack # <<>> /\ Head(stack) = "connect" /\ Top({"connect", "addrinfo"})
      /\ ~ Top({"read"}) /\ ~ Closing
  BY <1>1 DEF Top, Closing
<1>3. NonBlocking => "IN" \notin events
  BY <1>2 DEF Masks, EventsPolled
<1>4. NonBlocking /\ HasCallback => events = {}
  BY <1>2 DEF Masks, LoopTold, Top
<1>5. CASE ConnectInProgress
  <2>1. ~ (HasCallback /\ CallbackErrors # {})
    BY <1>5 DEF ConnectInProgress, CallbackAccepts
  <2>2. /\ revents' = {} /\ events' = events \cup {"OUT"} /\ sock' = "pending"
        /\ watch' = IF HasCallback /\ "OUT" \notin events THEN events \cup {"OUT"} ELSE {}
        /\ stack' = <<"connecting">> \o Tail(stack)
    BY <1>5, <2>1 DEF ConnectInProgress, Replace
  <2>3. EventsPolled'
    BY <1>3, <2>2 DEF Masks, EventsPolled
  <2>4. ~ Top({"addrinfo", "connect"})'
    <3>1. Tail(stack) \in Seq(Handlers) /\ "connecting" \in Handlers
      BY <1>2 DEF Handlers, Sound, StackInvariant, TypeOK
    <3>2. stack' # <<>> /\ Head(stack') = "connecting"
      BY <2>2, <3>1, Extend
    <3> QED BY <3>2 DEF Top
  <2>5. LoopTold'
    BY <1>4, <2>2, <2>4 DEF LoopTold
  <2> QED BY <2>3, <2>5 DEF Masks
<1>6. CASE ~ ConnectInProgress
  <2>1. /\ UNCHANGED events /\ watch' = {} /\ revents' \in {revents, {}, {"OUT"}}
        /\ stack' \in {stack, Tail(stack), <<>>}
    BY <1>6 DEF drizzle_state_connect, ConnectUds, NoAddressLeft, ConnectFails,
       SetSockOptFails, ConnectAtOnce, ConnectRefused, NewSocket, pollVars, Pop
  <2>2. ~ Top({"connecting"})'
    <3>1. Tail(stack) # <<>> /\ Head(Tail(stack)) = "packet_read"
      BY <1>1
    <3> QED BY <1>2, <2>1, <3>1 DEF Top
  <2>3. EventsPolled'
    BY <1>3, <2>1 DEF Masks, EventsPolled
  <2>4. LoopTold'
    BY <1>4, <2>1, <2>2 DEF LoopTold
  <2> QED BY <2>3, <2>4 DEF Masks
<1> QED BY <1>5, <1>6

LEMMA ConnectingMasks ==
  ASSUME Sound, Crossing, Masks, drizzle_state_connecting
  PROVE  Masks'
<1>1. pc = "loop" /\ stack # <<>> /\ Head(stack) = "connecting" /\ Top({"connecting"})
      /\ sock # "invalid"
  BY DEF drizzle_state_connecting, Running, Top, Crossing, FailedApart
<1>2. NonBlocking => "IN" \notin events
  BY <1>1 DEF Masks, EventsPolled, Top
<1>3. CASE WaitFor({"OUT"}, {}, Yield)
  <2>1. Top({"write", "connecting"})
    BY <1>1 DEF Top
  <2> QED BY <1>1, <1>3, <2>1, WaitMasks
<1>4. CASE ~ WaitFor({"OUT"}, {}, Yield)
  <2>1. /\ UNCHANGED <<sock, watch, events>> /\ revents' \subseteq revents
        /\ stack' \in {Tail(stack), <<"connect">> \o Tail(stack)}
    BY <1>4 DEF drizzle_state_connecting, TryNextAddress, Replace, Pop, ioVars, pollVars
  <2>2. revents # {}
    BY <1>4 DEF drizzle_state_connecting
  <2>3. NonBlocking /\ HasCallback => events = {}
    BY <1>1, <2>2 DEF Masks, LoopTold
  <2>4. ~ Top({"connecting"})'
    <3>1. stack = <<"connecting", "packet_read", "handshake_server_read">>
      <4>1. stack # <<"connecting">> /\ stack \in StackStates
        BY <1>1 DEF Sound, SessionInvariant, StackTellsReady, StackInvariant, WellFormedStack
      <4> QED BY <1>1, <4>1, Shapes
    <3>2. Tail(stack) # <<>> /\ Head(Tail(stack)) = "packet_read"
          /\ Tail(stack) \in Seq(Handlers) /\ "connect" \in Handlers
      BY <3>1 DEF Handlers, Sound, StackInvariant, TypeOK
    <3>3. Head(<<"connect">> \o Tail(stack)) = "connect"
      BY <3>2, Extend
    <3> QED BY <2>1, <3>2, <3>3 DEF Top
  <2>5. EventsPolled'
    BY <1>2, <2>1 DEF Masks, EventsPolled
  <2>6. LoopTold'
    BY <2>1, <2>3, <2>4 DEF Masks, LoopTold
  <2> QED BY <2>5, <2>6 DEF Masks
<1> QED BY <1>3, <1>4

(* The handlers that read, write and parse.                                *)
LEMMA ReadMasks ==
  ASSUME Sound, Masks, drizzle_state_read
  PROVE  Masks'
<1>1. /\ pc = "loop" /\ Top({"read"}) /\ ~ Closing /\ stack # <<>> /\ Head(stack) = "read"
      /\ Tail(stack) # <<>> /\ Head(Tail(stack)) \in {"packet_read", "field_read"}
  BY ReadTop
<1>2. ~ Top({"connecting"}) /\ ~ Top({"addrinfo", "connect"})
  BY <1>1 DEF Top
<1>3. CASE ReadWaitsForPoll \/ ReadWouldBlock
  <2>1. PICK rev \in {revents, revents \ {"IN"}} :
          "IN" \notin rev /\ (WaitFor({"IN"}, rev, Yield) \/ WaitFor({"IN"}, rev, Block))
    BY <1>3 DEF ReadWaitsForPoll, ReadWouldBlock
  <2>2. {"IN"} # {"OUT"} /\ rev \subseteq revents
    OBVIOUS
  <2> QED BY <1>1, <1>2, <2>1, <2>2, WaitMasks
<1>4. CASE ~ ReadWaitsForPoll /\ (ReadSome \/ ReadRefused)
  <2>1. NonBlocking => "IN" \notin events
    BY <1>4 DEF drizzle_state_read, Masks, EventsPolled, ReadWouldBlock
  <2>2. /\ UNCHANGED <<sock, watch, events>> /\ revents' \subseteq revents /\ sock = "connected"
    BY <1>4 DEF ReadSome, ReadRefused, ioVars
  <2>3. CASE ReadSome
    <3>1. ~ Top({"connecting"})' /\ ~ Top({"addrinfo", "connect"})'
      BY <1>1, <2>3 DEF ReadSome, Pop, Top
    <3> QED BY <2>1, <2>2, <3>1, MasksStand
  <2>4. CASE ReadRefused
    <3>1. Closing' /\ Top({"connect"})' /\ stack' # <<>>
      BY <1>1, <2>4, ReadRefusedCloses
    <3>2. ~ Top({"connecting"})'
      BY <3>1 DEF Top
    <3> QED BY <2>1, <2>2, <3>1, <3>2, MasksStand
  <2> QED BY <1>4, <2>3, <2>4
<1>5. CASE ReadFails
  <2>1. UNCHANGED <<stack, sock, watch, events, revents>>
    BY <1>5 DEF ReadFails, ioVars, pollVars
  <2>2. \A hs : Top(hs)' = Top(hs)
    BY <2>1 DEF Top
  <2> QED BY <1>1, <1>2, <2>1, <2>2, MasksStand
<1> QED BY <1>3, <1>4, <1>5 DEF drizzle_state_read

LEMMA WriteMasks ==
  ASSUME Sound, Masks, drizzle_state_write
  PROVE  Masks'
<1>1. /\ pc = "loop" /\ Top({"write"}) /\ ~ Closing /\ stack # <<>> /\ Head(stack) = "write"
      /\ sock = "connected"
      /\ Tail(stack) # <<>> => Head(Tail(stack)) \in {"command_write", "packet_read"}
  BY WriteTop
<1>2. ~ Top({"connecting"}) /\ ~ Top({"read"}) /\ Top({"write", "connecting"})
  BY <1>1 DEF Top
<1>3. NonBlocking => "IN" \notin events
  BY <1>2 DEF Masks, EventsPolled
<1>4. CASE WriteWouldBlock
  <2>1. WaitFor({"OUT"}, revents, Block) /\ {"IN"} # {"OUT"}
    BY <1>4 DEF WriteWouldBlock
  <2> QED BY <1>1, <1>2, <2>1, WaitMasks
<1>5. CASE ~ WriteWouldBlock
  <2>1. UNCHANGED <<sock, watch, events, revents>> /\ stack' \in {stack, Tail(stack)}
    BY <1>5 DEF drizzle_state_write, WriteSome, Sent, WriteFails, Pop, ioVars, pollVars
  <2>2. ~ Top({"connecting"})' /\ ~ Top({"addrinfo", "connect"})'
    BY <1>1, <2>1 DEF Top
  <2> QED BY <1>1, <1>3, <2>1, <2>2, MasksStand
<1> QED BY <1>4, <1>5

LEMMA WorkMasks ==
  ASSUME Masks, Works
  PROVE  Masks'
<1>1. NonBlocking => "IN" \notin events
  BY DEF Works, Masks, EventsPolled, Top
<1>2. ~ Top({"connecting"})' /\ ~ Top({"addrinfo", "connect"})'
      /\ (stack' = <<>> => sock' = "connected")
      /\ UNCHANGED <<events, watch, revents>>
  BY DEF Works, Top
<1> QED BY <1>1, <1>2, MasksStand

(* The API functions and the application.                                  *)
LEMMA ApiMasks ==
  ASSUME Sound, Crossing, Masks, ApiMoves
  PROVE  Masks'
<1>1. ~ Closing /\ UNCHANGED <<sock, watch, events, revents>>
  BY DEF ApiMoves, Closing
<1>2. CASE stack' = stack
  <2>1. \A hs : Top(hs)' = Top(hs)
    BY <1>2 DEF Top
  <2>2. NonBlocking /\ "IN" \in events => Top({"read"})
    BY DEF Masks, EventsPolled
  <2> QED BY <1>1, <1>2, <2>1, <2>2, MasksStand
<1>3. CASE stack' # stack
  <2>1. /\ stack = <<>> /\ stack' # <<>> /\ Head(stack') \notin {"connect", "connecting"}
        /\ Head(stack') = "addrinfo" => sock # "connected"
    BY <1>3 DEF ApiMoves
  <2>2. sock \in {"invalid", "connected"}
    BY <2>1 DEF Crossing, FailedApart
  <2>3. NonBlocking => "IN" \notin events
    BY <2>1 DEF Masks, EventsPolled, Top
  <2>4. EventsPolled'
    BY <1>1, <2>3 DEF Masks, EventsPolled
  <2>5. LoopTold'
    BY <1>1, <2>1, <2>2 DEF Masks, LoopTold, Top
  <2> QED BY <2>4, <2>5 DEF Masks
<1> QED BY <1>2, <1>3

(* What one can read one can also write to: the server does not answer     *)
(* what it has not read.                                                   *)
LEMMA ReadableWritable ==
  ASSUME Sound, Uncrossed, ~ Closing, Readable
  PROVE  Writable
<1>1. HungUp \/ c2s = <<>>
  BY DEF Uncrossed, Readable
<1>2. Len(<<>>) < SendCap
  <2>1. SendCap \in Nat /\ SendCap # 0
    BY IOAssumption DEF IOAssumption
  <2>2. Len(<<>>) = 0
    OBVIOUS
  <2> QED BY <2>1, <2>2
<1> QED BY <1>1, <1>2 DEF Readable, Writable

(* What poll() reports: an event that can be read comes with one that can  *)
(* be written, if that is polled for, and something comes at all.          *)
LEMMA Reports ==
  ASSUME Sound, Crossing, ~ Closing, NEW mask, mask \subseteq {"IN", "OUT"},
         NEW r \in Reported(mask)
  PROVE  /\ sock \in {"failed", "connected"} /\ r # {}
         /\ r \cap {"IN", "OUT"} \subseteq mask /\ r \subseteq {"IN", "OUT", "ERR"}
         /\ "IN" \in r => mask \subseteq r
         /\ sock = "failed" => (mask \subseteq r \/ HangupAlone)
                               /\ Top({"connect", "connecting"})
         /\ sock = "connected" => r \subseteq mask /\ ("IN" \in r => Readable)
                                  /\ (Readable => r = mask)
<1>1. CASE sock = "failed"
  <2>1. \/ r = (mask \cap {"IN", "OUT"}) \cup {"ERR"}
        \/ HangupAlone /\ r = {"ERR"}
    BY <1>1 DEF Reported
  <2>2. mask \cap {"IN", "OUT"} = mask
    OBVIOUS
  <2>3. Top({"connect", "connecting"})
    BY <1>1 DEF Crossing, FailedApart
  <2> QED BY <1>1, <2>1, <2>2, <2>3
<1>2. CASE sock = "connected"
  <2>1. /\ r = (IF Readable THEN mask \cap {"IN"} ELSE {})
               \cup (IF Writable THEN mask \cap {"OUT"} ELSE {})
        /\ r # {}
    BY <1>2 DEF Reported
  <2>2. Readable => Writable
    BY ReadableWritable DEF Crossing
  <2>3. Readable => r = mask
    BY <2>1, <2>2
  <2> QED BY <1>2, <2>1, <2>3
<1>3. sock \in {"failed", "connected"}
  BY DEF Reported
<1> QED BY <1>1, <1>2, <1>3

(* poll() between two calls, done by drizzle_wait ...                      *)
LEMMA AppWaitCovers ==
  ASSUME Disciplined, Sound, WaitInvariant, AppWait
  PROVE  Masks' /\ AgainCovered'
<1>1. /\ pc = "again" /\ pc' = pc /\ ~ HasCallback /\ events # {} /\ watch = {}
      /\ events \subseteq {"IN", "OUT"} /\ ~ Closing
  BY DEF AppWait, AroundCalls, WaitInvariant, EventsPolled, Closing
<1>2. PICK r \in Reported(events) : SetRevents(r, watch)
  BY DEF AppWait
<1>3. /\ sock \in {"failed", "connected"} /\ r # {}
      /\ r \cap {"IN", "OUT"} \subseteq events /\ r \subseteq {"IN", "OUT", "ERR"}
      /\ "IN" \in r => events \subseteq r
      /\ sock = "failed" => (events \subseteq r \/ HangupAlone) /\ Top({"connect", "connecting"})
      /\ sock = "connected" => r \subseteq events /\ ("IN" \in r => Readable)
  BY <1>1, Reports DEF WaitInvariant, Crossing
<1>4. /\ revents' = r /\ events' = events \ r /\ watch' = {}
      /\ UNCHANGED <<stack, sock, s2c, c2s, server>>
  BY <1>1, <1>2 DEF SetRevents, UnwantedOut
<1>5. Masks'
  <2>1. EventsPolled'
    <3>1. NonBlocking /\ "IN" \in events' => Top({"read"})'
      BY <1>4 DEF WaitInvariant, EventsPolled, Top
    <3> QED BY <1>1, <1>4, <3>1 DEF EventsPolled
  <2> QED BY <1>1, <2>1 DEF Masks, LoopTold
<1>6. AgainCovered'
  <2>1. Need' = Need /\ (Readable' <=> Readable)
    BY <1>4 DEF Need, Readable, HungUp
  <2>2. sock # "invalid" /\ Need # {} /\ Need \subseteq events /\ stack' # <<>>
    BY <1>1, <1>3, <1>4 DEF WaitInvariant, AgainCovered
  <2>3. Need \in {{"IN"}, {"OUT"}}
    BY <2>2 DEF Need
  <2>4. CASE Need = {"IN"}
    <3>1. "IN" \in r => Readable
      <4>1. ~ Top({"connect", "connecting"})
        BY <2>4 DEF Need, Top
      <4> QED BY <1>3, <4>1
    <3>2. "IN" \in r => events' = {} /\ Need \subseteq revents'
      BY <1>3, <1>4, <2>4
    <3>3. "IN" \notin r => Need \subseteq events'
      BY <1>4, <2>2, <2>4
    <3> QED BY <1>4, <2>1, <2>2, <2>4, <3>1, <3>2, <3>3 DEF AgainCovered
  <2>5. CASE Need = {"OUT"}
    <3>1. "IN" \notin events
      <4>1. NonBlocking
        BY <1>1 DEF WaitInvariant, Awaits
      <4>2. ~ Top({"read"})
        BY <2>5 DEF Need, Top
      <4> QED BY <4>1, <4>2 DEF WaitInvariant, EventsPolled
    <3>2. events = {"OUT"}
      BY <1>1, <2>2, <2>5, <3>1
    <3> QED BY <1>4, <2>1, <2>2, <2>5, <3>2 DEF AgainCovered
  <2> QED BY <2>3, <2>4, <2>5
<1> QED BY <1>5, <1>6

(* ... or by the event loop.                                               *)
LEMMA AppEventLoopCovers ==
  ASSUME HangupsTold, Sound, WaitInvariant, AppEventLoop
  PROVE  Masks' /\ AgainCovered'
<1>1. /\ pc \in {"app", "again"} /\ pc' = pc /\ HasCallback /\ watch # {} /\ ~ Closing
      /\ watch \subseteq {"IN", "OUT"} /\ events \subseteq {"IN", "OUT"}
  BY DEF AppEventLoop, AppRuns, AroundCalls, WaitInvariant, EventsPolled, Closing
<1>2. PICK r \in Reported(watch) :
        \/ \E w \in {watch, watch \ r} : SetRevents(r, w)
        \/ drizzle_close
  BY DEF AppEventLoop
<1>3. /\ sock \in {"failed", "connected"} /\ r # {}
      /\ r \cap {"IN", "OUT"} \subseteq watch /\ r \subseteq {"IN", "OUT", "ERR"}
      /\ "IN" \in r => watch \subseteq r
      /\ sock = "failed" => watch \subseteq r /\ Top({"connect", "connecting"})
      /\ sock = "connected" => r \subseteq watch /\ ("IN" \in r => Readable)
                               /\ (Readable => r = watch)
  BY <1>1, Reports DEF WaitInvariant, Crossing, HangupsTold
<1>4. CASE drizzle_close
  <2>1. Masks'
    BY <1>4, MasksClose DEF WaitInvariant, Masks
  <2>2. sock' = "invalid"
    BY <1>4, CloseEmpties
  <2> QED BY <2>1, <2>2 DEF AgainCovered
<1>5. CASE \E w \in {watch, watch \ r} : SetRevents(r, w)
  <2>1. /\ revents' = r /\ events' = events \ r /\ watch' \in {watch, watch \ r, events}
        /\ UNCHANGED <<stack, sock, s2c, c2s, server>>
        /\ "OUT" \notin r \/ "OUT" \in events \/ watch' = events
    BY <1>1, <1>5 DEF SetRevents, UnwantedOut
  <2>2. (\A hs : Top(hs)' = Top(hs)) /\ Need' = Need /\ (Readable' <=> Readable)
        /\ (Closing' <=> Closing)
    <3>1. ~ Closing'
      BY <1>1 DEF Closing
    <3> QED BY <1>1, <2>1, <3>1 DEF Top, Need, Readable, HungUp
  <2>3. EventsPolled'
    <3>1. NonBlocking /\ "IN" \in events' => Top({"read"})'
      BY <2>1, <2>2 DEF WaitInvariant, EventsPolled
    <3> QED BY <1>1, <2>1, <3>1 DEF EventsPolled
  <2>4. ASSUME NonBlocking
        PROVE  LoopTold'
    <3>1. events \subseteq watch /\ events' \subseteq watch'
      BY <1>1, <2>1, <2>4 DEF WaitInvariant, LoopTold
    <3>2. /\ stack' = <<>> /\ sock' = "invalid" => events' = {}
          /\ Top({"addrinfo", "connect"})' /\ (~ Closing' \/ sock' = "invalid") => events' = {}
      BY <1>1, <2>1, <2>2, <2>4 DEF WaitInvariant, LoopTold
    <3>3. Top({"connecting"})' =>
            watch' \subseteq {"OUT"} /\ revents' \subseteq {"OUT", "ERR"}
            /\ (revents' # {} => events' = {})
      <4> SUFFICES ASSUME Top({"connecting"})
                   PROVE  watch' \subseteq {"OUT"} /\ r \subseteq {"OUT", "ERR"}
                          /\ events' = {}
        BY <2>1, <2>2
      <4>1. watch = {"OUT"} /\ events \subseteq {"OUT"}
        BY <1>1, <2>4, <3>1 DEF WaitInvariant, LoopTold
      <4>2. "OUT" \in r /\ "IN" \notin r
        BY <1>3, <4>1
      <4> QED BY <1>3, <2>1, <4>1, <4>2
    <3>4. "OUT" \in events' /\ "IN" \in watch' => "IN" \in events'
      BY <1>1, <1>3, <2>1, <2>4, <3>1 DEF WaitInvariant, LoopTold
    <3> QED BY <3>1, <3>2, <3>3, <3>4 DEF LoopTold
  <2>5. ASSUME pc = "again"
        PROVE  AgainCovered'
    <3>1. NonBlocking /\ events \subseteq watch /\ Need # {} /\ stack' # <<>>
      BY <1>1, <1>3, <2>1, <2>5 DEF WaitInvariant, Awaits, LoopTold, AgainCovered
    <3>2. Need \in {{"IN"}, {"OUT"}}
      BY <3>1 DEF Need
    <3>3. CASE Need = {"IN"}
      <4>1. sock = "connected"
        <5>1. ~ Top({"connect", "connecting"})
          BY <3>3 DEF Need, Top
        <5> QED BY <1>3, <5>1
      <4>2. ASSUME "IN" \in r
            PROVE  /\ Readable /\ events' = {} /\ Need \subseteq revents'
                   /\ watch' # {} => "IN" \in watch'
        <5>1. Readable /\ r = watch
          BY <1>3, <4>1, <4>2
        <5>2. events' = {} /\ watch' \in {watch, {}, events}
          BY <2>1, <3>1, <5>1
        <5>3. events # {} => "IN" \in events
          BY <1>3, <2>5, <3>3 DEF WaitInvariant, AgainCovered
        <5> QED BY <2>1, <3>3, <4>2, <5>1, <5>2, <5>3
      <4>3. "IN" \notin r => Need \subseteq events'
        BY <1>1, <1>3, <2>1, <2>5, <3>3, <4>1 DEF WaitInvariant, AgainCovered
      <4> QED BY <2>2, <3>1, <3>3, <4>2, <4>3 DEF AgainCovered
    <3>4. CASE Need = {"OUT"}
      <4>1. "IN" \notin events
        <5>1. ~ Top({"read"})
          BY <3>4 DEF Need, Top
        <5> QED BY <3>1, <5>1 DEF WaitInvariant, EventsPolled
      <4>2. watch = {"OUT"}
        <5>1. CASE "OUT" \in events
          BY <1>1, <3>1, <4>1, <5>1 DEF WaitInvariant, LoopTold
        <5>2. CASE "OUT" \notin events
          BY <1>1, <1>3, <2>5, <3>4, <5>2 DEF WaitInvariant, AgainCovered
        <5> QED BY <5>1, <5>2
      <4>3. "OUT" \in r
        BY <1>3, <4>2
      <4>4. events' = {} /\ Need \subseteq revents' /\ watch' \subseteq {"OUT"}
        BY <2>1, <3>1, <3>4, <4>2, <4>3
      <4> QED BY <2>2, <3>1, <3>4, <4>4 DEF AgainCovered
    <3> QED BY <3>2, <3>3, <3>4
  <2>6. pc # "again" => AgainCovered'
    BY <1>1 DEF AgainCovered
  <2>7. LoopTold'
    BY <2>4 DEF LoopTold
  <2> QED BY <2>3, <2>5, <2>6, <2>7 DEF Masks
<1> QED BY <1>2, <1>4, <1>5

(* A loop that still watches a closed descriptor is told so.               *)
LEMMA AppLoopStaleCovers ==
  ASSUME Sound, WaitInvariant, AppLoopStale
  PROVE  Masks' /\ AgainCovered'
<1>1. /\ sock = "invalid" /\ pc \in {"app", "again"} /\ SetRevents({"NVAL"}, watch)
  BY DEF AppLoopStale, AppRuns
<1>2. ~ UnwantedOut({"NVAL"})
  BY DEF UnwantedOut
<1>3. /\ revents' = {"NVAL"} /\ events' = events \ {"NVAL"} /\ watch' = watch
      /\ UNCHANGED <<stack, sock>>
  BY <1>1, <1>2 DEF SetRevents
<1>4. events' = events
  BY <1>3 DEF WaitInvariant, EventsPolled
<1>5. (\A hs : Top(hs)' = Top(hs)) /\ ~ Closing /\ ~ Top({"connecting"})
  BY <1>1, <1>3 DEF Top, Closing, WaitInvariant, FailedApart
<1>6. EventsPolled'
  BY <1>3, <1>4, <1>5 DEF WaitInvariant, EventsPolled
<1>7. LoopTold'
  BY <1>3, <1>4, <1>5 DEF WaitInvariant, LoopTold
<1>8. AgainCovered'
  BY <1>1, <1>3 DEF AgainCovered
<1> QED BY <1>6, <1>7, <1>8 DEF Masks

(* The ends of a call and of the socket, and the peer, ask for nothing.    *)
LEMMA EndMasks ==
  ASSUME Sound, WaitInvariant,
         \/ drizzle_wait \/ StateLoopStops \/ StateLoopEnds \/ QuitReturns
         \/ CallResultFree \/ CallClose \/ AppRests \/ PeerNext \/ UNCHANGED vars
  PROVE  Masks'
<1> USE DEF WaitInvariant
<1>1. CASE drizzle_wait
  <2>1. ~ NonBlocking
    BY <1>1 DEF drizzle_wait, Awaits
  <2>2. \/ UNCHANGED <<watch, events, revents>>
        \/ \E r : SetRevents(r, watch)
    BY <1>1 DEF drizzle_wait, WaitFails, ioVars, pollVars
  <2>3. EventsPolled'
    BY <2>1, <2>2 DEF SetRevents, UnwantedOut, EventsPolled
  <2> QED BY <2>1, <2>3 DEF Masks, LoopTold
<1>2. ASSUME UNCHANGED <<stack, watch, events, revents>>, sock' = "invalid" => sock = "invalid",
             ~ Closing \/ UNCHANGED <<pc, rc>>
      PROVE  Masks'
  <2>1. (\A hs : Top(hs)' = Top(hs)) /\ (~ Closing \/ (Closing' <=> Closing))
    BY <1>2 DEF Top, Closing
  <2>2. NonBlocking /\ "IN" \in events => Top({"read"})
    BY DEF EventsPolled
  <2> QED BY <1>2, <2>1, <2>2, MasksStand DEF Masks
<1>3. CASE drizzle_close
  BY <1>3, MasksClose DEF Masks
<1>4. CASE StateLoopStops
  <2>1. CASE rc \in {"IO_WAIT", "PAUSE", "ERROR_CODE"}
    <3>1. ~ Closing /\ UNCHANGED <<stack, watch, events, revents, sock>>
      BY <1>4, <2>1 DEF StateLoopStops, ioVars, pollVars, Closing, Resumable
    <3> QED BY <1>2, <3>1
  <2>2. CASE rc \notin {"IO_WAIT", "PAUSE", "ERROR_CODE"}
    BY <1>3, <1>4, <2>2 DEF StateLoopStops
  <2> QED BY <2>1, <2>2
<1>5. CASE StateLoopEnds \/ CallResultFree
  <2>1. ~ Closing /\ UNCHANGED <<stack, watch, events, revents, sock>>
    BY <1>5 DEF StateLoopEnds, CallResultFree, AppRuns, ApiOnly, ioVars, pollVars, Closing
  <2> QED BY <1>2, <2>1
<1>6. CASE QuitReturns \/ CallClose
  BY <1>3, <1>6 DEF QuitReturns, CallClose
<1>7. CASE AppRests \/ UNCHANGED vars
  BY <1>2, <1>7 DEF AppRests, vars, ioVars, pollVars
<1>8. CASE PeerNext
  <2>1. Library /\ UNCHANGED watch /\ (UNCHANGED sock \/ sock' \in {"connected", "failed"})
    BY <1>8 DEF PeerNext, KernelConnects, ServerGreets, ServerAuthenticates, ServerAnswers,
       ServerFails
  <2> QED BY <1>2, <2>1 DEF Library, pollVars
<1> QED BY <1>1, <1>4, <1>5, <1>6, <1>7, <1>8

----------------------------------------------------------------------------
(* What is waited for.                                                     *)

Awaiting == Awaits /\ AgainCovered

(* A step on which nothing begins to wait.                                 *)
LEMMA NoneAwaits ==
  ASSUME pc' \notin {"wait", "again"}, pc' \in {"stop", "leave"} => rc' # "IO_WAIT"
  PROVE  Awaiting'
BY DEF Awaiting, Awaits, AgainCovered, GaveUp

(* A handler that waits, for what it needs.                                *)
LEMMA WaitAwaits ==
  ASSUME pc = "loop", Need # {}, UNCHANGED inConnect, NEW rev,
         \/ WaitFor(Need, rev, Yield) /\ (NonBlocking \/ inConnect)
         \/ WaitFor(Need, rev, Block)
  PROVE  Awaiting'
<1>1. "IO_WAIT" \notin CallbackErrors
  BY ConfigAssumption DEF ConfigAssumption
<1>2. CASE \E code \in CallbackErrors : Return(code)
  BY <1>1, <1>2, NoneAwaits DEF Return
<1>3. CASE /\ SetEventsOk(Need) /\ UNCHANGED stack
           /\ (Yield /\ (NonBlocking \/ inConnect)) \/ Block
  <2>1. Need' = Need /\ Need \subseteq events'
    BY <1>3 DEF SetEventsOk, Need
  <2>2. \/ pc' = "stop" /\ rc' = "IO_WAIT" /\ (NonBlocking \/ inConnect)
        \/ pc' = "wait" /\ ~ NonBlocking
    BY <1>3 DEF Yield, Block, Return
  <2> QED BY <2>1, <2>2 DEF Awaiting, Awaits, AgainCovered, GaveUp
<1>4. CASE WaitFor(Need, rev, Yield) /\ (NonBlocking \/ inConnect)
  <2>1. \/ \E code \in CallbackErrors : Return(code)
        \/ SetEventsOk(Need) /\ UNCHANGED stack /\ Yield
    BY <1>4 DEF WaitFor
  <2> QED BY <1>2, <1>3, <1>4, <2>1
<1>5. CASE WaitFor(Need, rev, Block)
  <2>1. \/ \E code \in CallbackErrors : Return(code)
        \/ SetEventsOk(Need) /\ UNCHANGED stack /\ Block
    BY <1>5 DEF WaitFor
  <2> QED BY <1>2, <1>3, <2>1
<1> QED BY <1>4, <1>5

(* The handlers.                                                           *)
LEMMA HandlerAwaits ==
  ASSUME CallbackAccepts, Sound, Handler
  PROVE  Awaiting'
<1>1. CASE drizzle_state_addrinfo
  BY <1>1, NoneAwaits DEF drizzle_state_addrinfo, Running, Continue, Return
<1>2. CASE drizzle_state_connect
  <2>1. pc = "loop"
    BY <1>2 DEF drizzle_state_connect, Running
  <2> QED BY <1>2, <2>1, NoneAwaits
          DEF drizzle_state_connect, ConnectUds, NoAddressLeft, ConnectFails, ConnectAtOnce,
              ConnectRefused, ConnectInProgress, Continue, Return
<1>3. CASE drizzle_state_connecting
  <2>1. /\ pc = "loop" /\ stack # <<>> /\ Head(stack) = "connecting" /\ UNCHANGED inConnect
        /\ stack \in StackStates
    BY <1>3 DEF drizzle_state_connecting, Running, Others, callVars, Sound, StackInvariant,
       WellFormedStack
  <2>2. CASE WaitFor({"OUT"}, {}, Yield)
    <3>1. Need = {"OUT"}
      BY <2>1 DEF Need
    <3>2. Connecting
      BY <2>1, Shapes DEF Connecting, ConnectStates
    <3>3. inConnect
      BY <2>1, <3>2 DEF Sound, PacketInvariant, CallsMatch, InCall
    <3> QED BY <2>1, <2>2, <3>1, <3>3, WaitAwaits
  <2>3. CASE ~ WaitFor({"OUT"}, {}, Yield)
    <3>1. pc' = "loop" \/ (pc' = "stop" /\ rc' = "INTERNAL_ERROR")
      BY <1>3, <2>1, <2>3 DEF drizzle_state_connecting, TryNextAddress, Continue, Return
    <3> QED BY <3>1, NoneAwaits
  <2> QED BY <2>2, <2>3
<1>4. CASE drizzle_state_read
  <2>1. pc = "loop" /\ stack # <<>> /\ Head(stack) = "read" /\ UNCHANGED inConnect
    BY <1>4 DEF drizzle_state_read, Running, Others, callVars
  <2>2. Need = {"IN"}
    BY <2>1 DEF Need
  <2>3. CASE ReadWaitsForPoll
    BY <2>1, <2>2, <2>3, WaitAwaits DEF ReadWaitsForPoll
  <2>4. CASE ReadWouldBlock
    BY <2>1, <2>2, <2>4, WaitAwaits DEF ReadWouldBlock
  <2>5. CASE ReadSome \/ ReadRefused \/ ReadFails
    <3>1. pc' = "loop" \/ (pc' = "stop" /\ rc' # "IO_WAIT")
      BY <2>1, <2>5 DEF ReadSome, ReadRefused, ReadFails, Continue, Return, Lost
    <3> QED BY <3>1, NoneAwaits
  <2> QED BY <1>4, <2>3, <2>4, <2>5 DEF drizzle_state_read
<1>5. CASE drizzle_state_write
  <2>1. pc = "loop" /\ stack # <<>> /\ Head(stack) = "write" /\ UNCHANGED inConnect
    BY <1>5 DEF drizzle_state_write, Running, Others, callVars
  <2>2. Need = {"OUT"}
    BY <2>1 DEF Need
  <2>3. CASE WriteWouldBlock
    BY <2>1, <2>2, <2>3, WaitAwaits DEF WriteWouldBlock
  <2>4. CASE ~ WriteWouldBlock
    <3>1. pc' = "loop" \/ (pc' = "stop" /\ rc' # "IO_WAIT")
      BY <1>5, <2>1, <2>4 DEF drizzle_state_write, WriteSome, WriteFails, Continue, Return, Lost
    <3> QED BY <3>1, NoneAwaits
  <2> QED BY <2>3, <2>4
<1>6. CASE Works
  BY <1>6, NoneAwaits DEF Works
<1> QED BY <1>1, <1>2, <1>3, <1>4, <1>5, <1>6, PacketReadWorks, HandshakeWorks, ReplyWorks
        DEF Handler

(* The end of drizzle_state_loop, and of the functions that called it.     *)
LEMMA EndAwaits ==
  ASSUME Disciplined, Sound, Awaiting,
         \/ drizzle_wait \/ StateLoopStops \/ StateLoopEnds \/ QuitReturns
         \/ CallResultFree \/ CallClose \/ AppRests \/ UNCHANGED vars
  PROVE  Awaiting'
<1>1. CASE drizzle_wait
  BY <1>1, NoneAwaits DEF drizzle_wait, WaitFails
<1>2. CASE StateLoopStops
  <2>1. CASE rc = "IO_WAIT"
    <3>1. pc = "stop" /\ pc' = "leave" /\ UNCHANGED <<stack, events, rc, inConnect>>
      BY <1>2, <2>1 DEF StateLoopStops, pollVars, callVars
    <3> QED BY <2>1, <3>1 DEF Awaiting, Awaits, AgainCovered, GaveUp, Need
  <2>2. CASE rc # "IO_WAIT"
    BY <1>2, <2>2, NoneAwaits DEF StateLoopStops
  <2> QED BY <2>1, <2>2
<1>3. CASE StateLoopEnds
  BY <1>3, NoneAwaits DEF StateLoopEnds
<1>4. CASE QuitReturns \/ CallClose \/ CallResultFree
  BY <1>4, NoneAwaits DEF QuitReturns, CallClose, CallResultFree
<1>5. CASE AppRests \/ UNCHANGED vars
  BY <1>5 DEF AppRests, vars, ioVars, pollVars, callVars, Awaiting, Awaits, AgainCovered,
     GaveUp, Need, Readable, HungUp
<1> QED BY <1>1, <1>2, <1>3, <1>4, <1>5

(* A call that returns IO_WAIT has asked for what its handler needs.       *)
LEMMA ApiAwaits ==
  ASSUME Sound, Awaiting, ApiMoves
  PROVE  Awaiting'
<1>1. CASE pc' \in {"again", "wait"}
  <2>1. GaveUp /\ stack' = stack /\ events' = events /\ stack # <<>>
    BY <1>1 DEF ApiMoves, GaveUp, Sound, SessionInvariant, CodesMean
  <2>2. Need' = Need /\ Need # {} /\ Need \subseteq events' /\ (NonBlocking \/ inConnect)
    BY <2>1 DEF Awaiting, Awaits, Need
  <2>3. (pc' = "wait" => ~ NonBlocking) /\ (pc' = "again" => NonBlocking)
    BY <2>2 DEF ApiMoves
  <2> QED BY <1>1, <2>1, <2>2, <2>3 DEF Awaiting, Awaits, AgainCovered, GaveUp
<1>2. CASE pc' \notin {"again", "wait"}
  BY <1>2, NoneAwaits DEF ApiMoves
<1> QED BY <1>1, <1>2

(* While something can be read the server says no more, but may hang up.   *)
LEMMA PeerAwaits ==
  ASSUME Sound, Crossing, Awaiting, PeerNext
  PROVE  Awaiting'
<1>1. /\ UNCHANGED <<stack, events, revents, pc, rc, inConnect, watch>>
      /\ sock = "invalid" => sock' = "invalid"
  BY DEF PeerNext, KernelConnects, ServerGreets, ServerAuthenticates, ServerAnswers,
     ServerFails, Library, pollVars, callVars
<1>2. Need' = Need
  BY <1>1 DEF Need
<1>3. ASSUME pc = "again", Readable
      PROVE  Readable'
  <2>1. ~ Closing
    BY <1>3 DEF Closing
  <2>2. ~ KernelConnects
    BY <1>3 DEF KernelConnects, Readable
  <2>3. ~ ServerGreets
    BY <1>3 DEF ServerGreets, Readable, HungUp, Sound, SessionInvariant, RepliesFollow
  <2>4. ~ ServerAuthenticates /\ ~ ServerAnswers
    BY <1>3, <2>1 DEF ServerAuthenticates, ServerAnswers, Readable, HungUp, Crossing, Uncrossed
  <2>5. ServerFails
    BY <2>2, <2>3, <2>4 DEF PeerNext
  <2> QED BY <1>3, <2>5 DEF ServerFails, Readable, HungUp
<1>4. Awaits'
  BY <1>1, <1>2 DEF Awaiting, Awaits, GaveUp
<1>5. AgainCovered'
  <2> SUFFICES ASSUME pc = "again", sock # "invalid"
               PROVE  /\ stack # <<>> /\ Need # {}
                      /\ \/ Need \subseteq events
                         \/ /\ Need \subseteq revents /\ events = {}
                            /\ Need = {"IN"} => Readable' /\ (watch # {} => "IN" \in watch)
                            /\ Need = {"OUT"} => watch \subseteq {"OUT"}
    BY <1>1, <1>2 DEF AgainCovered
  <2> QED BY <1>3 DEF Awaiting, AgainCovered
<1> QED BY <1>4, <1>5 DEF Awaiting

----------------------------------------------------------------------------
(* The theorems.                                                           *)

(* A connection object wants nothing.                                      *)
LEMMA WaitStarts == Init => WaitInvariant
<1> SUFFICES ASSUME Init PROVE WaitInvariant
  OBVIOUS
<1>1. /\ stack = <<>> /\ sock = "invalid" /\ pc = "app" /\ s2c = <<>> /\ c2s = <<>>
      /\ events = {} /\ revents = {} /\ watch = {} /\ rc = "OK"
  BY DEF Init
<1>2. \A hs : ~ Top(hs)
  BY <1>1 DEF Top
<1> QED
  BY <1>1, <1>2 DEF WaitInvariant, EventsPolled, Awaits, GaveUp, FailedApart, Uncrossed,
     LoopTold, AgainCovered

(* Every step preserves the invariant.                                     *)
LEMMA WaitNext ==
  ASSUME OrderlyUse, HangupsTold, Sound, WaitInvariant, [Next]_vars
  PROVE  WaitInvariant'
<1> USE DEF OrderlyUse
<1>1. Crossing /\ Masks /\ Awaiting
  BY DEF WaitInvariant, Crossing, Masks, Awaiting
<1>2. Crossing'
  BY <1>1, CrossingNext DEF Awaiting
<1>3. Masks' /\ Awaiting'
  <2>1. CASE Handler
    <3>1. Masks'
      BY <1>1, <2>1, AddrinfoMasks, ConnectMasks, ConnectingMasks, ReadMasks, WriteMasks,
         PacketReadWorks, HandshakeWorks, ReplyWorks, WorkMasks DEF Handler
    <3> QED BY <2>1, <3>1, HandlerAwaits
  <2>2. CASE \/ ConnectReturns \/ CommandReturns \/ ColumnsReturn \/ SkipReturns \/ RowReturns
             \/ Call
    <3>1. ApiMoves
      BY <1>1, <2>2, ReturnMoves, CallMoves DEF Awaiting
    <3> QED BY <1>1, <3>1, ApiMasks, ApiAwaits
  <2>3. CASE \/ drizzle_wait \/ StateLoopStops \/ StateLoopEnds \/ QuitReturns
             \/ CallResultFree \/ CallClose \/ AppRests \/ UNCHANGED vars
    BY <1>1, <2>3, EndMasks, EndAwaits
  <2>4. CASE PeerNext
    BY <1>1, <2>4, EndMasks, PeerAwaits
  <2>5. CASE LoopNext
    <3>1. Masks' /\ AgainCovered'
      BY <2>5, AppWaitCovers, AppEventLoopCovers, AppLoopStaleCovers DEF LoopNext
    <3>2. Awaits'
      <4>1. pc \in {"app", "again"} /\ pc' = pc
        BY <2>5 DEF LoopNext, AppWait, AppEventLoop, AppLoopStale, AppRuns, AroundCalls
      <4> QED BY <1>1, <4>1 DEF Awaiting, Awaits, GaveUp
    <3> QED BY <3>1, <3>2 DEF Awaiting
  <2> QED BY <2>1, <2>2, <2>3, <2>4, <2>5 DEF Next, LibraryNext, AppNext
<1> QED BY <1>2, <1>3 DEF WaitInvariant, Crossing, Masks, Awaiting

(* In an orderly use, with an event loop that is told of a hang-up as soon *)
(* as the socket can be written to: the masks of the connection and of the *)
(* loop go together with what the handlers need and what has arrived.      *)
THEOREM WaitIsInvariant ==
  ASSUME OrderlyUse, HangupsTold
  PROVE  Spec => []WaitInvariant
<1>1. Init => WaitInvariant
  BY WaitStarts
<1>2. Sound /\ WaitInvariant /\ [Next]_vars => WaitInvariant'
  BY WaitNext
<1>3. Spec => []SessionInvariant
  BY SessionIsInvariant DEF OrderlyUse
<1> QED BY <1>1, <1>2, <1>3, StackIsInvariant, PacketIsInvariant, PTL DEF Spec, Sound

(* Whoever waits, in drizzle_wait or between two calls, waits for an event *)
(* that the handler on top of the stack goes on with.                      *)
THEOREM WaitsAreForNeeds ==
  ASSUME OrderlyUse, HangupsTold
  PROVE  Spec => []WaitsForWhatItNeeds
<1>1. SessionInvariant /\ WaitInvariant => WaitsForWhatItNeeds
  <2> SUFFICES ASSUME SessionInvariant, WaitInvariant,
                      pc = "wait" \/ (pc = "again" /\ rc = "IO_WAIT" /\ sock # "invalid")
               PROVE  stack # <<>> /\ Need # {} /\ Need \subseteq events \cup revents
    BY DEF WaitsForWhatItNeeds
  <2>1. Need # {} /\ Need \subseteq events \cup revents
    BY DEF WaitInvariant, Awaits, AgainCovered
  <2>2. stack # <<>>
    BY DEF SessionInvariant, CodesMean, WaitInvariant, AgainCovered
  <2> QED BY <2>1, <2>2
<1>2. Spec => []SessionInvariant
  BY SessionIsInvariant DEF OrderlyUse
<1> QED BY <1>1, <1>2, WaitIsInvariant, PTL

(* The event loop that event_watch_fn instructs watches every event that   *)
(* drizzle_set_events asked for and that was not reported yet.             *)
THEOREM LoopsWatchAll ==
  ASSUME OrderlyUse, HangupsTold
  PROVE  Spec => []WatchCovers
<1>1. WaitInvariant => WatchCovers
  BY DEF WaitInvariant, Awaits, LoopTold, WatchCovers
<1> QED BY <1>1, WaitIsInvariant, PTL

=============================================================================
