----------------------------- MODULE DrizzleProofs -----------------------------
(***************************************************************************)
(* Proofs that StackInvariant is inductive, and of what follows from it;   *)
(* and that SessionInvariant is inductive with it, when the callback does  *)
(* not refuse the mask of a TCP connection: a connection starts from       *)
(* nothing, is ready only when the server has authenticated the client,    *)
(* and a failure leaves nothing.                                           *)
(***************************************************************************)
EXTENDS DrizzleProperties, SequenceTheorems, TLAPS

----------------------------------------------------------------------------
(* Pushing on a sequence.                                                  *)

(* An element put in front of a sequence is its head, the rest its tail.   *)
LEMMA Extend ==
  ASSUME NEW H, NEW a \in H, NEW s \in Seq(H)
  PROVE  /\ <<a>> \o s \in Seq(H) /\ <<a>> \o s # <<>>
         /\ Head(<<a>> \o s) = a /\ Tail(<<a>> \o s) = s
<1>1. <<a>> \in Seq(H) /\ Len(<<a>>) = 1 /\ <<a>>[1] = a
  OBVIOUS
<1>2. /\ <<a>> \o s \in Seq(H)
      /\ Len(<<a>> \o s) = 1 + Len(s)
      /\ \A i \in 1..(1 + Len(s)) :
           (<<a>> \o s)[i] = IF i <= 1 THEN <<a>>[i] ELSE s[i - 1]
  BY <1>1, ConcatProperties
<1>3. <<a>> \o s # <<>> /\ (<<a>> \o s)[1] = a
  BY <1>1, <1>2, LenProperties
<1>4. /\ Head(<<a>> \o s) = a
      /\ Tail(<<a>> \o s) \in Seq(H) /\ Len(Tail(<<a>> \o s)) = Len(s)
      /\ \A i \in 1..Len(s) : Tail(<<a>> \o s)[i] = (<<a>> \o s)[i + 1]
  BY <1>2, <1>3, HeadTailProperties
<1>5. \A i \in 1..Len(s) : Tail(<<a>> \o s)[i] = s[i]
  BY <1>2, <1>4
<1> QED
  BY <1>2, <1>3, <1>4, <1>5, SeqEqual

(* A non-empty sequence is determined by its head and its tail.            *)
LEMMA SameEnds ==
  ASSUME NEW H, NEW s \in Seq(H), NEW t \in Seq(H), s # <<>>, t # <<>>,
         Head(s) = Head(t), Tail(s) = Tail(t)
  PROVE  s = t
<1>1. Len(s) = Len(t)
  BY HeadTailProperties
<1>2. ASSUME NEW i \in 1..Len(s) PROVE s[i] = t[i]
  <2>1. CASE i = 1
    BY <2>1, HeadTailProperties
  <2>2. CASE i # 1
    <3>1. i - 1 \in 1..Len(Tail(s)) /\ i - 1 \in 1..Len(Tail(t))
      BY <1>1, <2>2, HeadTailProperties
    <3>2. Tail(s)[i - 1] = s[i] /\ Tail(t)[i - 1] = t[i]
      BY <3>1, HeadTailProperties
    <3> QED BY <3>2
  <2> QED BY <2>1, <2>2
<1> QED BY <1>1, <1>2, SeqEqual

(* A state pushed on a stack of one or two states.                         *)
LEMMA Extensions ==
  ASSUME NEW a \in Handlers, NEW b \in Handlers, NEW c \in Handlers
  PROVE  <<a>> \o <<b>> = <<a, b>> /\ <<a>> \o <<b, c>> = <<a, b, c>>
<1>1. /\ <<b>> \in Seq(Handlers) /\ <<b, c>> \in Seq(Handlers)
      /\ <<a, b>> \in Seq(Handlers) /\ <<a, b, c>> \in Seq(Handlers)
  OBVIOUS
<1>2. <<a>> \o <<b>> = <<a, b>>
  <2>1. /\ <<a>> \o <<b>> \in Seq(Handlers) /\ <<a>> \o <<b>> # <<>>
        /\ Head(<<a>> \o <<b>>) = a /\ Tail(<<a>> \o <<b>>) = <<b>>
    BY <1>1, Extend
  <2>2. Head(<<a, b>>) = a /\ Tail(<<a, b>>) = <<b>> /\ <<a, b>> # <<>>
    OBVIOUS
  <2> QED BY <1>1, <2>1, <2>2, SameEnds, Zenon
<1>3. <<a>> \o <<b, c>> = <<a, b, c>>
  <2>1. /\ <<a>> \o <<b, c>> \in Seq(Handlers) /\ <<a>> \o <<b, c>> # <<>>
        /\ Head(<<a>> \o <<b, c>>) = a /\ Tail(<<a>> \o <<b, c>>) = <<b, c>>
    BY <1>1, Extend
  <2>2. /\ Head(<<a, b, c>>) = a /\ Tail(<<a, b, c>>) = <<b, c>>
        /\ <<a, b, c>> # <<>>
    OBVIOUS
  <2> QED BY <1>1, <2>1, <2>2, SameEnds, Zenon
<1> QED BY <1>2, <1>3

(* States pushed on the empty stack.                                       *)
LEMMA OnEmpty ==
  ASSUME NEW s \in Seq(Handlers)
  PROVE  s \o <<>> = s
BY ConcatEmptySeq

(* The shapes of WellFormedStack are stacks of at most four states.        *)
LEMMA ShapesTyped ==
  ASSUME NEW s \in StackStates \cup RefusedStates
  PROVE  s \in Seq(Handlers) /\ Len(s) <= 4
<1> DEFINE Fits(t) == t \in Seq(Handlers) /\ Len(t) <= 4
<1>1. /\ "write" \in Handlers /\ "read" \in Handlers /\ "packet_read" \in Handlers
      /\ "connect" \in Handlers /\ "connecting" \in Handlers
      /\ "addrinfo" \in Handlers /\ "command_write" \in Handlers
      /\ "handshake_client_write" \in Handlers
      /\ \A h \in Parsers : h \in Handlers
  BY DEF Parsers, Handlers
<1>2. ASSUME NEW h \in Parsers
      PROVE  /\ Fits(<<h>>) /\ Fits(<<"packet_read", h>>)
             /\ Fits(<<"read", "packet_read", h>>)
             /\ Fits(<<"connect", "packet_read", h>>)
             /\ Fits(<<"connecting", "packet_read", h>>)
             /\ Fits(<<"addrinfo", "connect", "packet_read", h>>)
             /\ Fits(<<"write", "packet_read", h>>)
             /\ Fits(<<"handshake_client_write", "write", "packet_read", h>>)
             /\ Fits(<<"read", h>>) /\ Fits(<<"connect", h>>)
  BY <1>1
<1>3. /\ Fits(<<>>) /\ Fits(<<"connect">>) /\ Fits(<<"connecting">>)
      /\ Fits(<<"command_write">>) /\ Fits(<<"write">>)
      /\ Fits(<<"write", "command_write">>)
  BY <1>1
<1> HIDE DEF Fits
<1>4. ASSUME NEW h \in Parsers, s \in ReaderStates(h)
      PROVE  Fits(s)
  BY <1>2, <1>4 DEF ReaderStates
<1>5. "handshake_server_read" \in Parsers /\ "handshake_result_read" \in Parsers
      /\ "result_read" \in Parsers /\ "column_read" \in Parsers
      /\ "row_read" \in Parsers /\ "field_read" \in Parsers
  BY DEF Parsers
<1>6. s \in ConnectStates => Fits(s)
  BY <1>2, <1>3, <1>5 DEF ConnectStates
<1>7. s \in HandshakeStates => Fits(s)
  BY <1>2, <1>4, <1>5 DEF HandshakeStates
<1>8. s \in CommandStates => Fits(s)
  BY <1>2, <1>3, <1>4, <1>5 DEF CommandStates
<1>9. s \in RefusedStates => Fits(s)
  BY <1>2, <1>5 DEF RefusedStates
<1>10. Fits(s)
  BY <1>2, <1>3, <1>4, <1>5, <1>6, <1>7, <1>8, <1>9 DEF StackStates
<1> QED BY <1>10 DEF Fits

(* Which shapes have which handler on top.                                 *)
LEMMA Shapes ==
  ASSUME stack \in StackStates, stack # <<>>
  PROVE  /\ Head(stack) = "addrinfo" =>
              stack = <<"addrinfo", "connect", "packet_read", "handshake_server_read">>
         /\ \A h \in {"connect", "connecting"} : Head(stack) = h =>
              stack \in {<<h>>, <<h, "packet_read", "handshake_server_read">>}
         /\ Head(stack) = "read" =>
              stack \in {<<"read", "packet_read", h>> : h \in Parsers \ {"field_read"}}
                        \cup {<<"read", "field_read">>}
         /\ Head(stack) = "write" =>
              stack \in {<<"write">>, <<"write", "command_write">>,
                         <<"write", "packet_read", "result_read">>,
                         <<"write", "packet_read", "handshake_result_read">>}
         /\ Head(stack) = "packet_read" =>
              stack \in {<<"packet_read", h>> : h \in Parsers \ {"field_read"}}
         /\ Head(stack) = "handshake_client_write" =>
              stack = <<"handshake_client_write", "write", "packet_read", "handshake_result_read">>
         /\ \A h \in Parsers \cup {"command_write"} : Head(stack) = h => stack = <<h>>
  BY DEF StackStates, ConnectStates, HandshakeStates, ReaderStates, CommandStates, Parsers

----------------------------------------------------------------------------
(* The calls that handlers have in common.                                 *)

(* drizzle_close keeps the types and leaves nothing on the stack, unless   *)
(* there was no socket to close, in which case it leaves all as it is.     *)
LEMMA Close ==
  ASSUME ConnectionTypeOK, PeerTypeOK, drizzle_close
  PROVE  /\ sock' = "invalid" /\ ready' \in BOOLEAN
         /\ events' \subseteq Poll /\ revents' \subseteq Poll /\ watch' \subseteq Poll
         /\ packet_number' \in 0..(PacketMod - 1) /\ buf' \in Seq(Units)
         /\ s2c' \in Seq(Units) /\ c2s' \in Seq(Units) /\ server' \in Servers
         /\ \/ stack' = <<>>
            \/ sock = "invalid" /\ stack' = stack /\ buf' = buf
<1>1. CASE sock = "invalid"
  <2>1. UNCHANGED <<stack, sock, watch, s2c, c2s, server, ready, packet_number,
                    events, revents, buf>>
    BY <1>1 DEF drizzle_close, ioVars, conVars, pollVars
  <2> QED BY <1>1, <2>1 DEF ConnectionTypeOK, PeerTypeOK
<1>2. CASE sock # "invalid"
  <2>1. /\ sock' = "invalid" /\ ready' = FALSE /\ events' = {} /\ revents' = {}
        /\ watch' = {} /\ packet_number' = 0 /\ buf' = <<>> /\ s2c' = <<>>
        /\ c2s' = <<>> /\ server' = "none" /\ stack' = <<>>
    BY <1>2 DEF drizzle_close, Hangup, Reset
  <2>2. <<>> \in Seq(Units) /\ 0 \in 0..(PacketMod - 1) /\ "none" \in Servers
    BY ConfigAssumption DEF ConfigAssumption, Servers
  <2> QED BY <2>1, <2>2
<1> QED BY <1>1, <1>2

(* A handler that waits leaves everything but the masks as it is, unless   *)
(* the callback refuses, which closes the connection.                      *)
LEMMA Waits ==
  ASSUME NEW ev \in SUBSET Poll, NEW rev \in SUBSET Poll,
         ConnectionTypeOK, PeerTypeOK, CallTypeOK,
         WaitFor(ev, rev, Yield) \/ WaitFor(ev, rev, Block),
         UNCHANGED <<packet_size, addrinfo_next, faults, connects, callVars, appVars>>
  PROVE  /\ ConnectionTypeOK' /\ PeerTypeOK' /\ CallTypeOK'
         /\ \/ /\ stack' = stack /\ buf' = buf /\ sock' = sock
               /\ \/ pc' = "stop" /\ rc' = "IO_WAIT"
                  \/ pc' = "wait" /\ rc' = rc
            \/ /\ sock' = "invalid" /\ pc' = "stop" /\ rc' \in {"PAUSE", "ERRNO"}
               /\ \/ stack' = <<>>
                  \/ sock = "invalid" /\ stack' = stack /\ buf' = buf
<1>0. UNCHANGED <<op, inConnect, skipped, stage, commands>>
  BY DEF callVars, appVars
<1>1. CASE /\ SetEventsOk(ev) /\ revents' = rev
           /\ Yield \/ Block
           /\ UNCHANGED <<stack, sock, s2c, c2s, server, conVars, buf>>
  <2>1. /\ events' \subseteq Poll /\ revents' \subseteq Poll /\ watch' \subseteq Poll
    BY <1>1 DEF SetEventsOk, ConnectionTypeOK, PeerTypeOK
  <2>2. ready' = ready /\ packet_number' = packet_number
    BY <1>1 DEF conVars
  <2>3. \/ pc' = "stop" /\ rc' = "IO_WAIT"
        \/ pc' = "wait" /\ rc' = rc
    BY <1>1 DEF Yield, Block, Return
  <2>4. ConnectionTypeOK' /\ PeerTypeOK'
    BY <1>1, <2>1, <2>2 DEF ConnectionTypeOK, PeerTypeOK
  <2>5. CallTypeOK'
    BY <1>0, <2>3 DEF CallTypeOK, Codes
  <2> QED BY <1>1, <2>3, <2>4, <2>5
<1>2. ASSUME NEW code \in CallbackErrors, drizzle_close, Return(code)
      PROVE  /\ ConnectionTypeOK' /\ PeerTypeOK' /\ CallTypeOK'
             /\ sock' = "invalid" /\ pc' = "stop" /\ rc' \in {"PAUSE", "ERRNO"}
             /\ \/ stack' = <<>>
                \/ sock = "invalid" /\ stack' = stack /\ buf' = buf
  <2>1. code \in {"PAUSE", "ERRNO"} /\ pc' = "stop" /\ rc' = code
    BY <1>2, ConfigAssumption DEF ConfigAssumption, Return
  <2>2. /\ sock' = "invalid" /\ ready' \in BOOLEAN
        /\ events' \subseteq Poll /\ revents' \subseteq Poll /\ watch' \subseteq Poll
        /\ packet_number' \in 0..(PacketMod - 1) /\ buf' \in Seq(Units)
        /\ s2c' \in Seq(Units) /\ c2s' \in Seq(Units) /\ server' \in Servers
        /\ \/ stack' = <<>>
           \/ sock = "invalid" /\ stack' = stack /\ buf' = buf
    BY <1>2, Close
  <2>3. ConnectionTypeOK' /\ PeerTypeOK'
    BY <2>2 DEF ConnectionTypeOK, PeerTypeOK, Sockets
  <2>4. CallTypeOK'
    BY <1>0, <2>1 DEF CallTypeOK, Codes
  <2> QED BY <2>1, <2>2, <2>3, <2>4
<1> QED BY <1>1, <1>2 DEF WaitFor

(* What remains to be shown of a step that keeps the types of all fields.  *)
LEMMA Conclude ==
  ASSUME WellFormedStack', ConnectionTypeOK', CommandTypeOK', CallTypeOK',
         PeerTypeOK', LoopOutcome', ParserHasPacket', AddressKept', CommandLeft'
  PROVE  StackInvariant'
<1>1. stack' \in Seq(Handlers)
  BY ShapesTyped DEF WellFormedStack
<1> QED BY <1>1 DEF StackInvariant, TypeOK

(* A handler on top waits.                                                 *)
LEMMA WaitStep ==
  ASSUME StackInvariant, pc = "loop", Top({"read", "write", "connecting"}),
         UNCHANGED <<packet_size, addrinfo_next>>,
         CommandLeft', CommandTypeOK',
         ConnectionTypeOK', PeerTypeOK', CallTypeOK',
         \/ /\ stack' = stack /\ buf' = buf /\ sock' = sock
            /\ \/ pc' = "stop" /\ rc' = "IO_WAIT"
               \/ pc' = "wait" /\ rc' = rc
         \/ /\ sock' = "invalid" /\ pc' = "stop" /\ rc' \in {"PAUSE", "ERRNO"}
            /\ \/ stack' = <<>>
               \/ sock = "invalid" /\ stack' = stack /\ buf' = buf
  PROVE  StackInvariant'
<1> USE DEF StackInvariant
<1>1. stack \in StackStates /\ <<>> \in StackStates /\ <<>> \notin RefusedStates
  BY DEF WellFormedStack, StackStates, RefusedStates
<1>2. stack \notin RefusedStates
  BY DEF RefusedStates, Top
<1>3. WellFormedStack'
  BY <1>1 DEF WellFormedStack
<1>4. LoopOutcome'
  BY <1>1, <1>2 DEF LoopOutcome
<1>5. ParserHasPacket'
  BY DEF ParserHasPacket, Top, Parsers
<1>6. AddressKept'
  BY DEF AddressKept, Top, Resumable
<1> QED BY <1>3, <1>4, <1>5, <1>6, Conclude

(* drizzle_state_read: waits above the handler that asked for data, or     *)
(* gives way to it, or puts drizzle_state_connect in its own place when    *)
(* refused.                                                                *)
LEMMA ReadStep ==
  ASSUME StackInvariant, drizzle_state_read
  PROVE  StackInvariant'
<1> USE DEF StackInvariant
<1>1. /\ pc = "loop" /\ stack # <<>> /\ Head(stack) = "read"
      /\ stack \in {<<"read", "packet_read", h>> : h \in Parsers \ {"field_read"}}
                   \cup {<<"read", "field_read">>}
  BY Shapes DEF drizzle_state_read, Running, WellFormedStack
<1>20. Tail(stack) \in {<<"packet_read", h>> : h \in Parsers \ {"field_read"}}
                       \cup {<<"field_read">>}
  <2>1. CASE stack = <<"read", "field_read">>
    BY <2>1
  <2>2. ASSUME NEW h \in Parsers \ {"field_read"}, stack = <<"read", "packet_read", h>>
        PROVE  Tail(stack) = <<"packet_read", h>>
    BY <2>2
  <2> QED BY <1>1, <2>1, <2>2
<1>2. /\ UNCHANGED <<packet_size, connects, result, command>>
      /\ UNCHANGED <<op, inConnect, skipped, stage, commands>>
      /\ UNCHANGED <<callVars, appVars>>
  BY DEF drizzle_state_read, Others, cmdVars, callVars, appVars
<1>3. CommandTypeOK' /\ CommandLeft'
  BY <1>2 DEF TypeOK, CommandTypeOK, CommandLeft
<1>4. addrinfo_next = 0 \/ sock = "invalid"
  BY <1>1 DEF AddressKept, Top
<1>5. CASE ReadWaitsForPoll \/ ReadWouldBlock
  <2>1. UNCHANGED <<faults, addrinfo_next>>
    BY <1>5 DEF ReadWaitsForPoll, ReadWouldBlock, NoFault
  <2>2. PICK rev \in SUBSET Poll :
          WaitFor({"IN"}, rev, Yield) \/ WaitFor({"IN"}, rev, Block)
    BY <1>5 DEF ReadWaitsForPoll, ReadWouldBlock, TypeOK, ConnectionTypeOK
  <2>3. {"IN"} \in SUBSET Poll
    BY DEF Poll
  <2>4. /\ ConnectionTypeOK' /\ PeerTypeOK' /\ CallTypeOK'
        /\ \/ /\ stack' = stack /\ buf' = buf /\ sock' = sock
              /\ \/ pc' = "stop" /\ rc' = "IO_WAIT"
                 \/ pc' = "wait" /\ rc' = rc
           \/ /\ sock' = "invalid" /\ pc' = "stop" /\ rc' \in {"PAUSE", "ERRNO"}
              /\ \/ stack' = <<>>
                 \/ sock = "invalid" /\ stack' = stack /\ buf' = buf
    BY <1>2, <2>1, <2>2, <2>3, Waits DEF TypeOK
  <2> QED BY <1>1, <1>2, <1>3, <2>1, <2>4, WaitStep DEF Top
<1>6. CASE ReadSome
  <2>1. /\ stack' \in {<<"packet_read", h>> : h \in Parsers \ {"field_read"}}
                      \cup {<<"field_read">>}
        /\ pc' = "loop" /\ rc' = rc
    BY <1>1, <1>6, <1>20 DEF ReadSome, Pop, Continue
  <2>2. /\ UNCHANGED <<addrinfo_next, sock, watch, c2s, server, ready,
                       packet_number, events, faults>>
        /\ revents' \subseteq Poll
    BY <1>6 DEF ReadSome, conVars, NoFault, TypeOK, ConnectionTypeOK
  <2>3. buf' \in Seq(Units) /\ s2c' \in Seq(Units)
    <3>1. buf \in Seq(Units) /\ s2c \in Seq(Units)
      BY DEF TypeOK, ConnectionTypeOK, PeerTypeOK
    <3>2. PICK n \in 1..Len(s2c) :
            /\ buf' = buf \o SubSeq(s2c, 1, n)
            /\ s2c' = SubSeq(s2c, n + 1, Len(s2c))
      BY <1>6 DEF ReadSome
    <3>3. SubSeq(s2c, 1, n) \in Seq(Units) /\ SubSeq(s2c, n + 1, Len(s2c)) \in Seq(Units)
      BY <3>1, SubSeqProperties
    <3> QED BY <3>1, <3>2, <3>3, ConcatProperties
  <2>4. ConnectionTypeOK' /\ PeerTypeOK' /\ CallTypeOK'
    BY <1>2, <2>1, <2>2, <2>3 DEF TypeOK, ConnectionTypeOK, PeerTypeOK, CallTypeOK
  <2>5. WellFormedStack'
    BY <2>1 DEF WellFormedStack, StackStates, ConnectStates, HandshakeStates,
       ReaderStates, CommandStates, Parsers
  <2>6. ParserHasPacket' /\ AddressKept' /\ LoopOutcome'
    BY <1>4, <2>1, <2>2 DEF ParserHasPacket, AddressKept, LoopOutcome, Top, Parsers
  <2> QED BY <1>3, <2>4, <2>5, <2>6, Conclude
<1>7. CASE ReadRefused
  <2>1. addrinfo_next = 0 /\ sock # "invalid"
    BY <1>4, <1>7 DEF ReadRefused
  <2>2. /\ stack' = <<"connect">> \o Tail(stack)
        /\ pc' = "stop" /\ rc' = "COULD_NOT_CONNECT"
        /\ UNCHANGED <<addrinfo_next, sock, watch, s2c, c2s, server, ready,
                       packet_number, events, buf>>
        /\ revents' = {} /\ faults' = faults + 1
    BY <1>7, <2>1 DEF ReadRefused, Replace, Return, ioVars, conVars, Fault
  <2>3. stack' \in {<<"connect", "packet_read", h>> : h \in Parsers \ {"field_read"}}
                   \cup {<<"connect", "field_read">>}
    <3>1. /\ \A h \in Parsers : h \in Handlers
          /\ "connect" \in Handlers /\ "packet_read" \in Handlers /\ "field_read" \in Handlers
      BY DEF Parsers, Handlers
    <3>2. \A h \in Parsers :
            /\ <<"connect">> \o <<h>> = <<"connect", h>>
            /\ <<"connect">> \o <<"packet_read", h>> = <<"connect", "packet_read", h>>
      BY <3>1, Extensions
    <3> QED BY <1>20, <2>2, <3>2 DEF Parsers
  <2>4. ConnectionTypeOK' /\ PeerTypeOK' /\ CallTypeOK'
    BY <1>2, <2>2 DEF TypeOK, ConnectionTypeOK, PeerTypeOK, CallTypeOK, Codes
  <2>5. WellFormedStack'
    BY <2>2, <2>3 DEF WellFormedStack, StackStates, ConnectStates, RefusedStates, Parsers
  <2>6. ParserHasPacket' /\ AddressKept' /\ LoopOutcome'
    BY <2>1, <2>2, <2>3 DEF ParserHasPacket, AddressKept, LoopOutcome, Top, Parsers, Resumable
  <2> QED BY <1>3, <2>4, <2>5, <2>6, Conclude
<1>8. CASE ReadFails
  <2>1. /\ UNCHANGED <<stack, addrinfo_next, sock, watch, s2c, c2s, server, ready,
                       packet_number, events, revents, buf>>
        /\ pc' = "stop" /\ faults' \in Nat
        /\ rc' \in {"LOST_CONNECTION", "ERRNO", "INTERNAL_ERROR", "MEMORY"}
    BY <1>8 DEF ReadFails, Return, Lost, Fault, NoFault, ioVars, conVars, pollVars,
       TypeOK, PeerTypeOK
  <2>2. ConnectionTypeOK' /\ PeerTypeOK' /\ CallTypeOK'
    BY <1>2, <2>1 DEF TypeOK, ConnectionTypeOK, PeerTypeOK, CallTypeOK, Codes
  <2>3. WellFormedStack' /\ stack \notin RefusedStates
    BY <1>1, <2>1 DEF WellFormedStack, RefusedStates
  <2>4. ParserHasPacket' /\ AddressKept' /\ LoopOutcome'
    BY <1>1, <1>4, <2>1, <2>3 DEF ParserHasPacket, AddressKept, LoopOutcome, Top, Parsers
  <2> QED BY <1>3, <2>2, <2>3, <2>4, Conclude
<1> QED BY <1>5, <1>6, <1>7, <1>8 DEF drizzle_state_read

(* drizzle_state_addrinfo: the first address of the list, and only for a   *)
(* TCP socket.                                                             *)
LEMMA AddrinfoStep ==
  ASSUME StackInvariant, drizzle_state_addrinfo
  PROVE  StackInvariant'
<1> USE DEF StackInvariant
<1>1. /\ pc = "loop"
      /\ stack = <<"addrinfo", "connect", "packet_read", "handshake_server_read">>
  BY Shapes DEF drizzle_state_addrinfo, Running, WellFormedStack
<1>2. Tail(stack) = <<"connect", "packet_read", "handshake_server_read">>
  BY <1>1
<1>3. /\ UNCHANGED <<sock, watch, s2c, c2s, server, ready, packet_number, events,
                     revents, buf, packet_size, connects, result, command, op,
                     inConnect, skipped, stage, commands>>
      /\ faults' \in Nat
      /\ \/ /\ stack' = Tail(stack) /\ pc' = "loop" /\ rc' = rc
            /\ \/ SocketType = "tcp" /\ addrinfo_next' = 1
               \/ SocketType = "uds" /\ addrinfo_next' = addrinfo_next
         \/ /\ stack' = stack /\ pc' = "stop" /\ rc' = "GETADDRINFO"
            /\ addrinfo_next' = addrinfo_next
  BY <1>1 DEF drizzle_state_addrinfo, Pop, Continue, Return, NoFault, Fault, ioVars,
     conVars, pollVars, dataVars, Others, cmdVars, callVars, appVars, TypeOK, PeerTypeOK
<1>4. /\ ConnectionTypeOK' /\ PeerTypeOK' /\ CallTypeOK' /\ CommandTypeOK'
      /\ CommandLeft'
  <2>1. addrinfo_next' \in 0..NAddr
    BY <1>3, ConfigAssumption DEF ConfigAssumption, TypeOK, ConnectionTypeOK
  <2> QED BY <1>3, <2>1 DEF TypeOK, ConnectionTypeOK, PeerTypeOK, CallTypeOK,
             CommandTypeOK, CommandLeft, Codes
<1>5. WellFormedStack' /\ stack' \notin RefusedStates
  BY <1>1, <1>2, <1>3 DEF WellFormedStack, StackStates, ConnectStates, RefusedStates
<1>6. LoopOutcome' /\ ParserHasPacket'
  BY <1>1, <1>2, <1>3, <1>5 DEF LoopOutcome, ParserHasPacket, Top, Parsers
<1>7. AddressKept'
  <2>1. Head(stack) = "addrinfo" /\ Head(Tail(stack)) = "connect" /\ Tail(stack) # <<>>
    BY <1>1, <1>2
  <2>2. addrinfo_next = 0 \/ sock = "invalid"
    BY <1>1, <2>1 DEF AddressKept, Top
  <2>3. addrinfo_next' # 0 => SocketType = "tcp"
    BY <1>3 DEF AddressKept
  <2> QED BY <1>3, <2>1, <2>2, <2>3 DEF AddressKept, Top
<1> QED BY <1>4, <1>5, <1>6, <1>7, Conclude

(* drizzle_state_connect: every way an attempt on one address can end.     *)
LEMMA ConnectStep ==
  ASSUME StackInvariant, drizzle_state_connect
  PROVE  StackInvariant'
<1> USE DEF StackInvariant
<1>1. /\ pc = "loop" /\ stack # <<>> /\ Head(stack) = "connect"
      /\ stack \in {<<"connect">>, <<"connect", "packet_read", "handshake_server_read">>}
  BY Shapes DEF drizzle_state_connect, Running, WellFormedStack
<1>2. /\ Tail(stack) \in {<<>>, <<"packet_read", "handshake_server_read">>}
      /\ <<"connecting">> \o Tail(stack) \in
           {<<"connecting">>, <<"connecting", "packet_read", "handshake_server_read">>}
  <2>1. /\ "connecting" \in Handlers /\ "packet_read" \in Handlers
        /\ "handshake_server_read" \in Handlers
    BY DEF Handlers
  <2>2. CASE stack = <<"connect">>
    <3>1. Tail(stack) = <<>>
      BY <2>2
    <3>2. <<"connecting">> \o <<>> = <<"connecting">>
      BY <2>1, OnEmpty, <<"connecting">> \in Seq(Handlers)
    <3> QED BY <3>1, <3>2
  <2>3. CASE stack = <<"connect", "packet_read", "handshake_server_read">>
    <3>1. Tail(stack) = <<"packet_read", "handshake_server_read">>
      BY <2>3
    <3>2. <<"connecting">> \o <<"packet_read", "handshake_server_read">>
          = <<"connecting", "packet_read", "handshake_server_read">>
      BY <2>1, Extensions
    <3> QED BY <3>1, <3>2
  <2> QED BY <1>1, <2>2, <2>3
<1>3. /\ UNCHANGED <<packet_size, connects, result, command, op, inConnect, skipped,
                     stage, commands>>
      /\ addrinfo_next \in 0..NAddr /\ NextAddr(addrinfo_next) \in 0..NAddr
      /\ 0 \in 0..NAddr
  BY ConfigAssumption DEF ConfigAssumption, drizzle_state_connect, Others, cmdVars, callVars, appVars,
     NextAddr, TypeOK, ConnectionTypeOK
<1>4. /\ sock' \in Sockets /\ server' \in Servers
      /\ watch' \subseteq Poll /\ s2c' = <<>> /\ c2s' = <<>>
      /\ ready' \in BOOLEAN /\ packet_number' \in 0..(PacketMod - 1)
      /\ events' \subseteq Poll /\ revents' \subseteq Poll
      /\ buf' \in Seq(Units) /\ faults' \in Nat /\ addrinfo_next' \in 0..NAddr
      /\ \/ /\ stack' = Tail(stack) /\ pc' = "loop" /\ rc' = rc
            /\ addrinfo_next' = 0
         \/ /\ stack' = <<>> /\ pc' = "stop" /\ rc' = "COULD_NOT_CONNECT"
            /\ sock' = "invalid" /\ addrinfo_next' = addrinfo_next
         \/ /\ stack' = stack /\ pc' = "stop" /\ rc' = "COULD_NOT_CONNECT"
            /\ addrinfo_next' = addrinfo_next
         \/ /\ stack' = stack /\ pc' = "loop" /\ rc' = rc /\ SocketType = "tcp"
         \/ /\ stack' = <<"connecting">> \o Tail(stack) /\ pc' = "loop" /\ rc' = rc
            /\ SocketType = "tcp" /\ addrinfo_next' = addrinfo_next /\ addrinfo_next # 0
         \/ /\ stack' = <<"connecting">> /\ pc' = "loop" /\ rc' = rc
            /\ SocketType = "tcp" /\ addrinfo_next' = addrinfo_next /\ addrinfo_next # 0
  <2>0. /\ ready \in BOOLEAN /\ packet_number \in 0..(PacketMod - 1) /\ buf \in Seq(Units)
        /\ events \subseteq Poll /\ revents \subseteq Poll /\ faults \in Nat
        /\ 0 \in 0..(PacketMod - 1) /\ <<>> \in Seq(Units) /\ {"OUT"} \subseteq Poll
        /\ {"connected", "open", "invalid", "pending"} \subseteq Sockets
        /\ {"greet", "none"} \subseteq Servers
        /\ addrinfo_next # 0 => SocketType = "tcp"
    BY ConfigAssumption DEF ConfigAssumption, TypeOK, ConnectionTypeOK, PeerTypeOK, Poll,
       Sockets, Servers, AddressKept
  <2>1. CASE ConnectUds
    BY <1>1, <1>3, <2>0, <2>1 DEF ConnectUds, NewSocket, Pop, Continue, Return, NoFault, Fault, conVars, pollVars
  <2>2. CASE NoAddressLeft
    BY <1>3, <2>0, <2>2 DEF NoAddressLeft, NewSocket, Return, NoFault, conVars, pollVars
  <2>3. CASE ConnectFails
    BY <1>3, <2>0, <2>3 DEF ConnectFails, SetSockOptFails, NewSocket, Return, Fault, conVars
  <2>4. CASE ConnectAtOnce
    BY <1>1, <1>3, <2>0, <2>4 DEF ConnectAtOnce, NewSocket, Pop, Continue, NoFault, conVars
  <2>5. CASE ConnectRefused
    BY <1>1, <1>3, <2>0, <2>5 DEF ConnectRefused, NewSocket, Continue, Fault, conVars
  <2>6. CASE ConnectInProgress
    BY <1>1, <1>3, <2>0, <2>6 DEF ConnectInProgress, Replace, Reset, Continue, NoFault, conVars
  <2> QED BY <2>1, <2>2, <2>3, <2>4, <2>5, <2>6 DEF drizzle_state_connect
<1>5. /\ ConnectionTypeOK' /\ PeerTypeOK' /\ CallTypeOK' /\ CommandTypeOK'
      /\ CommandLeft'
  <2>1. <<>> \in Seq(Units)
    OBVIOUS
  <2>2. /\ CallTypeOK' /\ CommandTypeOK' /\ CommandLeft'
    BY <1>1, <1>3, <1>4 DEF TypeOK, CallTypeOK, CommandTypeOK, CommandLeft, Codes
  <2>3. ConnectionTypeOK' /\ PeerTypeOK'
    BY <1>3, <1>4, <2>1 DEF TypeOK, ConnectionTypeOK, PeerTypeOK
  <2> QED BY <2>2, <2>3
<1>6. /\ Head(stack) = "connect" /\ stack # <<>>
      /\ stack' \in {<<>>, <<"packet_read", "handshake_server_read">>, <<"connect">>,
                     <<"connect", "packet_read", "handshake_server_read">>,
                     <<"connecting">>,
                     <<"connecting", "packet_read", "handshake_server_read">>}
  BY <1>1, <1>2, <1>4
<1>7. WellFormedStack' /\ stack' \notin RefusedStates
  BY <1>6 DEF WellFormedStack, StackStates, ConnectStates, ReaderStates, RefusedStates
<1>8. ParserHasPacket' /\ LoopOutcome'
  BY <1>4, <1>6, <1>7 DEF ParserHasPacket, Top, Parsers, LoopOutcome
<1>9. AddressKept'
  <2>1. stack' # <<>> /\ Head(stack') = "connecting" => addrinfo_next' # 0
    <3>1. stack' # <<>> /\ Head(stack') = "connecting"
          => stack' # Tail(stack) /\ stack' # stack
      BY <1>1, <1>2
    <3> QED BY <1>4, <3>1
  <2>2. addrinfo_next' # 0 => SocketType = "tcp"
    BY <1>4 DEF AddressKept
  <2>3. addrinfo_next' # 0 /\ sock' # "invalid"
        => \/ stack' # <<>> /\ Head(stack') \in {"connect", "connecting"}
           \/ pc' = "stop" /\ rc' \notin Resumable
    BY <1>1, <1>2, <1>4 DEF Resumable
  <2> QED BY <2>1, <2>2, <2>3 DEF AddressKept, Top
<1> QED BY <1>5, <1>7, <1>8, <1>9, Conclude

(* drizzle_state_connecting: there is an address to go on from.            *)
LEMMA ConnectingStep ==
  ASSUME StackInvariant, drizzle_state_connecting
  PROVE  StackInvariant'
<1> USE DEF StackInvariant
<1>1. /\ pc = "loop" /\ stack # <<>> /\ Head(stack) = "connecting"
      /\ stack \in {<<"connecting">>,
                    <<"connecting", "packet_read", "handshake_server_read">>}
  BY Shapes DEF drizzle_state_connecting, Running, WellFormedStack
<1>2. /\ Tail(stack) \in {<<>>, <<"packet_read", "handshake_server_read">>}
      /\ <<"connect">> \o Tail(stack) \in
           {<<"connect">>, <<"connect", "packet_read", "handshake_server_read">>}
  <2>1. /\ "connect" \in Handlers /\ "packet_read" \in Handlers
        /\ "handshake_server_read" \in Handlers
    BY DEF Handlers
  <2>2. CASE stack = <<"connecting">>
    <3>1. Tail(stack) = <<>>
      BY <2>2
    <3>2. <<"connect">> \o <<>> = <<"connect">>
      BY <2>1, OnEmpty, <<"connect">> \in Seq(Handlers)
    <3> QED BY <3>1, <3>2
  <2>3. CASE stack = <<"connecting", "packet_read", "handshake_server_read">>
    <3>1. Tail(stack) = <<"packet_read", "handshake_server_read">>
      BY <2>3
    <3>2. <<"connect">> \o <<"packet_read", "handshake_server_read">>
          = <<"connect", "packet_read", "handshake_server_read">>
      BY <2>1, Extensions
    <3> QED BY <3>1, <3>2
  <2> QED BY <1>1, <2>2, <2>3
<1>3. /\ UNCHANGED <<packet_size, connects, result, command>>
      /\ UNCHANGED <<op, inConnect, skipped, stage, commands>>
      /\ UNCHANGED <<callVars, appVars>>
      /\ addrinfo_next \in 0..NAddr /\ NextAddr(addrinfo_next) \in 0..NAddr
      /\ 0 \in 0..NAddr
      /\ addrinfo_next # 0 /\ SocketType = "tcp"
  BY <1>1, ConfigAssumption DEF ConfigAssumption, drizzle_state_connecting, Others,
     cmdVars, callVars, appVars, NextAddr, TypeOK, ConnectionTypeOK, AddressKept, Top
<1>4. CommandTypeOK' /\ CommandLeft'
  BY <1>3 DEF TypeOK, CommandTypeOK, CommandLeft
<1>5. CASE WaitFor({"OUT"}, {}, Yield) /\ NoFault /\ UNCHANGED addrinfo_next
  <2>1. {"OUT"} \in SUBSET Poll /\ {} \in SUBSET Poll
    BY DEF Poll
  <2>2. UNCHANGED <<packet_size, addrinfo_next, faults, connects, callVars, appVars>>
    BY <1>3, <1>5 DEF NoFault
  <2>3. /\ ConnectionTypeOK' /\ PeerTypeOK' /\ CallTypeOK'
        /\ \/ /\ stack' = stack /\ buf' = buf /\ sock' = sock
              /\ \/ pc' = "stop" /\ rc' = "IO_WAIT"
                 \/ pc' = "wait" /\ rc' = rc
           \/ /\ sock' = "invalid" /\ pc' = "stop" /\ rc' \in {"PAUSE", "ERRNO"}
              /\ \/ stack' = <<>>
                 \/ sock = "invalid" /\ stack' = stack /\ buf' = buf
    BY <1>5, <2>1, <2>2, Waits DEF TypeOK
  <2> QED BY <1>1, <1>3, <1>4, <2>2, <2>3, WaitStep DEF Top
<1>6. CASE /\ UNCHANGED <<sock, watch, s2c, c2s, server, ready, packet_number,
                          events, buf>>
           /\ revents' \subseteq Poll /\ faults' \in Nat
           /\ \/ /\ stack' = Tail(stack) /\ pc' = "stop" /\ rc' = "INTERNAL_ERROR"
                 /\ addrinfo_next' = addrinfo_next
              \/ stack' = Tail(stack) /\ pc' = "loop" /\ rc' = rc /\ addrinfo_next' = 0
              \/ /\ stack' = <<"connect">> \o Tail(stack) /\ pc' = "loop" /\ rc' = rc
                 /\ addrinfo_next' = NextAddr(addrinfo_next)
  <2>1. /\ stack' \in {<<>>, <<"packet_read", "handshake_server_read">>, <<"connect">>,
                       <<"connect", "packet_read", "handshake_server_read">>}
        /\ addrinfo_next' \in 0..NAddr
    BY <1>2, <1>3, <1>6
  <2>2. ConnectionTypeOK' /\ PeerTypeOK' /\ CallTypeOK'
    <3>1. ConnectionTypeOK'
      BY <1>3, <1>6, <2>1 DEF TypeOK, ConnectionTypeOK
    <3>2. PeerTypeOK'
      BY <1>3, <1>6 DEF TypeOK, PeerTypeOK
    <3>3. CallTypeOK'
      BY <1>3, <1>6 DEF TypeOK, CallTypeOK, Codes
    <3> QED BY <3>1, <3>2, <3>3
  <2>3. WellFormedStack' /\ stack' \notin RefusedStates
    <3>1. stack' \in StackStates
      BY <2>1 DEF StackStates, ConnectStates
    <3>2. stack' \notin RefusedStates
      BY <2>1 DEF RefusedStates
    <3> QED BY <3>1, <3>2 DEF WellFormedStack
  <2>4. ParserHasPacket' /\ LoopOutcome'
    BY <1>1, <1>6, <2>1, <2>3 DEF ParserHasPacket, Top, Parsers, LoopOutcome
  <2>5. stack' # <<>> /\ Head(stack') = "connecting" => FALSE
    BY <2>1
  <2>6. <<"connect">> \o Tail(stack) # <<>> /\ Head(<<"connect">> \o Tail(stack)) = "connect"
    BY <1>2
  <2>7. AddressKept'
    BY <1>3, <1>6, <2>5, <2>6 DEF AddressKept, Top, Resumable
  <2> QED BY <1>4, <2>2, <2>3, <2>4, <2>7, Conclude
<1>7. \/ WaitFor({"OUT"}, {}, Yield) /\ NoFault /\ UNCHANGED addrinfo_next
      \/ /\ UNCHANGED <<ioVars, conVars, pollVars, buf>>
         /\ \/ /\ (IF sock = "invalid" THEN NoFault ELSE Fault)
               /\ Pop /\ Return("INTERNAL_ERROR") /\ UNCHANGED addrinfo_next
            \/ addrinfo_next' = 0 /\ Pop /\ Continue /\ NoFault
            \/ TryNextAddress /\ NoFault
      \/ /\ revents' = {} /\ TryNextAddress /\ NoFault
         /\ UNCHANGED <<ioVars, conVars, events, buf>>
  BY DEF drizzle_state_connecting
<1>8. faults \in Nat /\ revents \subseteq Poll
  BY DEF TypeOK, PeerTypeOK, ConnectionTypeOK
<1> QED
  BY <1>1, <1>5, <1>6, <1>7, <1>8 DEF NoFault, Fault, Pop, Return, Continue, TryNextAddress,
     Replace, ioVars, conVars, pollVars

(* drizzle_state_write: the state below it is no parser.                   *)
LEMMA WriteStep ==
  ASSUME StackInvariant, drizzle_state_write
  PROVE  StackInvariant'
<1> USE DEF StackInvariant
<1>1. /\ pc = "loop" /\ stack # <<>> /\ Head(stack) = "write"
      /\ stack \in {<<"write">>, <<"write", "command_write">>,
                    <<"write", "packet_read", "result_read">>,
                    <<"write", "packet_read", "handshake_result_read">>}
  BY Shapes DEF drizzle_state_write, Running, WellFormedStack
<1>2. Tail(stack) \in {<<>>, <<"command_write">>, <<"packet_read", "result_read">>,
                       <<"packet_read", "handshake_result_read">>}
  <2>1. CASE stack = <<"write">>
    BY <2>1
  <2>2. CASE stack = <<"write", "command_write">>
    BY <2>2
  <2>3. CASE stack = <<"write", "packet_read", "result_read">>
    BY <2>3
  <2>4. CASE stack = <<"write", "packet_read", "handshake_result_read">>
    BY <2>4
  <2> QED BY <1>1, <2>1, <2>2, <2>3, <2>4
<1>3. /\ UNCHANGED <<addrinfo_next, packet_size, connects, result, command>>
      /\ UNCHANGED <<op, inConnect, skipped, stage, commands>>
      /\ UNCHANGED <<callVars, appVars>>
  BY DEF drizzle_state_write, Others, cmdVars, callVars, appVars
<1>4. CommandTypeOK' /\ CommandLeft'
  BY <1>3 DEF TypeOK, CommandTypeOK, CommandLeft
<1>5. addrinfo_next = 0 \/ sock = "invalid"
  BY <1>1 DEF AddressKept, Top
<1>6. buf \in Seq(Units) /\ c2s \in Seq(Units)
  BY DEF TypeOK, ConnectionTypeOK, PeerTypeOK
<1>7. CASE WriteWouldBlock
  <2>1. {"OUT"} \in SUBSET Poll /\ revents \in SUBSET Poll
    BY DEF Poll, TypeOK, ConnectionTypeOK
  <2>2. /\ UNCHANGED <<packet_size, addrinfo_next, faults, connects, callVars, appVars>>
        /\ WaitFor({"OUT"}, revents, Block)
    BY <1>3, <1>7 DEF WriteWouldBlock, NoFault
  <2>3. /\ ConnectionTypeOK' /\ PeerTypeOK' /\ CallTypeOK'
        /\ \/ /\ stack' = stack /\ buf' = buf /\ sock' = sock
              /\ \/ pc' = "stop" /\ rc' = "IO_WAIT"
                 \/ pc' = "wait" /\ rc' = rc
           \/ /\ sock' = "invalid" /\ pc' = "stop" /\ rc' \in {"PAUSE", "ERRNO"}
              /\ \/ stack' = <<>>
                 \/ sock = "invalid" /\ stack' = stack /\ buf' = buf
    BY <2>1, <2>2, Waits DEF TypeOK
  <2> QED BY <1>1, <1>3, <1>4, <2>2, <2>3, WaitStep DEF Top
<1>8. CASE /\ UNCHANGED <<sock, watch, s2c, server, ready, packet_number,
                          events, revents>>
           /\ buf' \in Seq(Units) /\ c2s' \in Seq(Units) /\ faults' \in Nat
           /\ \/ stack' \in {stack, Tail(stack)} /\ pc' = "loop" /\ rc' = rc
              \/ stack' = stack /\ pc' = "stop" /\ rc' \in Lost
  <2>1. stack' \in {<<>>, <<"command_write">>, <<"packet_read", "result_read">>,
                    <<"packet_read", "handshake_result_read">>, <<"write">>,
                    <<"write", "command_write">>, <<"write", "packet_read", "result_read">>,
                    <<"write", "packet_read", "handshake_result_read">>}
    BY <1>1, <1>2, <1>8
  <2>2. ConnectionTypeOK' /\ PeerTypeOK' /\ CallTypeOK'
    BY <1>3, <1>8 DEF TypeOK, ConnectionTypeOK, PeerTypeOK, CallTypeOK, Codes, Lost
  <2>3. WellFormedStack' /\ stack' \notin RefusedStates
    BY <2>1 DEF WellFormedStack, StackStates, HandshakeStates, CommandStates,
       ReaderStates, RefusedStates
  <2>4. ParserHasPacket' /\ LoopOutcome'
    BY <1>8, <2>1, <2>3 DEF ParserHasPacket, Top, Parsers, LoopOutcome, Lost
  <2>5. AddressKept'
    BY <1>3, <1>5, <1>8, <2>1 DEF AddressKept, Top
  <2> QED BY <1>4, <2>2, <2>3, <2>4, <2>5, Conclude
<1>9. CASE WriteSome
  <2>1. PICK n \in 1..Len(buf) :
          /\ Sent(n)
          /\ \/ c2s' = c2s \o SubSeq(buf, 1, n)
             \/ c2s' = c2s
    BY <1>9 DEF WriteSome
  <2>2. SubSeq(buf, 1, n) \in Seq(Units) /\ SubSeq(buf, n + 1, Len(buf)) \in Seq(Units)
    BY <1>6, SubSeqProperties
  <2>3. buf' \in Seq(Units) /\ c2s' \in Seq(Units) /\ stack' \in {stack, Tail(stack)}
    BY <1>6, <2>1, <2>2, ConcatProperties DEF Sent, Pop
  <2>4. /\ UNCHANGED <<sock, watch, s2c, server, ready, packet_number, events,
                       revents, faults>>
        /\ pc' = "loop" /\ rc' = rc
    BY <1>1, <1>9 DEF WriteSome, Continue, NoFault, conVars, pollVars
  <2>5. faults' \in Nat
    BY <2>4 DEF TypeOK, PeerTypeOK
  <2> QED BY <1>8, <2>3, <2>4, <2>5
<1>10. CASE WriteFails
  <2>1. /\ UNCHANGED <<stack, sock, watch, s2c, c2s, server, ready, packet_number,
                       events, revents, buf>>
        /\ pc' = "stop" /\ rc' \in Lost /\ faults' \in Nat
    BY <1>10 DEF WriteFails, Return, Fault, NoFault, ioVars, conVars, pollVars, TypeOK,
       PeerTypeOK
  <2> QED BY <1>6, <1>8, <2>1
<1>11. CASE /\ buf = <<>> /\ Pop /\ Continue /\ NoFault
            /\ UNCHANGED <<ioVars, conVars, pollVars, buf>>
  <2>1. /\ UNCHANGED <<sock, watch, s2c, c2s, server, ready, packet_number,
                       events, revents, buf, faults>>
        /\ stack' = Tail(stack) /\ pc' = "loop" /\ rc' = rc
    BY <1>1, <1>11 DEF Pop, Continue, NoFault, ioVars, conVars, pollVars
  <2>2. faults' \in Nat
    BY <2>1 DEF TypeOK, PeerTypeOK
  <2> QED BY <1>6, <1>8, <2>1, <2>2
<1> QED BY <1>7, <1>9, <1>10, <1>11 DEF drizzle_state_write

(* drizzle_state_packet_read: the parser below it gets a packet.           *)
LEMMA PacketReadStep ==
  ASSUME StackInvariant, drizzle_state_packet_read
  PROVE  StackInvariant'
<1> USE DEF StackInvariant
<1>1. /\ pc = "loop" /\ stack # <<>> /\ Head(stack) = "packet_read"
      /\ stack \in {<<"packet_read", h>> : h \in Parsers \ {"field_read"}}
  BY Shapes DEF drizzle_state_packet_read, Running, WellFormedStack
<1>2. PICK h \in Parsers \ {"field_read"} : stack = <<"packet_read", h>>
  BY <1>1
<1>3. Tail(stack) = <<h>> /\ <<"read">> \o stack = <<"read", "packet_read", h>>
  <2>1. "read" \in Handlers /\ "packet_read" \in Handlers /\ h \in Handlers
    BY DEF Handlers, Parsers
  <2>2. <<"read">> \o <<"packet_read", h>> = <<"read", "packet_read", h>>
    BY <2>1, Extensions
  <2>3. Tail(stack) = <<h>>
    BY <1>2
  <2> QED BY <1>2, <2>2, <2>3
<1>4. /\ UNCHANGED <<ready, sock, watch, s2c, c2s, server, events, revents,
                     addrinfo_next, faults, connects, result, command, op, inConnect,
                     skipped, stage, commands>>
      /\ buf \in Seq(Units)
  BY DEF drizzle_state_packet_read, Others, ioVars, pollVars, budgetVars, cmdVars, callVars,
     appVars, TypeOK, ConnectionTypeOK
<1>5. CommandTypeOK' /\ CommandLeft' /\ PeerTypeOK'
  BY <1>4 DEF TypeOK, CommandTypeOK, CommandLeft, PeerTypeOK
<1>6. \/ /\ stack' = <<"read", "packet_read", h>> /\ pc' = "loop" /\ rc' = rc
         /\ UNCHANGED <<packet_number, buf, packet_size>>
      \/ /\ stack' = stack /\ pc' = "stop" /\ rc' = "BAD_PACKET_NUMBER"
         /\ packet_size' = 1 /\ UNCHANGED <<packet_number, buf>>
      \/ /\ stack' = <<h>> /\ pc' = "loop" /\ rc' = rc
         /\ packet_size' = 1 /\ packet_number' = (packet_number + 1) % PacketMod
         /\ buf' = Tail(buf) /\ Len(buf) >= 2
  <2>1. CASE Len(buf) < 2
    BY <1>1, <1>3, <2>1 DEF drizzle_state_packet_read, Push, Continue, dataVars
  <2>2. CASE ~ (Len(buf) < 2)
    <3>1. Len(buf) >= 2
      BY <1>4, <2>2
    <3>2. /\ packet_size' = 1
          /\ \/ /\ Return("BAD_PACKET_NUMBER")
                /\ UNCHANGED <<stack, packet_number, buf>>
             \/ /\ packet_number' = (packet_number + 1) % PacketMod
                /\ buf' = Tail(buf) /\ Pop /\ Continue
      BY <2>2 DEF drizzle_state_packet_read
    <3> QED BY <1>1, <1>3, <3>1, <3>2 DEF Pop, Continue, Return
  <2> QED BY <2>1, <2>2
<1>7. Len(buf) >= 2 => Tail(buf) \in Seq(Units) /\ Tail(buf) # <<>>
  <2>1. buf # <<>> /\ Len(buf) >= 2 => Tail(buf) \in Seq(Units) /\ Len(Tail(buf)) >= 1
    BY <1>4, HeadTailProperties
  <2>2. Len(buf) >= 2 => buf # <<>>
    BY <1>4
  <2>3. Tail(buf) \in Seq(Units) /\ Len(Tail(buf)) >= 1 => Tail(buf) # <<>>
    BY LenProperties
  <2> QED BY <2>1, <2>2, <2>3
<1>8. ConnectionTypeOK' /\ CallTypeOK'
  <2>1. (packet_number + 1) % PacketMod \in 0..(PacketMod - 1)
    BY ConfigAssumption DEF ConfigAssumption, TypeOK, ConnectionTypeOK
  <2>2. buf' \in Seq(Units) /\ packet_size' \in {0, 1}
        /\ packet_number' \in 0..(PacketMod - 1)
    BY <1>4, <1>6, <1>7, <2>1 DEF TypeOK, ConnectionTypeOK
  <2>3. ConnectionTypeOK'
    BY <1>4, <2>2 DEF TypeOK, ConnectionTypeOK
  <2>4. pc' \in {"loop", "stop"} /\ rc' \in {rc, "BAD_PACKET_NUMBER"}
    BY <1>6
  <2>5. CallTypeOK'
    BY <1>4, <2>4 DEF TypeOK, CallTypeOK, Codes
  <2> QED BY <2>3, <2>5
<1>9. WellFormedStack' /\ stack' \notin RefusedStates
  BY <1>2, <1>6 DEF WellFormedStack, StackStates, ConnectStates, HandshakeStates,
     CommandStates, ReaderStates, RefusedStates, Parsers
<1>10. /\ stack' # <<>> /\ Head(stack') \in {"read", "packet_read", h}
       /\ Head(stack') = h => packet_size' = 1 /\ buf' # <<>> /\ pc' = "loop"
       /\ h \notin {"connecting", "field_read", "read", "packet_read"}
       /\ pc' = "stop" => rc' = "BAD_PACKET_NUMBER"
       /\ pc' # "leave"
  BY <1>2, <1>6, <1>7 DEF Parsers
<1>11. ParserHasPacket' /\ LoopOutcome'
  BY <1>9, <1>10 DEF ParserHasPacket, Top, Parsers, LoopOutcome
<1>12. AddressKept'
  BY <1>1, <1>4, <1>10 DEF AddressKept, Top
<1> QED BY <1>5, <1>8, <1>9, <1>11, <1>12, Conclude

(* drizzle_wait inside a call: the handler on top is run again, or the     *)
(* call fails.                                                             *)
LEMMA DrizzleWaitStep ==
  ASSUME StackInvariant, drizzle_wait
  PROVE  StackInvariant'
<1> USE DEF StackInvariant
<1>1. /\ UNCHANGED <<addrinfo_next, packet_size, connects, result, command, op,
                     inConnect, skipped, stage, commands>>
      /\ pc = "wait"
  BY DEF drizzle_wait, Others, cmdVars, callVars, appVars
<1>2. CommandTypeOK' /\ CommandLeft'
  BY <1>1 DEF TypeOK, CommandTypeOK, CommandLeft
<1>3. ~ Top(Parsers \ {"field_read", "handshake_server_read"})
  BY <1>1 DEF ParserHasPacket
<1>4. stack \in StackStates /\ stack \notin RefusedStates
  BY <1>1 DEF WellFormedStack, StackStates, ConnectStates, ReaderStates, HandshakeStates,
     CommandStates, RefusedStates
<1>5. CASE \E r \in Reported(events) :
             SetRevents(r, watch) /\ pc' = "loop" /\ UNCHANGED rc /\ NoFault
  <2>1. PICK r \in Reported(events) : SetRevents(r, watch)
    BY <1>5
  <2>2. r \subseteq Poll
    BY DEF Reported, Poll
  <2>3. /\ revents' \subseteq Poll /\ events' \subseteq Poll /\ watch' \subseteq Poll
        /\ UNCHANGED <<stack, sock, s2c, c2s, server, ready, packet_number, buf>>
    BY <2>1, <2>2 DEF SetRevents, conVars, TypeOK, ConnectionTypeOK, PeerTypeOK
  <2>4. ConnectionTypeOK' /\ PeerTypeOK' /\ CallTypeOK'
    BY <1>1, <1>5, <2>3 DEF TypeOK, ConnectionTypeOK, PeerTypeOK, CallTypeOK, NoFault
  <2>5. WellFormedStack' /\ LoopOutcome' /\ ParserHasPacket' /\ AddressKept'
    BY <1>1, <1>3, <1>4, <1>5, <2>3 DEF WellFormedStack, LoopOutcome, ParserHasPacket,
       AddressKept, Top
  <2> QED BY <1>2, <2>4, <2>5, Conclude
<1>6. CASE /\ \E code \in {"NO_ACTIVE_CONNECTIONS", "TIMEOUT", "ERRNO"} : WaitFails(code)
           /\ NoFault \/ Fault
  <2>1. /\ pc' \in {"leave", "stop"} /\ rc' \in {"NO_ACTIVE_CONNECTIONS", "TIMEOUT", "ERRNO"}
        /\ UNCHANGED <<stack, sock, watch, s2c, c2s, server, ready, packet_number,
                       events, revents, buf>>
        /\ faults' \in Nat
    BY <1>6 DEF WaitFails, ioVars, conVars, pollVars, NoFault, Fault, TypeOK, PeerTypeOK
  <2>2. ConnectionTypeOK' /\ PeerTypeOK' /\ CallTypeOK'
    BY <1>1, <2>1 DEF TypeOK, ConnectionTypeOK, PeerTypeOK, CallTypeOK, Codes
  <2>3. WellFormedStack' /\ LoopOutcome' /\ ParserHasPacket' /\ AddressKept'
    BY <1>1, <1>3, <1>4, <2>1 DEF WellFormedStack, LoopOutcome, ParserHasPacket,
       AddressKept, Top
  <2> QED BY <1>2, <2>2, <2>3, Conclude
<1> QED BY <1>5, <1>6 DEF drizzle_wait

----------------------------------------------------------------------------
(* The handlers of the protocol.                                           *)

(* What is common to them: they work on the buffer, the results and the    *)
(* stack, on a connection that has no address left to try.                 *)
LEMMA ProtocolStep ==
  ASSUME StackInvariant, pc = "loop", stack # <<>>,
         Head(stack) \notin {"connect", "connecting"},
         Quiet, ready' \in BOOLEAN, packet_number' \in 0..(PacketMod - 1),
         buf' \in Seq(Units), packet_size' \in {0, 1},
         CommandTypeOK', CommandLeft',
         \/ pc' = "loop" /\ rc' = rc
         \/ pc' = "stop" /\ rc' \in Codes \ {"OK"},
         stack' \in StackStates, stack' \notin RefusedStates,
         ~ Top({"connecting"})',
         ParserHasPacket'
  PROVE  StackInvariant'
<1> USE DEF StackInvariant
<1>1. UNCHANGED <<sock, watch, s2c, c2s, server, events, revents, addrinfo_next, faults,
                  connects, op, inConnect, skipped, stage, commands>>
  BY DEF Quiet, ioVars, pollVars, budgetVars, callVars, appVars
<1>2. addrinfo_next = 0 \/ sock = "invalid"
  BY DEF AddressKept, Top
<1>3. ConnectionTypeOK' /\ PeerTypeOK'
  BY <1>1 DEF TypeOK, ConnectionTypeOK, PeerTypeOK
<1>4. CallTypeOK'
  BY <1>1 DEF TypeOK, CallTypeOK
<1>5. WellFormedStack' /\ LoopOutcome' /\ AddressKept'
  BY <1>1, <1>2 DEF WellFormedStack, LoopOutcome, AddressKept
<1> QED BY <1>3, <1>4, <1>5, Conclude

(* A handler that was the last on the stack is done.                       *)
LEMMA LastStep ==
  ASSUME StackInvariant, pc = "loop", stack # <<>>,
         Head(stack) \notin {"connect", "connecting"},
         Quiet, ready' \in BOOLEAN, packet_number' \in 0..(PacketMod - 1),
         buf' \in Seq(Units), packet_size' \in {0, 1},
         CommandTypeOK', CommandLeft',
         \/ pc' = "loop" /\ rc' = rc
         \/ pc' = "stop" /\ rc' \in Codes \ {"OK"},
         stack' = <<>>
  PROVE  StackInvariant'
<1>1. stack' \in StackStates /\ stack' \notin RefusedStates
  BY DEF StackStates, RefusedStates
<1>2. ~ Top({"connecting"})' /\ ParserHasPacket'
  BY DEF Top, ParserHasPacket
<1> QED BY <1>1, <1>2, ProtocolStep

(* The body that a parser looks at, and what is left of the buffer.        *)
LEMMA BodyTyped ==
  ASSUME ConnectionTypeOK, buf # <<>>
  PROVE  /\ Body \in Units /\ Body.n \in Nat /\ Tail(buf) \in Seq(Units)
<1>1. Body \in Units
  BY HeadTailProperties DEF ConnectionTypeOK, Body
<1>2. Tail(buf) \in Seq(Units)
  BY HeadTailProperties DEF ConnectionTypeOK
<1> QED BY <1>1, <1>2 DEF Units

(* drizzle_state_handshake_server_read, the one parser that may stay on    *)
(* the stack when it has consumed its packet.                              *)
LEMMA GreetingStep ==
  ASSUME StackInvariant, drizzle_state_handshake_server_read
  PROVE  StackInvariant'
<1> USE DEF StackInvariant
<1>1. pc = "loop" /\ stack = <<"handshake_server_read">> /\ Quiet
  BY Shapes DEF drizzle_state_handshake_server_read, Running, WellFormedStack, Parsers
<1>2. Head(stack) = "handshake_server_read" /\ stack # <<>> /\ Tail(stack) = <<>>
  BY <1>1
<1>3. packet_size \in {0, 1} /\ (packet_size = 1 => buf # <<>>) /\ buf \in Seq(Units)
  BY <1>2 DEF ParserHasPacket, Top, TypeOK, ConnectionTypeOK
<1>4. ~ Short
  BY <1>3, EmptySeq DEF Short
<1>5. UNCHANGED <<result, command>> /\ (GreetingIsError \/ GreetingRejected \/ GreetingAccepted)
  BY <1>4 DEF drizzle_state_handshake_server_read, Parse, cmdVars
<1>6. /\ CommandTypeOK' /\ CommandLeft'
      /\ ready \in BOOLEAN /\ packet_number \in 0..(PacketMod - 1)
  BY <1>5 DEF TypeOK, CommandTypeOK, CommandLeft, ConnectionTypeOK
<1>7. CASE GreetingIsError \/ GreetingRejected
  <2>1. /\ stack' = <<"handshake_server_read">> /\ pc' = "stop" /\ rc' \in Codes \ {"OK"}
        /\ ready' = ready /\ packet_number' = packet_number
        /\ \/ packet_size = 1 /\ packet_size' = 0 /\ buf' = Tail(buf)
           \/ packet_size' = packet_size /\ buf' = buf
    BY <1>1, <1>7 DEF GreetingIsError, GreetingRejected, Return, Consume, dataVars, conVars,
       Codes
  <2>2. /\ buf' \in Seq(Units) /\ packet_size' \in {0, 1}
        /\ packet_size' = 1 => buf' # <<>>
    <3>1. CASE packet_size = 1 /\ packet_size' = 0 /\ buf' = Tail(buf)
      BY <1>3, <3>1, BodyTyped DEF TypeOK
    <3>2. CASE packet_size' = packet_size /\ buf' = buf
      BY <1>3, <3>2
    <3> QED BY <2>1, <3>1, <3>2
  <2>3. stack' \in StackStates /\ stack' \notin RefusedStates
    BY <2>1 DEF StackStates, ConnectStates, RefusedStates
  <2>4. ~ Top({"connecting"})' /\ ParserHasPacket'
    BY <2>1, <2>2 DEF Top, ParserHasPacket
  <2> QED BY <1>1, <1>2, <1>6, <2>1, <2>2, <2>3, <2>4, ProtocolStep
<1>8. CASE GreetingAccepted
  <2>1. <<"handshake_client_write", "write", "packet_read", "handshake_result_read">> \o <<>>
        = <<"handshake_client_write", "write", "packet_read", "handshake_result_read">>
    BY OnEmpty DEF Handlers
  <2>2. /\ stack' = <<"handshake_client_write", "write", "packet_read", "handshake_result_read">>
        /\ pc' = "loop" /\ rc' = rc /\ ready' = ready /\ packet_number' = packet_number
        /\ packet_size' = 0 /\ buf' = Tail(buf) /\ packet_size = 1
    BY <1>1, <1>2, <1>8, <2>1 DEF GreetingAccepted, Replace, Continue, Consume, conVars
  <2>3. buf' \in Seq(Units)
    BY <1>3, <2>2, BodyTyped DEF TypeOK
  <2>4. stack' \in StackStates /\ stack' \notin RefusedStates
    BY <2>2 DEF StackStates, HandshakeStates, RefusedStates
  <2>5. ~ Top({"connecting"})' /\ ParserHasPacket'
    BY <2>2 DEF Top, ParserHasPacket, Parsers
  <2> QED BY <1>1, <1>2, <1>6, <2>2, <2>3, <2>4, <2>5, ProtocolStep
<1> QED BY <1>5, <1>7, <1>8

(* drizzle_state_handshake_client_write.                                   *)
LEMMA ClientWriteStep ==
  ASSUME StackInvariant, drizzle_state_handshake_client_write
  PROVE  StackInvariant'
<1> USE DEF StackInvariant
<1>1. /\ pc = "loop" /\ Quiet
      /\ stack = <<"handshake_client_write", "write", "packet_read", "handshake_result_read">>
  BY Shapes DEF drizzle_state_handshake_client_write, Running, WellFormedStack
<1>2. /\ Head(stack) = "handshake_client_write" /\ stack # <<>>
      /\ Tail(stack) = <<"write", "packet_read", "handshake_result_read">>
  BY <1>1
<1>3. /\ UNCHANGED <<ready, packet_size, result, command>>
      /\ packet_number' = (packet_number + 1) % PacketMod
      /\ buf' = Append(buf, Unit("whole", "auth", packet_number, 0, 0))
      /\ stack' = <<"write", "packet_read", "handshake_result_read">>
      /\ pc' = "loop" /\ rc' = rc
  BY <1>1, <1>2 DEF drizzle_state_handshake_client_write, Pop, Continue, cmdVars
<1>4. CommandTypeOK' /\ CommandLeft' /\ ready' \in BOOLEAN /\ packet_size' \in {0, 1}
  BY <1>3 DEF TypeOK, CommandTypeOK, CommandLeft, ConnectionTypeOK
<1>5. packet_number' \in 0..(PacketMod - 1)
  BY <1>3, ConfigAssumption DEF ConfigAssumption, TypeOK, ConnectionTypeOK
<1>6. buf' \in Seq(Units)
  <2>1. Unit("whole", "auth", packet_number, 0, 0) \in Units
    BY DEF Unit, Units, ClientKinds, TypeOK, ConnectionTypeOK
  <2> QED BY <1>3, <2>1, AppendProperties DEF TypeOK, ConnectionTypeOK
<1>7. stack' \in StackStates /\ stack' \notin RefusedStates
  BY <1>3 DEF StackStates, HandshakeStates, RefusedStates
<1>8. ~ Top({"connecting"})' /\ ParserHasPacket'
  BY <1>3 DEF Top, ParserHasPacket, Parsers
<1> QED BY <1>1, <1>2, <1>3, <1>4, <1>5, <1>6, <1>7, <1>8, ProtocolStep

(* drizzle_state_handshake_result_read: always the last state.             *)
LEMMA HandshakeResultStep ==
  ASSUME StackInvariant, drizzle_state_handshake_result_read
  PROVE  StackInvariant'
<1> USE DEF StackInvariant
<1>1. pc = "loop" /\ stack = <<"handshake_result_read">> /\ Quiet
  BY Shapes DEF drizzle_state_handshake_result_read, Running, WellFormedStack, Parsers
<1>2. Head(stack) = "handshake_result_read" /\ stack # <<>> /\ Tail(stack) = <<>>
  BY <1>1
<1>3. packet_size = 1 /\ buf # <<>> /\ buf \in Seq(Units)
  BY <1>2 DEF ParserHasPacket, Top, TypeOK, ConnectionTypeOK, Parsers
<1>4. ~ Short
  BY <1>3, EmptySeq DEF Short
<1>5. /\ result' = Free(NewResult) /\ UNCHANGED <<packet_number, command>>
      /\ packet_size' = 0 /\ buf' = Tail(buf) /\ stack' = <<>>
      /\ ready' \in BOOLEAN
      /\ \/ pc' = "loop" /\ rc' = rc
         \/ pc' = "stop" /\ rc' \in Codes \ {"OK"}
  BY <1>1, <1>2, <1>4 DEF drizzle_state_handshake_result_read, Consume, Pop, Return, Continue,
     Codes, TypeOK, ConnectionTypeOK
<1>6. Free(NewResult) \in Results
  BY DEF Free, NewResult, EmptyResult, Results
<1>7. CommandTypeOK' /\ CommandLeft'
  BY <1>5, <1>6 DEF TypeOK, CommandTypeOK, CommandLeft
<1>8. buf' \in Seq(Units) /\ packet_number' \in 0..(PacketMod - 1)
  BY <1>3, <1>5, BodyTyped DEF TypeOK, ConnectionTypeOK
<1> QED BY <1>1, <1>2, <1>5, <1>7, <1>8, LastStep

(* The parsers of a reply find their packet and change the result only.    *)
LEMMA Parsed ==
  ASSUME StackInvariant, pc = "loop", NEW h \in {"result_read", "column_read", "row_read"},
         stack = <<h>>
  PROVE  /\ ~ Short /\ buf # <<>> /\ Tail(stack) = <<>> /\ stack # <<>> /\ Head(stack) = h
         /\ Body.n \in Nat /\ Tail(buf) \in Seq(Units)
<1> USE DEF StackInvariant
<1>1. Head(stack) = h /\ stack # <<>> /\ Tail(stack) = <<>>
  OBVIOUS
<1>2. packet_size = 1 /\ buf # <<>> /\ buf \in Seq(Units)
  BY <1>1 DEF ParserHasPacket, Top, TypeOK, ConnectionTypeOK, Parsers
<1>3. ~ Short
  BY <1>2, EmptySeq DEF Short
<1> QED BY <1>1, <1>2, <1>3, BodyTyped DEF TypeOK

(* drizzle_state_result_read: always the last state.                       *)
LEMMA ResultReadStep ==
  ASSUME StackInvariant, drizzle_state_result_read
  PROVE  StackInvariant'
<1> USE DEF StackInvariant
<1>1. pc = "loop" /\ stack = <<"result_read">> /\ Quiet
  BY Shapes DEF drizzle_state_result_read, Running, WellFormedStack, Parsers
<1>2. /\ ~ Short /\ buf # <<>> /\ Tail(stack) = <<>> /\ stack # <<>>
      /\ Head(stack) = "result_read" /\ Body.n \in Nat /\ Tail(buf) \in Seq(Units)
  BY <1>1, Parsed
<1>3. /\ result' = Filled(result) /\ UNCHANGED <<ready, packet_number, command>>
      /\ packet_size' = 0 /\ buf' = Tail(buf) /\ stack' = <<>>
      /\ \/ pc' = "loop" /\ rc' = rc
         \/ pc' = "stop" /\ rc' = "ERROR_CODE"
  BY <1>1, <1>2 DEF drizzle_state_result_read, Parse, Consume, Pop, Return, Continue, conVars
<1>4. Filled(result) \in Results
  BY <1>2 DEF Filled, Results, TypeOK, CommandTypeOK
<1>5. CommandTypeOK' /\ CommandLeft'
  BY <1>3, <1>4 DEF TypeOK, CommandTypeOK, CommandLeft
<1>6. /\ ready' \in BOOLEAN /\ packet_number' \in 0..(PacketMod - 1)
      /\ "ERROR_CODE" \in Codes \ {"OK"}
  BY <1>3 DEF TypeOK, ConnectionTypeOK, Codes
<1> QED BY <1>1, <1>2, <1>3, <1>5, <1>6, LastStep

(* drizzle_state_column_read: always the last state.                       *)
LEMMA ColumnReadStep ==
  ASSUME StackInvariant, drizzle_state_column_read
  PROVE  StackInvariant'
<1> USE DEF StackInvariant
<1>1. pc = "loop" /\ stack = <<"column_read">> /\ Quiet
  BY Shapes DEF drizzle_state_column_read, Running, WellFormedStack, Parsers
<1>2. /\ ~ Short /\ buf # <<>> /\ Tail(stack) = <<>> /\ stack # <<>>
      /\ Head(stack) = "column_read" /\ Tail(buf) \in Seq(Units)
  BY <1>1, Parsed
<1>3. /\ result' \in {[result EXCEPT !.column = FALSE],
                      [result EXCEPT !.column = @ \/ ~ result.skip, !.column_current = @ + 1]}
      /\ UNCHANGED <<ready, packet_number, command>>
      /\ packet_size' = 0 /\ buf' = Tail(buf) /\ stack' = <<>>
      /\ pc' = "loop" /\ rc' = rc
  BY <1>1, <1>2 DEF drizzle_state_column_read, Parse, Consume, Pop, Continue, conVars
<1>4. result' \in Results
  <2>1. result \in Results /\ (result.column \/ ~ result.skip) \in BOOLEAN
    BY DEF TypeOK, CommandTypeOK
  <2>2. CASE result' = [result EXCEPT !.column = FALSE]
    BY <2>1, <2>2 DEF Results
  <2>3. CASE result' = [result EXCEPT !.column = @ \/ ~ result.skip, !.column_current = @ + 1]
    <3> DEFINE b == result.column \/ ~ result.skip
               r == [result EXCEPT !.column = b]
    <3>1. r \in Results
      <4>1. b \in BOOLEAN
        OBVIOUS
      <4> HIDE DEF b
      <4> QED BY <2>1, <4>1 DEF Results
    <3>2. result' = [r EXCEPT !.column_current = @ + 1]
      BY <2>1, <2>3 DEF Results
    <3> HIDE DEF r
    <3> QED BY <3>1, <3>2 DEF Results
  <2> QED BY <1>3, <2>1, <2>2, <2>3
<1>5. CommandTypeOK' /\ CommandLeft'
  BY <1>3, <1>4 DEF TypeOK, CommandTypeOK, CommandLeft
<1>6. /\ ready' \in BOOLEAN /\ packet_number' \in 0..(PacketMod - 1)
  BY <1>3 DEF TypeOK, ConnectionTypeOK
<1> QED BY <1>1, <1>2, <1>3, <1>5, <1>6, LastStep

(* drizzle_state_row_read: gives way to drizzle_state_result_read, which   *)
(* finds the same packet, on an error.                                     *)
LEMMA RowReadStep ==
  ASSUME StackInvariant, drizzle_state_row_read
  PROVE  StackInvariant'
<1> USE DEF StackInvariant
<1>1. pc = "loop" /\ stack = <<"row_read">> /\ Quiet
  BY Shapes DEF drizzle_state_row_read, Running, WellFormedStack, Parsers
<1>2. /\ ~ Short /\ buf # <<>> /\ Tail(stack) = <<>> /\ stack # <<>>
      /\ Head(stack) = "row_read" /\ Tail(buf) \in Seq(Units)
  BY <1>1, Parsed
<1>3. /\ UNCHANGED <<ready, packet_number, command>> /\ pc' = "loop" /\ rc' = rc
      /\ result' \in {[result EXCEPT !.row_current = 0], result,
                      [result EXCEPT !.row_current = @ + 1]}
      /\ \/ stack' = <<>> /\ packet_size' = 0 /\ buf' = Tail(buf)
         \/ stack' = <<>> /\ UNCHANGED <<packet_size, buf>>
         \/ stack' = <<"result_read">> \o <<>> /\ UNCHANGED <<packet_size, buf>>
  BY <1>1, <1>2 DEF drizzle_state_row_read, Parse, Consume, Pop, Replace, Continue, conVars,
     dataVars
<1>4. result' \in Results
  BY <1>3 DEF Results, TypeOK, CommandTypeOK
<1>5. CommandTypeOK' /\ CommandLeft'
  BY <1>3, <1>4 DEF TypeOK, CommandTypeOK, CommandLeft
<1>6. /\ ready' \in BOOLEAN /\ packet_number' \in 0..(PacketMod - 1)
      /\ buf' \in Seq(Units) /\ packet_size' \in {0, 1}
  BY <1>2, <1>3 DEF TypeOK, ConnectionTypeOK
<1>7. CASE stack' = <<>>
  BY <1>1, <1>2, <1>3, <1>5, <1>6, <1>7, LastStep
<1>8. CASE stack' = <<"result_read">> \o <<>> /\ UNCHANGED <<packet_size, buf>>
  <2>1. stack' = <<"result_read">>
    BY <1>8, OnEmpty DEF Handlers
  <2>2. packet_size = 1
    BY <1>2 DEF ParserHasPacket, Top, Parsers
  <2>3. stack' \in StackStates /\ stack' \notin RefusedStates
    BY <2>1 DEF StackStates, CommandStates, ReaderStates, RefusedStates
  <2>4. ~ Top({"connecting"})' /\ ParserHasPacket'
    BY <1>2, <1>3, <1>8, <2>1, <2>2 DEF Top, ParserHasPacket
  <2> QED BY <1>1, <1>2, <1>3, <1>5, <1>6, <2>3, <2>4, ProtocolStep
<1> QED BY <1>3, <1>7, <1>8

(* drizzle_state_field_read: needs no packet, it reads when the buffer is  *)
(* empty.                                                                  *)
LEMMA FieldReadStep ==
  ASSUME StackInvariant, drizzle_state_field_read
  PROVE  StackInvariant'
<1> USE DEF StackInvariant
<1>1. pc = "loop" /\ stack = <<"field_read">> /\ Quiet
  BY Shapes DEF drizzle_state_field_read, Running, WellFormedStack, Parsers
<1>2. /\ Tail(stack) = <<>> /\ stack # <<>> /\ Head(stack) = "field_read"
      /\ <<"read">> \o stack = <<"read", "field_read">>
  <2>1. "read" \in Handlers /\ "field_read" \in Handlers
    BY DEF Handlers
  <2>2. <<"read">> \o <<"field_read">> = <<"read", "field_read">>
    BY <2>1, Extensions
  <2> QED BY <1>1, <2>2
<1>3. /\ UNCHANGED <<ready, packet_number, result, command>> /\ pc' = "loop" /\ rc' = rc
      /\ \/ stack' = <<"read", "field_read">> /\ UNCHANGED <<packet_size, buf>>
         \/ buf # <<>> /\ stack' = <<>> /\ packet_size' = 0 /\ buf' = Tail(buf)
  BY <1>1, <1>2 DEF drizzle_state_field_read, Consume, Pop, Push, Continue, conVars, cmdVars,
     dataVars
<1>4. CommandTypeOK' /\ CommandLeft'
  BY <1>3 DEF TypeOK, CommandTypeOK, CommandLeft
<1>5. /\ ready' \in BOOLEAN /\ packet_number' \in 0..(PacketMod - 1)
      /\ buf' \in Seq(Units) /\ packet_size' \in {0, 1}
  BY <1>3, BodyTyped DEF TypeOK, ConnectionTypeOK
<1>6. CASE stack' = <<>>
  BY <1>1, <1>2, <1>3, <1>4, <1>5, <1>6, LastStep
<1>7. CASE stack' = <<"read", "field_read">>
  <2>1. stack' \in StackStates /\ stack' \notin RefusedStates
    BY <1>7 DEF StackStates, RefusedStates
  <2>2. ~ Top({"connecting"})' /\ ParserHasPacket'
    BY <1>7 DEF Top, ParserHasPacket, Parsers
  <2> QED BY <1>1, <1>2, <1>3, <1>4, <1>5, <2>1, <2>2, ProtocolStep
<1> QED BY <1>3, <1>6, <1>7

(* What drizzle_state_command_write does: it stays below                   *)
(* drizzle_state_write until nothing of the command is left, and copies    *)
(* pieces of the command only.                                             *)
LEMMA CommandWriteEffect ==
  ASSUME StackInvariant, drizzle_state_command_write
  PROVE  /\ pc = "loop" /\ stack = <<"command_write">> /\ Quiet
         /\ UNCHANGED <<ready, packet_size, result>> /\ pc' = "loop" /\ rc' = rc
         /\ stack' \in {<<"write">>, <<"write", "command_write">>,
                       <<"write", "packet_read", "result_read">>}
         /\ packet_number' \in {1, packet_number}
         /\ buf' \in Seq(Units)
         /\ \/ command' = command
            \/ \E m \in 1..command.left : command' = [command EXCEPT !.left = @ - m]
         /\ \/ buf' = buf
            \/ \E m \in 1..command.left :
                 /\ Copied(m) \in Seq(Units)
                 /\ buf' = buf \o Copied(m) \/ buf' = Copied(m)
<1> USE DEF StackInvariant
<1>1. pc = "loop" /\ stack = <<"command_write">> /\ Quiet
  BY Shapes DEF drizzle_state_command_write, Running, WellFormedStack
<1>2. Tail(stack) = <<>> /\ stack # <<>> /\ Head(stack) = "command_write"
  BY <1>1
<1>3. /\ "write" \in Handlers /\ "command_write" \in Handlers
      /\ "packet_read" \in Handlers /\ "result_read" \in Handlers
  BY DEF Handlers
<1>4. /\ <<"write">> \o stack = <<"write", "command_write">>
      /\ (<<"write">> \o Reply) \o Tail(stack) \in {<<"write">>, <<"write", "packet_read", "result_read">>}
  <2>1. /\ <<"write">> \o <<"command_write">> = <<"write", "command_write">>
        /\ <<"write">> \o <<"packet_read", "result_read">> = <<"write", "packet_read", "result_read">>
    BY <1>3, Extensions
  <2>2. /\ <<"write">> \o <<>> = <<"write">>
        /\ <<"write", "packet_read", "result_read">> \o <<>> = <<"write", "packet_read", "result_read">>
    BY <1>3, OnEmpty
  <2> QED BY <1>1, <1>2, <2>1, <2>2 DEF Reply
<1>5. /\ UNCHANGED <<ready, packet_size, result>> /\ pc' = "loop" /\ rc' = rc
      /\ FlushFirst \/ CopyCommand
  BY <1>1 DEF drizzle_state_command_write, Continue
<1>6. /\ command \in [k : Nat, name : Commands, left : Nat]
      /\ command.left <= Chunks(command.name) /\ Chunks(command.name) \in Nat
      /\ buf \in Seq(Units) /\ packet_number \in 0..(PacketMod - 1)
  BY ProtocolAssumption DEF ProtocolAssumption, TypeOK, CommandTypeOK, CommandLeft, Chunks, ConnectionTypeOK
<1>7. ASSUME NEW m \in 1..command.left
      PROVE  Copied(m) \in Seq(Units)
  <2>1. ASSUME NEW i \in 1..m
        PROVE  Unit("whole", command.name, 0, command.k,
                    Chunks(command.name) - command.left + i) \in Units
    <3>1. /\ command.name \in ClientKinds /\ command.k \in Nat
          /\ Chunks(command.name) - command.left + i \in Nat
          /\ 0 \in 0..(PacketMod - 1)
      BY <1>6, ConfigAssumption DEF ConfigAssumption, ClientKinds
    <3> QED BY <3>1 DEF Unit, Units
  <2>2. m \in Nat
    BY <1>6
  <2> QED BY <2>1, <2>2, IsASeq DEF Copied
<1>8. /\ stack' \in {<<"write">>, <<"write", "command_write">>,
                     <<"write", "packet_read", "result_read">>}
      /\ packet_number' \in {1, packet_number}
      /\ buf' \in Seq(Units)
      /\ \/ command' = command
         \/ \E m \in 1..command.left : command' = [command EXCEPT !.left = @ - m]
      /\ \/ buf' = buf
         \/ \E m \in 1..command.left : buf' = buf \o Copied(m) \/ buf' = Copied(m)
  <2>1. CASE FlushFirst
    BY <1>4, <1>6, <2>1 DEF FlushFirst, Push
  <2>2. CASE CopyCommand
    <3>1. PICK m \in 1..command.left :
            /\ \/ packet_number' = 1 /\ buf' = buf \o Copied(m)
               \/ packet_number' = packet_number /\ buf' = Copied(m)
            /\ command' = [command EXCEPT !.left = @ - m]
            /\ \/ stack' = (<<"write">> \o Reply) \o Tail(stack)
               \/ stack' = <<"write">> \o stack
      BY <2>2 DEF CopyCommand, Replace, Push
    <3>2. buf' \in Seq(Units)
      BY <1>6, <1>7, <3>1, ConcatProperties
    <3> QED BY <1>4, <3>1, <3>2
  <2> QED BY <1>5, <2>1, <2>2
<1> QED BY <1>1, <1>5, <1>7, <1>8

(* drizzle_state_command_write.                                            *)
LEMMA CommandWriteStep ==
  ASSUME StackInvariant, drizzle_state_command_write
  PROVE  StackInvariant'
<1> USE DEF StackInvariant
<1>1. pc = "loop" /\ stack = <<"command_write">> /\ Quiet
  BY CommandWriteEffect
<1>2. stack # <<>> /\ Head(stack) = "command_write"
  BY <1>1
<1>3. UNCHANGED <<ready, packet_size, result>> /\ pc' = "loop" /\ rc' = rc
  BY CommandWriteEffect
<1>4. /\ command \in [k : Nat, name : Commands, left : Nat]
      /\ command.left <= Chunks(command.name) /\ Chunks(command.name) \in Nat
      /\ buf \in Seq(Units) /\ packet_number \in 0..(PacketMod - 1)
  BY ProtocolAssumption DEF ProtocolAssumption, TypeOK, CommandTypeOK, CommandLeft, Chunks, ConnectionTypeOK
<1>5. /\ stack' \in {<<"write">>, <<"write", "command_write">>,
                     <<"write", "packet_read", "result_read">>}
      /\ packet_number' \in {1, packet_number}
      /\ buf' \in Seq(Units)
      /\ \/ command' = command
         \/ \E m \in 1..command.left : command' = [command EXCEPT !.left = @ - m]
  BY CommandWriteEffect
<1>6. CommandTypeOK' /\ CommandLeft'
  <2>1. \A m \in 1..command.left :
          /\ [command EXCEPT !.left = @ - m] \in [k : Nat, name : Commands, left : Nat]
          /\ [command EXCEPT !.left = @ - m].left <= command.left
          /\ [command EXCEPT !.left = @ - m].name = command.name
    BY <1>4
  <2>2. /\ command' \in [k : Nat, name : Commands, left : Nat]
        /\ command'.left <= command.left /\ command'.name = command.name
    BY <1>4, <1>5, <2>1
  <2>3. command'.left <= Chunks(command'.name)
    BY <1>4, <2>2
  <2> QED BY <1>3, <2>2, <2>3 DEF TypeOK, CommandTypeOK, CommandLeft
<1>7. /\ ready' \in BOOLEAN /\ packet_number' \in 0..(PacketMod - 1)
      /\ packet_size' \in {0, 1}
  BY <1>3, <1>4, <1>5, ConfigAssumption DEF ConfigAssumption, TypeOK, ConnectionTypeOK
<1>8. stack' \in StackStates /\ stack' \notin RefusedStates
  BY <1>5 DEF StackStates, CommandStates, RefusedStates
<1>9. ~ Top({"connecting"})' /\ ParserHasPacket'
  BY <1>5 DEF Top, ParserHasPacket, Parsers
<1> QED BY <1>1, <1>2, <1>3, <1>5, <1>6, <1>7, <1>8, <1>9, ProtocolStep

----------------------------------------------------------------------------
(* drizzle_state_loop, the API functions and the application.              *)

(* The end of drizzle_state_loop on an error: whatever is not resumable is *)
(* closed, the stack with it.                                              *)
LEMMA StateLoopStopsStep ==
  ASSUME StackInvariant, StateLoopStops
  PROVE  StackInvariant'
<1> USE DEF StackInvariant
<1>1. /\ pc = "stop" /\ pc' = "leave" /\ rc' = rc /\ rc # "OK"
      /\ UNCHANGED <<addrinfo_next, packet_size, result, command, op, inConnect, skipped,
                     stage, commands, faults, connects>>
  BY DEF StateLoopStops, cmdVars, callVars, appVars, budgetVars, LoopOutcome
<1>2. CommandTypeOK' /\ CommandLeft' /\ CallTypeOK' /\ LoopOutcome'
  BY <1>1 DEF TypeOK, CommandTypeOK, CommandLeft, CallTypeOK, LoopOutcome
<1>3. ~ Top(Parsers \ {"field_read", "handshake_server_read"})
  BY <1>1 DEF ParserHasPacket
<1>4. CASE rc \in Resumable
  <2>1. UNCHANGED <<stack, sock, watch, s2c, c2s, server, ready, packet_number, events,
                    revents, buf>>
    BY <1>4 DEF StateLoopStops, Resumable, ioVars, conVars, pollVars
  <2>2. ConnectionTypeOK' /\ PeerTypeOK'
    BY <1>1, <2>1 DEF TypeOK, ConnectionTypeOK, PeerTypeOK
  <2>3. stack \in StackStates
    BY <1>1, <1>4 DEF LoopOutcome, WellFormedStack
  <2>4. WellFormedStack' /\ ParserHasPacket' /\ AddressKept'
    BY <1>1, <1>3, <1>4, <2>1, <2>3 DEF WellFormedStack, ParserHasPacket, AddressKept, Top
  <2> QED BY <1>2, <2>2, <2>4, Conclude
<1>5. CASE rc \notin Resumable
  <2>1. /\ sock' = "invalid" /\ ready' \in BOOLEAN
        /\ events' \subseteq Poll /\ revents' \subseteq Poll /\ watch' \subseteq Poll
        /\ packet_number' \in 0..(PacketMod - 1) /\ buf' \in Seq(Units)
        /\ s2c' \in Seq(Units) /\ c2s' \in Seq(Units) /\ server' \in Servers
        /\ \/ stack' = <<>>
           \/ sock = "invalid" /\ stack' = stack /\ buf' = buf
    BY <1>5, Close DEF StateLoopStops, Resumable, TypeOK
  <2>2. ConnectionTypeOK' /\ PeerTypeOK'
    BY <1>1, <2>1 DEF TypeOK, ConnectionTypeOK, PeerTypeOK, Sockets
  <2>3. stack' \in StackStates
    BY <1>1, <2>1 DEF LoopOutcome, WellFormedStack, StackStates
  <2>4. WellFormedStack' /\ ParserHasPacket' /\ AddressKept'
    BY <1>1, <1>3, <2>1, <2>3 DEF WellFormedStack, ParserHasPacket, AddressKept, Top
  <2> QED BY <1>2, <2>2, <2>4, Conclude
<1> QED BY <1>4, <1>5

(* The end of drizzle_state_loop on an empty stack.                        *)
LEMMA StateLoopEndsStep ==
  ASSUME StackInvariant, StateLoopEnds
  PROVE  StackInvariant'
<1> USE DEF StackInvariant
<1>1. /\ stack = <<>> /\ pc' = "leave" /\ rc' = "OK" /\ pc = "loop"
      /\ UNCHANGED <<stack, sock, watch, s2c, c2s, server, ready, packet_number, events,
                     revents, addrinfo_next, buf, packet_size, result, command, op,
                     inConnect, skipped, stage, commands, faults, connects>>
  BY DEF StateLoopEnds, ioVars, conVars, pollVars, dataVars, cmdVars, callVars, appVars,
     budgetVars
<1>2. ConnectionTypeOK' /\ PeerTypeOK' /\ CommandTypeOK' /\ CommandLeft'
  BY <1>1 DEF TypeOK, ConnectionTypeOK, PeerTypeOK, CommandTypeOK, CommandLeft
<1>3. CallTypeOK'
  BY <1>1 DEF TypeOK, CallTypeOK, Codes
<1>4. WellFormedStack' /\ LoopOutcome' /\ ParserHasPacket' /\ AddressKept'
  BY <1>1 DEF WellFormedStack, LoopOutcome, ParserHasPacket, AddressKept, Top, StackStates
<1> QED BY <1>2, <1>3, <1>4, Conclude

(* The part of an API function before or after drizzle_state_loop: it      *)
(* pushes on an empty stack only.                                          *)
LEMMA ApiStep ==
  ASSUME StackInvariant, pc \in {"app", "again", "leave"}, ApiOnly,
         connects' \in Nat, CommandTypeOK', CommandLeft', CallTypeOK',
         pc' \in {"loop", "app", "again", "wait"},
         \/ stack' = stack
         \/ /\ stack = <<>>
            /\ stack' \in {<<"addrinfo", "connect", "packet_read", "handshake_server_read">>,
                           <<"command_write">>, <<"packet_read", "column_read">>,
                           <<"packet_read", "row_read">>, <<"field_read">>}
  PROVE  StackInvariant'
<1> USE DEF StackInvariant
<1>1. UNCHANGED <<sock, watch, s2c, c2s, server, ready, packet_number, events, revents,
                  addrinfo_next, buf, packet_size, faults>>
  BY DEF ApiOnly, ioVars, conVars, pollVars, dataVars
<1>2. ConnectionTypeOK' /\ PeerTypeOK'
  BY <1>1 DEF TypeOK, ConnectionTypeOK, PeerTypeOK
<1>3. stack \in StackStates
  BY DEF WellFormedStack
<1>4. CASE stack' = stack
  <2>1. WellFormedStack' /\ LoopOutcome' /\ ParserHasPacket' /\ AddressKept'
    BY <1>1, <1>3, <1>4 DEF WellFormedStack, LoopOutcome, ParserHasPacket, AddressKept, Top
  <2> QED BY <1>2, <2>1, Conclude
<1>5. CASE /\ stack = <<>>
           /\ stack' \in {<<"addrinfo", "connect", "packet_read", "handshake_server_read">>,
                          <<"command_write">>, <<"packet_read", "column_read">>,
                          <<"packet_read", "row_read">>, <<"field_read">>}
  <2>1. stack' \in StackStates
    BY <1>5 DEF StackStates, ConnectStates, CommandStates, ReaderStates
  <2>2. addrinfo_next = 0 \/ sock = "invalid"
    BY <1>5 DEF AddressKept, Top
  <2>3. stack' # <<>> /\ Head(stack') \in {"addrinfo", "command_write", "packet_read", "field_read"}
    BY <1>5
  <2>4. WellFormedStack' /\ LoopOutcome' /\ ParserHasPacket' /\ AddressKept'
    BY <1>1, <2>1, <2>2, <2>3 DEF WellFormedStack, LoopOutcome, ParserHasPacket,
       AddressKept, Top, Parsers
  <2> QED BY <1>2, <2>4, Conclude
<1> QED BY <1>4, <1>5

(* The application's view of a reply keeps its type.                       *)
LEMMA StageTyped ==
  ASSUME stage \in {"columns", "rows", "done"}, NEW name, NEW code, NEW r
  PROVE  StageAfter(name, code, r) \in {"columns", "rows", "done"}
BY DEF StageAfter

(* An API function returns to the application.                             *)
LEMMA FinishStep ==
  ASSUME StackInvariant, pc \in {"app", "again", "leave"}, ApiOnly,
         NEW name \in Calls \cup {"fields", "close"}, NEW code \in Codes, NEW r \in Results,
         Finish(name, code, r)
  PROVE  StackInvariant'
<1> USE DEF StackInvariant
<1>1. /\ op' = name /\ rc' = code /\ pc' \in {"again", "app"} /\ result' = r
      /\ stage' = StageAfter(name, code, r) /\ inConnect' = FALSE /\ skipped' = 0
      /\ UNCHANGED <<stack, command, commands, connects>>
  BY DEF Finish
<1>2. stage' \in {"columns", "rows", "done"}
  BY <1>1, StageTyped DEF TypeOK, CallTypeOK
<1>3. CallTypeOK'
  BY <1>1, <1>2 DEF TypeOK, CallTypeOK
<1>4. CommandTypeOK' /\ CommandLeft' /\ connects' \in Nat
  BY <1>1 DEF TypeOK, CommandTypeOK, CommandLeft, PeerTypeOK
<1> QED BY <1>1, <1>3, <1>4, ApiStep

(* drizzle_connect pushes its states on an empty stack only.               *)
LEMMA EnterConnectTyped ==
  ASSUME StackInvariant, EnterConnect
  PROVE  /\ inConnect' = TRUE /\ commands' = commands /\ connects' \in Nat
         /\ CommandTypeOK' /\ CommandLeft'
         /\ \/ stack' = stack
            \/ /\ stack = <<>>
               /\ stack' = <<"addrinfo", "connect", "packet_read", "handshake_server_read">>
<1> USE DEF StackInvariant
<1>1. <<"addrinfo", "connect", "packet_read", "handshake_server_read">> \o <<>>
      = <<"addrinfo", "connect", "packet_read", "handshake_server_read">>
  BY OnEmpty DEF Handlers
<1>2. UNCHANGED <<result, command, commands>> /\ inConnect' = TRUE
  BY DEF EnterConnect, cmdVars
<1>3. CommandTypeOK' /\ CommandLeft'
  BY <1>2 DEF TypeOK, CommandTypeOK, CommandLeft
<1>4. CASE stack = <<>>
  <2>1. connects' = connects + 1 /\ stack' = <<"addrinfo", "connect", "packet_read", "handshake_server_read">> \o <<>>
    BY <1>4 DEF EnterConnect, Push
  <2> QED BY <1>1, <1>2, <1>3, <1>4, <2>1 DEF TypeOK, PeerTypeOK
<1>5. CASE stack # <<>>
  <2>1. UNCHANGED <<stack, connects>>
    BY <1>5 DEF EnterConnect
  <2> QED BY <1>2, <1>3, <2>1 DEF TypeOK, PeerTypeOK
<1> QED BY <1>4, <1>5

(* Making, freeing and filling in a result keep its type.                  *)
LEMMA ResultsTyped ==
  /\ EmptyResult \in Results /\ NewResult \in Results
  /\ \A r \in Results : Free(r) \in Results
<1>1. EmptyResult \in Results
  BY DEF EmptyResult, Results
<1>2. \A r \in Results : [r EXCEPT !.at = "live"] \in Results
  BY DEF Results
<1>3. [EmptyResult EXCEPT !.at = "freed"] \in Results
  BY DEF EmptyResult, Results
<1> QED BY <1>1, <1>2, <1>3 DEF NewResult, Free

(* drizzle_command_write pushes its state on an empty stack only.          *)
LEMMA EnterCommandTyped ==
  ASSUME StackInvariant, NEW name \in Commands, EnterCommand(name)
  PROVE  /\ inConnect' = FALSE /\ commands' \in Nat /\ connects' = connects
         /\ CommandTypeOK' /\ CommandLeft'
         /\ stack' = stack \/ (stack = <<>> /\ stack' = <<"command_write">>)
<1> USE DEF StackInvariant
<1>1. <<"command_write">> \o <<>> = <<"command_write">>
  BY OnEmpty DEF Handlers
<1>2. inConnect' = FALSE /\ connects' = connects
  BY DEF EnterCommand
<1>3. /\ commands \in Nat /\ result \in Results /\ Chunks(name) \in Nat
      /\ command \in [k : Nat, name : Commands, left : Nat]
  BY ProtocolAssumption DEF ProtocolAssumption, TypeOK, CallTypeOK, CommandTypeOK, Chunks
<1>4. CASE stack = <<>>
  <2>1. /\ commands' = commands + 1 /\ stack' = <<"command_write">>
        /\ command' = [k |-> commands + 1, name |-> name, left |-> Chunks(name)]
        /\ result' \in {EmptyResult, NewResult}
    BY <1>1, <1>4 DEF EnterCommand, Push
  <2>2. result' \in Results
    BY <2>1, ResultsTyped
  <2>3. /\ command' \in [k : Nat, name : Commands, left : Nat]
        /\ command'.left <= Chunks(command'.name)
    BY <1>3, <2>1
  <2> QED BY <1>2, <1>3, <1>4, <2>1, <2>2, <2>3 DEF CommandTypeOK, CommandLeft
<1>5. CASE stack # <<>>
  <2>1. UNCHANGED <<commands, command, result, stack>>
    BY <1>5 DEF EnterCommand
  <2> QED BY <1>2, <1>3, <2>1 DEF CommandTypeOK, CommandLeft
<1> QED BY <1>4, <1>5

(* The readers of a reply push their states on an empty stack only.        *)
LEMMA EnterReaderTyped ==
  ASSUME StackInvariant, NEW h \in {"column_read", "row_read"}, NEW r \in Results,
         EnterReader(h, r)
  PROVE  /\ commands' = commands /\ connects' = connects
         /\ CommandTypeOK' /\ CommandLeft'
         /\ stack' = stack \/ (stack = <<>> /\ stack' = <<"packet_read", h>>)
<1> USE DEF StackInvariant
<1>1. <<"packet_read", h>> \o <<>> = <<"packet_read", h>>
  BY OnEmpty DEF Handlers
<1>2. /\ UNCHANGED <<command, commands, connects>>
      /\ result' \in {r, [r EXCEPT !.skip = result.skip]}
      /\ stack' = stack \/ (stack = <<>> /\ stack' = <<"packet_read", h>>)
  BY <1>1 DEF EnterReader, Push
<1>3. result' \in Results
  <2>1. result.skip \in BOOLEAN
    BY DEF TypeOK, CommandTypeOK, Results
  <2>2. \A b \in BOOLEAN : [r EXCEPT !.skip = b] \in Results
    BY DEF Results
  <2> QED BY <1>2, <2>1, <2>2
<1> QED BY <1>2, <1>3 DEF TypeOK, CommandTypeOK, CommandLeft

(* drizzle_connect returns, waits, or goes on with the command it was      *)
(* called for: then the stack is empty.                                    *)
LEMMA ConnectReturnsStep ==
  ASSUME StackInvariant, ConnectReturns
  PROVE  StackInvariant'
<1> USE DEF StackInvariant
<1>1. pc = "leave" /\ ApiOnly
  BY DEF ConnectReturns
<1>2. CASE /\ pc' = "wait"
           /\ UNCHANGED <<stack, rc, cmdVars, callVars, appVars, connects>>
  <2>1. UNCHANGED <<stack, rc, result, command, op, inConnect, skipped, stage, commands,
                    connects>> /\ pc' = "wait"
    BY <1>2 DEF cmdVars, callVars, appVars
  <2>2. CommandTypeOK' /\ CommandLeft' /\ CallTypeOK' /\ connects' \in Nat
    BY <2>1 DEF TypeOK, CommandTypeOK, CommandLeft, CallTypeOK, PeerTypeOK
  <2> QED BY <1>1, <2>1, <2>2, ApiStep
<1>3. CASE /\ op \in Commands /\ pc' = "loop" /\ EnterCommand(op)
           /\ UNCHANGED <<rc, op, skipped, stage>>
  <2>1. /\ inConnect' = FALSE /\ commands' \in Nat /\ connects' = connects
        /\ CommandTypeOK' /\ CommandLeft'
        /\ stack' = stack \/ (stack = <<>> /\ stack' = <<"command_write">>)
    BY <1>3, EnterCommandTyped
  <2>2. CallTypeOK' /\ connects' \in Nat
    BY <1>3, <2>1 DEF TypeOK, CallTypeOK, PeerTypeOK
  <2> QED BY <1>1, <1>3, <2>1, <2>2, ApiStep
<1>4. CASE Finish(op, rc, result)
  BY <1>1, <1>4, FinishStep DEF TypeOK, CallTypeOK, CommandTypeOK
<1> QED BY <1>2, <1>3, <1>4 DEF ConnectReturns

(* drizzle_command_write returns.                                          *)
LEMMA CommandReturnsStep ==
  ASSUME StackInvariant, CommandReturns
  PROVE  StackInvariant'
<1> USE DEF StackInvariant
<1>1. pc = "leave" /\ ApiOnly /\ op \in Calls \cup {"fields", "close"}
  BY DEF CommandReturns, TypeOK, CallTypeOK
<1> DEFINE code == IF rc = "PAUSE" THEN "OK" ELSE rc
           left == IF code \in {"OK", "IO_WAIT", "ERROR_CODE"} THEN result ELSE EmptyResult
           r == IF op = "init_db" THEN Free(left) ELSE left
<1>2. code \in Codes
  BY DEF Codes, TypeOK, CallTypeOK
<1>3. r \in Results
  BY ResultsTyped DEF TypeOK, CommandTypeOK
<1>4. Finish(op, code, r)
  BY DEF CommandReturns
<1> HIDE DEF code, r
<1> QED BY <1>1, <1>2, <1>3, <1>4, FinishStep

(* drizzle_quit frees the connection.                                      *)
LEMMA QuitReturnsStep ==
  ASSUME StackInvariant, QuitReturns
  PROVE  StackInvariant'
<1> USE DEF StackInvariant
<1>1. /\ pc = "leave" /\ addrinfo_next' = 0 /\ result' = Free(result) /\ pc' = "freed"
      /\ rc' \in {"OK", rc} /\ drizzle_close
      /\ UNCHANGED <<packet_size, command, op, inConnect, skipped, stage, commands, faults,
                     connects>>
  BY DEF QuitReturns, callVars, appVars, budgetVars
<1>2. /\ sock' = "invalid" /\ ready' \in BOOLEAN
      /\ events' \subseteq Poll /\ revents' \subseteq Poll /\ watch' \subseteq Poll
      /\ packet_number' \in 0..(PacketMod - 1) /\ buf' \in Seq(Units)
      /\ s2c' \in Seq(Units) /\ c2s' \in Seq(Units) /\ server' \in Servers
      /\ \/ stack' = <<>>
         \/ sock = "invalid" /\ stack' = stack /\ buf' = buf
  BY <1>1, Close DEF TypeOK
<1>3. ConnectionTypeOK' /\ PeerTypeOK'
  BY <1>1, <1>2, ConfigAssumption DEF ConfigAssumption, TypeOK, ConnectionTypeOK,
     PeerTypeOK, Sockets
<1>4. CommandTypeOK' /\ CommandLeft'
  BY <1>1, ResultsTyped DEF TypeOK, CommandTypeOK, CommandLeft
<1>5. CallTypeOK'
  BY <1>1 DEF TypeOK, CallTypeOK, Codes
<1>6. stack' \in StackStates /\ ~ Top(Parsers \ {"field_read", "handshake_server_read"})
  BY <1>1, <1>2 DEF WellFormedStack, StackStates, ParserHasPacket
<1>7. WellFormedStack' /\ LoopOutcome' /\ ParserHasPacket' /\ AddressKept'
  BY <1>1, <1>2, <1>6 DEF WellFormedStack, LoopOutcome, ParserHasPacket, AddressKept, Top
<1> QED BY <1>3, <1>4, <1>5, <1>7, Conclude

(* Setting a flag of a result keeps its type.                              *)
LEMMA ResultFieldsTyped ==
  ASSUME NEW r \in Results, NEW b \in BOOLEAN
  PROVE  /\ [r EXCEPT !.column = b] \in Results /\ [r EXCEPT !.skip = b] \in Results
         /\ [r EXCEPT !.buffered = b] \in Results
         /\ [r EXCEPT !.column_current = 0] \in Results
BY DEF Results

(* drizzle_column_buffer returns, or reads the next column.                *)
LEMMA ColumnsReturnStep ==
  ASSUME StackInvariant, ColumnsReturn
  PROVE  StackInvariant'
<1> USE DEF StackInvariant
<1>1. /\ pc = "leave" /\ ApiOnly /\ op = "columns" /\ rc \in Codes /\ result \in Results
      /\ op \in Calls
  BY DEF ColumnsReturn, TypeOK, CallTypeOK, CommandTypeOK, Calls
<1>2. CASE EnterColumn /\ Start(op) /\ UNCHANGED <<inConnect, skipped, stage>>
  <2>1. [result EXCEPT !.column = TRUE] \in Results
    BY <1>1, ResultFieldsTyped
  <2>2. /\ commands' = commands /\ connects' = connects
        /\ CommandTypeOK' /\ CommandLeft'
        /\ stack' = stack \/ (stack = <<>> /\ stack' = <<"packet_read", "column_read">>)
    BY <1>2, <2>1, EnterReaderTyped DEF EnterColumn
  <2>3. CallTypeOK' /\ pc' = "loop" /\ connects' \in Nat
    BY <1>1, <1>2, <2>2 DEF Start, TypeOK, CallTypeOK, PeerTypeOK
  <2> QED BY <1>1, <2>2, <2>3, ApiStep
<1>3. CASE Finish(op, rc, IF rc = "OK"
                          THEN [result EXCEPT !.column_current = 0, !.buffered = TRUE]
                          ELSE result)
  <2>1. [result EXCEPT !.column_current = 0, !.buffered = TRUE] \in Results
    BY <1>1 DEF Results
  <2> QED BY <1>1, <1>3, <2>1, FinishStep
<1> QED BY <1>2, <1>3 DEF ColumnsReturn

(* drizzle_column_skip_all returns, or skips the next column.              *)
LEMMA SkipReturnsStep ==
  ASSUME StackInvariant, SkipReturns
  PROVE  StackInvariant'
<1> USE DEF StackInvariant
<1>1. /\ pc = "leave" /\ ApiOnly /\ op = "skip" /\ rc \in Codes /\ result \in Results
      /\ op \in Calls
  BY DEF SkipReturns, TypeOK, CallTypeOK, CommandTypeOK, Calls
<1>2. CASE EnterSkip /\ Start(op) /\ skipped' = skipped + 1 /\ UNCHANGED <<inConnect, stage>>
  <2>1. [result EXCEPT !.skip = TRUE] \in Results
    BY <1>1, ResultFieldsTyped
  <2>2. /\ commands' = commands /\ connects' = connects
        /\ CommandTypeOK' /\ CommandLeft'
        /\ stack' = stack \/ (stack = <<>> /\ stack' = <<"packet_read", "column_read">>)
    BY <1>2, <2>1, EnterReaderTyped DEF EnterSkip
  <2>3. CallTypeOK' /\ pc' = "loop" /\ connects' \in Nat
    BY <1>1, <1>2, <2>2 DEF Start, TypeOK, CallTypeOK, PeerTypeOK
  <2> QED BY <1>1, <2>2, <2>3, ApiStep
<1>3. CASE Finish(op, rc, [result EXCEPT !.skip = FALSE])
  <2>1. [result EXCEPT !.skip = FALSE] \in Results
    BY <1>1, ResultFieldsTyped
  <2> QED BY <1>1, <1>3, <2>1, FinishStep
<1> QED BY <1>2, <1>3 DEF SkipReturns

(* drizzle_row_buffer returns, or reads the fields of the row it found.    *)
LEMMA RowReturnsStep ==
  ASSUME StackInvariant, RowReturns
  PROVE  StackInvariant'
<1> USE DEF StackInvariant
<1>1. /\ pc = "leave" /\ ApiOnly /\ rc \in Codes /\ result \in Results /\ "row" \in Calls
  BY DEF RowReturns, TypeOK, CallTypeOK, CommandTypeOK, Calls
<1>2. CASE /\ rc = "OK" /\ Push(<<"field_read">>) /\ Start("fields")
           /\ UNCHANGED <<inConnect, skipped, stage, cmdVars, commands, connects>>
  <2>1. stack = <<>>
    BY <1>1, <1>2 DEF LoopOutcome
  <2>2. stack' = <<"field_read">>
    BY <1>2, <2>1, OnEmpty DEF Push, Handlers
  <2>3. /\ UNCHANGED <<inConnect, skipped, stage, result, command, commands, connects, rc>>
        /\ op' = "fields" /\ pc' = "loop"
    BY <1>2 DEF Start, cmdVars
  <2>4. CallTypeOK' /\ CommandTypeOK' /\ CommandLeft' /\ connects' \in Nat
    BY <2>3 DEF TypeOK, CallTypeOK, CommandTypeOK, CommandLeft, PeerTypeOK
  <2> QED BY <1>1, <2>1, <2>2, <2>3, <2>4, ApiStep
<1>3. CASE Finish("row", rc, result)
  BY <1>1, <1>3, FinishStep
<1> QED BY <1>2, <1>3 DEF RowReturns

(* A call of drizzle_connect.                                              *)
LEMMA CallConnectStep ==
  ASSUME StackInvariant, CallConnect
  PROVE  StackInvariant'
<1> USE DEF StackInvariant
<1>1. /\ pc \in {"app", "again"} /\ ApiOnly /\ "connect" \in Calls /\ result \in Results
      /\ "OK" \in Codes
  BY DEF CallConnect, May, AppRuns, Calls, Codes, TypeOK, CommandTypeOK
<1>2. CASE Finish("connect", "OK", result)
  BY <1>1, <1>2, FinishStep
<1>3. CASE EnterConnect /\ Start("connect") /\ UNCHANGED <<skipped, stage>>
  <2>1. /\ inConnect' = TRUE /\ commands' = commands /\ connects' \in Nat
        /\ CommandTypeOK' /\ CommandLeft'
        /\ \/ stack' = stack
           \/ /\ stack = <<>>
              /\ stack' = <<"addrinfo", "connect", "packet_read", "handshake_server_read">>
    BY <1>3, EnterConnectTyped
  <2>2. CallTypeOK' /\ pc' = "loop"
    BY <1>1, <1>3, <2>1 DEF Start, TypeOK, CallTypeOK
  <2> QED BY <1>1, <2>1, <2>2, ApiStep
<1> QED BY <1>2, <1>3 DEF CallConnect

(* A call that sends a command.                                            *)
LEMMA CallCommandStep ==
  ASSUME StackInvariant, NEW name \in Commands, CallCommand(name)
  PROVE  StackInvariant'
<1> USE DEF StackInvariant
<1>1. /\ pc \in {"app", "again"} /\ ApiOnly /\ name \in Calls
      /\ EnterConnect \/ EnterCommand(name)
      /\ op' = name /\ pc' = "loop" /\ rc' = rc /\ UNCHANGED <<skipped, stage>>
  BY DEF CallCommand, May, AppRuns, Calls, Start
<1>2. CASE EnterConnect
  <2>1. /\ inConnect' = TRUE /\ commands' = commands /\ connects' \in Nat
        /\ CommandTypeOK' /\ CommandLeft'
        /\ \/ stack' = stack
           \/ /\ stack = <<>>
              /\ stack' = <<"addrinfo", "connect", "packet_read", "handshake_server_read">>
    BY <1>2, EnterConnectTyped
  <2>2. CallTypeOK'
    BY <1>1, <2>1 DEF TypeOK, CallTypeOK
  <2> QED BY <1>1, <2>1, <2>2, ApiStep
<1>3. CASE EnterCommand(name)
  <2>1. /\ inConnect' = FALSE /\ commands' \in Nat /\ connects' = connects
        /\ CommandTypeOK' /\ CommandLeft'
        /\ stack' = stack \/ (stack = <<>> /\ stack' = <<"command_write">>)
    BY <1>3, EnterCommandTyped
  <2>2. CallTypeOK' /\ connects' \in Nat
    BY <1>1, <2>1 DEF TypeOK, CallTypeOK, PeerTypeOK
  <2> QED BY <1>1, <2>1, <2>2, ApiStep
<1> QED BY <1>1, <1>2, <1>3

(* The three readers of a reply.                                           *)
LEMMA ReaderStep ==
  ASSUME StackInvariant, pc \in {"app", "again"}, ApiOnly,
         NEW name \in Calls, NEW h \in {"column_read", "row_read"}, NEW r \in Results,
         EnterReader(h, r), Start(name), UNCHANGED <<inConnect, skipped, stage>>
  PROVE  StackInvariant'
<1> USE DEF StackInvariant
<1>1. /\ commands' = commands /\ connects' = connects
      /\ CommandTypeOK' /\ CommandLeft'
      /\ stack' = stack \/ (stack = <<>> /\ stack' = <<"packet_read", h>>)
  BY EnterReaderTyped
<1>2. op' = name /\ pc' = "loop" /\ rc' = rc
  BY DEF Start
<1>3. CallTypeOK' /\ connects' \in Nat
  BY <1>1, <1>2 DEF TypeOK, CallTypeOK, PeerTypeOK
<1> QED BY <1>1, <1>2, <1>3, ApiStep

(* A call that reads columns or a row.                                     *)
LEMMA CallReaderStep ==
  ASSUME StackInvariant, CallColumns \/ CallSkip \/ CallRow
  PROVE  StackInvariant'
<1> USE DEF StackInvariant
<1>1. /\ pc \in {"app", "again"} /\ ApiOnly /\ {"columns", "skip", "row"} \subseteq Calls
      /\ result \in Results /\ "OK" \in Codes /\ "NOT_READY" \in Codes
  BY DEF CallColumns, CallSkip, CallRow, May, AppRuns, Calls, Codes, TypeOK, CommandTypeOK
<1>2. /\ [result EXCEPT !.column = TRUE] \in Results
      /\ [result EXCEPT !.skip = TRUE] \in Results
      /\ [result EXCEPT !.buffered = TRUE] \in Results
  BY <1>1, ResultFieldsTyped
<1>3. CASE CallColumns
  <2>1. CASE Finish("columns", "OK", [result EXCEPT !.buffered = TRUE])
    BY <1>1, <1>2, <2>1, FinishStep
  <2>2. CASE EnterColumn /\ Start("columns") /\ UNCHANGED <<inConnect, skipped, stage>>
    BY <1>1, <1>2, <2>2, ReaderStep DEF EnterColumn
  <2> QED BY <1>3, <2>1, <2>2 DEF CallColumns
<1>4. CASE CallSkip
  <2>1. CASE Finish("skip", "OK", result)
    BY <1>1, <2>1, FinishStep
  <2>2. CASE EnterSkip /\ Start("skip") /\ UNCHANGED <<inConnect, skipped, stage>>
    BY <1>1, <1>2, <2>2, ReaderStep DEF EnterSkip
  <2> QED BY <1>4, <2>1, <2>2 DEF CallSkip
<1>5. CASE CallRow
  <2>1. CASE Finish("row", "NOT_READY", result)
    BY <1>1, <2>1, FinishStep
  <2>2. CASE EnterRow /\ Start("row") /\ UNCHANGED <<inConnect, skipped, stage>>
    BY <1>1, <1>2, <2>2, ReaderStep DEF EnterRow
  <2> QED BY <1>5, <2>1, <2>2 DEF CallRow
<1> QED BY <1>3, <1>4, <1>5

(* A call of drizzle_result_free.                                          *)
LEMMA CallResultFreeStep ==
  ASSUME StackInvariant, CallResultFree
  PROVE  StackInvariant'
<1> USE DEF StackInvariant
<1>1. /\ pc \in {"app", "again"} /\ ApiOnly /\ result' = Free(result)
      /\ UNCHANGED <<stack, command, pc, rc, op, inConnect, skipped, stage, commands, connects>>
  BY DEF CallResultFree, AppRuns, callVars, appVars
<1>2. CommandTypeOK' /\ CommandLeft' /\ CallTypeOK' /\ connects' \in Nat
  BY <1>1, ResultsTyped DEF TypeOK, CommandTypeOK, CommandLeft, CallTypeOK, PeerTypeOK
<1> QED BY <1>1, <1>2, ApiStep

(* Between two calls the connection may be closed, or an event reported.   *)
LEMMA BetweenCalls ==
  ASSUME StackInvariant, pc \in {"app", "again"},
         UNCHANGED <<addrinfo_next, packet_size, result, command, faults, connects>>,
         pc' \in {"app", "again"}, CallTypeOK',
         sock' \in Sockets, ready' \in BOOLEAN,
         events' \subseteq Poll, revents' \subseteq Poll, watch' \subseteq Poll,
         packet_number' \in 0..(PacketMod - 1), buf' \in Seq(Units),
         s2c' \in Seq(Units), c2s' \in Seq(Units), server' \in Servers,
         \/ stack' = <<>> /\ sock' = "invalid"
         \/ stack' = stack /\ buf' = buf /\ sock' = sock
  PROVE  StackInvariant'
<1> USE DEF StackInvariant
<1>1. ConnectionTypeOK' /\ PeerTypeOK' /\ CommandTypeOK' /\ CommandLeft'
  BY DEF TypeOK, ConnectionTypeOK, PeerTypeOK, CommandTypeOK, CommandLeft
<1>2. stack' \in StackStates
  BY DEF WellFormedStack, StackStates
<1>3. WellFormedStack' /\ LoopOutcome' /\ ParserHasPacket' /\ AddressKept'
  BY <1>2 DEF WellFormedStack, LoopOutcome, ParserHasPacket, AddressKept, Top
<1> QED BY <1>1, <1>3, Conclude

(* A call of drizzle_close.                                                *)
LEMMA CallCloseStep ==
  ASSUME StackInvariant, CallClose
  PROVE  StackInvariant'
<1> USE DEF StackInvariant
<1>1. /\ pc \in {"app", "again"} /\ drizzle_close /\ sock # "invalid"
      /\ pc' = "app" /\ op' = "close" /\ rc' = "OK" /\ stage' = "done"
      /\ UNCHANGED <<inConnect, skipped, commands, addrinfo_next, packet_size, result,
                     command, faults, connects>>
  BY DEF CallClose, AppRuns, cmdVars, budgetVars
<1>2. CallTypeOK'
  BY <1>1 DEF TypeOK, CallTypeOK, Codes
<1>3. /\ sock' = "invalid" /\ ready' \in BOOLEAN
      /\ events' \subseteq Poll /\ revents' \subseteq Poll /\ watch' \subseteq Poll
      /\ packet_number' \in 0..(PacketMod - 1) /\ buf' \in Seq(Units)
      /\ s2c' \in Seq(Units) /\ c2s' \in Seq(Units) /\ server' \in Servers
      /\ stack' = <<>>
  BY <1>1, Close DEF TypeOK
<1> QED BY <1>1, <1>2, <1>3, BetweenCalls DEF Sockets

(* drizzle_wait and the event loop between two calls: only poll masks      *)
(* change, or the connection is closed.                                    *)
LEMMA LoopStep ==
  ASSUME StackInvariant, LoopNext
  PROVE  StackInvariant'
<1> USE DEF StackInvariant
<1>1. /\ pc \in {"app", "again"} /\ AroundCalls
      /\ \/ \E r \in SUBSET Poll, w \in SUBSET Poll : SetRevents(r, w)
         \/ drizzle_close
  <2>1. watch \subseteq Poll /\ events \subseteq Poll
    BY DEF TypeOK, ConnectionTypeOK, PeerTypeOK
  <2>2. \A mask \in SUBSET Poll : Reported(mask) \subseteq SUBSET Poll
    BY DEF Reported, Poll
  <2>3. CASE AppWait
    BY <2>1, <2>2, <2>3 DEF AppWait
  <2>4. CASE AppEventLoop
    BY <2>1, <2>2, <2>4 DEF AppEventLoop, AppRuns
  <2>5. CASE AppLoopStale
    BY <2>1, <2>5, {"NVAL"} \subseteq Poll DEF AppLoopStale, AppRuns, Poll
  <2> QED BY <2>3, <2>4, <2>5 DEF LoopNext
<1>2. UNCHANGED <<addrinfo_next, packet_size, result, command, pc, rc, op, inConnect,
                  skipped, stage, commands, faults, connects>>
  BY <1>1 DEF AroundCalls, cmdVars, callVars, appVars, budgetVars
<1>3. CallTypeOK'
  BY <1>2 DEF TypeOK, CallTypeOK
<1>4. CASE drizzle_close
  <2>1. /\ sock' = "invalid" /\ ready' \in BOOLEAN
        /\ events' \subseteq Poll /\ revents' \subseteq Poll /\ watch' \subseteq Poll
        /\ packet_number' \in 0..(PacketMod - 1) /\ buf' \in Seq(Units)
        /\ s2c' \in Seq(Units) /\ c2s' \in Seq(Units) /\ server' \in Servers
        /\ \/ stack' = <<>>
           \/ sock = "invalid" /\ stack' = stack /\ buf' = buf
    BY <1>4, Close DEF TypeOK
  <2> QED BY <1>1, <1>2, <1>3, <2>1, BetweenCalls DEF Sockets
<1>5. ASSUME NEW r \in SUBSET Poll, NEW w \in SUBSET Poll, SetRevents(r, w)
      PROVE  StackInvariant'
  <2>1. /\ revents' \subseteq Poll /\ events' \subseteq Poll /\ watch' \subseteq Poll
        /\ UNCHANGED <<stack, sock, s2c, c2s, server, ready, packet_number, buf>>
    BY <1>5 DEF SetRevents, conVars, TypeOK, ConnectionTypeOK
  <2>2. /\ sock' \in Sockets /\ ready' \in BOOLEAN
        /\ packet_number' \in 0..(PacketMod - 1) /\ buf' \in Seq(Units)
        /\ s2c' \in Seq(Units) /\ c2s' \in Seq(Units) /\ server' \in Servers
    BY <2>1 DEF TypeOK, ConnectionTypeOK, PeerTypeOK
  <2> QED BY <1>1, <1>2, <1>3, <2>1, <2>2, BetweenCalls
<1> QED BY <1>1, <1>4, <1>5

----------------------------------------------------------------------------
(* The peer.                                                               *)

(* The units of packets of known kinds are units.                          *)
LEMMA StreamTyped ==
  ASSUME NEW kinds \in Seq(ServerKinds), NEW seq \in Nat, NEW k \in Nat,
         NEW columns \in Nat
  PROVE  Stream(kinds, seq, k, columns) \in Seq(Units)
<1>1. Len(kinds) \in Nat /\ 2 * Len(kinds) \in Nat
  OBVIOUS
<1>2. ASSUME NEW j \in 1..(2 * Len(kinds))
      PROVE  Stream(kinds, seq, k, columns)[j] \in Units
  <2> DEFINE p == (j + 1) \div 2
  <2>1. p \in 1..Len(kinds)
    BY <1>1
  <2>2. kinds[p] \in ServerKinds
    BY <2>1
  <2>3. (seq + p - 1) % PacketMod \in 0..(PacketMod - 1)
    BY <2>1, <1>1, ConfigAssumption DEF ConfigAssumption
  <2>4. Stream(kinds, seq, k, columns)[j] =
          Unit(IF j % 2 = 1 THEN "head" ELSE "body", kinds[p],
               (seq + p - 1) % PacketMod, k,
               IF kinds[p] = "count" THEN columns ELSE 0)
    BY DEF Stream
  <2> HIDE DEF p
  <2> QED BY <2>2, <2>3, <2>4 DEF Unit, Units
<1> QED BY <1>1, <1>2, IsASeq DEF Stream

(* A result set is a sequence of packets of known kinds.                   *)
LEMMA ResultSetTyped ==
  ASSUME NEW c \in Nat, NEW r \in Nat, NEW last \in {"eof", "err"}
  PROVE  ResultSet(c, r, last) \in Seq(ServerKinds)
<1>1. \A p \in 1..(c + r + 3) : ResultSet(c, r, last)[p] \in ServerKinds
  BY DEF ResultSet, ServerKinds
<1> QED BY <1>1, IsASeq, c + r + 3 \in Nat DEF ResultSet

(* What the server says is added to what is on its way to the library.     *)
LEMMA SayTyped ==
  ASSUME PeerTypeOK, NEW kinds \in Seq(ServerKinds), NEW seq \in Nat,
         NEW k \in Nat, NEW columns \in Nat, Say(kinds, seq, k, columns)
  PROVE  s2c' \in Seq(Units)
<1>1. Stream(kinds, seq, k, columns) \in Seq(Units)
  BY StreamTyped
<1>2. s2c \in Seq(Units)
  BY DEF PeerTypeOK
<1> QED BY <1>1, <1>2, ConcatProperties DEF Say

(* The same, for one packet.                                               *)
LEMMA SayOneTyped ==
  ASSUME PeerTypeOK, NEW kind \in ServerKinds, NEW seq \in Nat, NEW k \in Nat,
         Say(<<kind>>, seq, k, 0)
  PROVE  s2c' \in Seq(Units)
<1>1. <<kind>> \in Seq(ServerKinds)
  OBVIOUS
<1> QED BY <1>1, SayTyped

(* No step of the peer makes the library's socket invalid, or valid.       *)
LEMMA PeerTyped ==
  ASSUME ConnectionTypeOK, CommandTypeOK, PeerTypeOK, PeerNext
  PROVE  PeerTypeOK' /\ sock' \in Sockets /\ (sock' = "invalid" <=> sock = "invalid")
         /\ Library
<1>1. /\ s2c \in Seq(Units) /\ c2s \in Seq(Units) /\ faults \in Nat
      /\ server \in Servers /\ watch \subseteq Poll /\ connects \in Nat
      /\ sock \in Sockets
  BY DEF PeerTypeOK, ConnectionTypeOK
<1>2. {"greeting", "err", "refusal", "ok", "eof"} \subseteq ServerKinds
  BY DEF ServerKinds
<1> SUFFICES /\ sock' \in Sockets /\ (sock' = "invalid" <=> sock = "invalid")
             /\ watch' = watch /\ faults' \in Nat /\ server' \in Servers
             /\ s2c' \in Seq(Units) /\ c2s' \in Seq(Units) /\ Library
  BY <1>1 DEF PeerTypeOK, Library
<1>3. CASE KernelConnects
  BY <1>1, <1>3 DEF KernelConnects, Sockets, Servers, NoFault, Fault
<1>4. CASE ServerGreets
  <2>1. s2c' \in Seq(Units)
    BY <1>2, <1>4, SayOneTyped DEF ServerGreets
  <2> QED BY <1>1, <1>4, <2>1 DEF ServerGreets, Servers, NoFault, Fault
<1>5. CASE ServerAuthenticates
  <2>1. Head(c2s) \in Units /\ Tail(c2s) \in Seq(Units)
    BY <1>1, <1>5, HeadTailProperties DEF ServerAuthenticates
  <2>2. (Head(c2s).seq + 1) % PacketMod \in Nat
    BY <2>1, ConfigAssumption DEF Units, ConfigAssumption
  <2>3. s2c' \in Seq(Units)
    BY <1>1, <1>2, <1>5, <2>2, SayOneTyped DEF ServerAuthenticates
  <2>4. faults' \in Nat /\ server' \in Servers
    BY <1>1, <1>5 DEF ServerAuthenticates, Servers, NoFault, Fault
  <2> QED BY <1>1, <1>5, <2>1, <2>3, <2>4 DEF ServerAuthenticates
<1>6. CASE ServerAnswers
  <2>1. Head(c2s) \in Units /\ Tail(c2s) \in Seq(Units)
    BY <1>1, <1>6, HeadTailProperties DEF ServerAnswers
  <2>2. Head(c2s).k \in Nat
    BY <2>1 DEF Units
  <2>3. \/ s2c' = s2c
        \/ \E kind \in {"ok", "err"} : Say(<<kind>>, 1, Head(c2s).k, 0)
        \/ \E c \in 1..MaxColumns, r \in 0..MaxRows, last \in {"eof", "err"} :
             Say(ResultSet(c, r, last), 1, Head(c2s).k, c)
    BY <1>6 DEF ServerAnswers
  <2>4. ASSUME NEW kind \in {"ok", "err"}, Say(<<kind>>, 1, Head(c2s).k, 0)
        PROVE  s2c' \in Seq(Units)
    BY <1>2, <2>2, <2>4, SayOneTyped
  <2>5. ASSUME NEW c \in 1..MaxColumns, NEW r \in 0..MaxRows,
               NEW last \in {"eof", "err"},
               Say(ResultSet(c, r, last), 1, Head(c2s).k, c)
        PROVE  s2c' \in Seq(Units)
    <3>1. c \in Nat /\ r \in Nat
      BY ProtocolAssumption DEF ProtocolAssumption
    <3>2. ResultSet(c, r, last) \in Seq(ServerKinds)
      BY <3>1, ResultSetTyped
    <3> QED BY <2>2, <2>5, <3>1, <3>2, SayTyped
  <2>6. s2c' \in Seq(Units)
    BY <1>1, <2>3, <2>4, <2>5
  <2>7. server' \in Servers
    BY <1>1, <1>6 DEF ServerAnswers, Servers
  <2> QED BY <1>1, <1>6, <2>1, <2>6, <2>7 DEF ServerAnswers, NoFault
<1>7. CASE ServerFails
  <2>1. s2c' \in Seq(Units)
    BY <1>1, <1>2, <1>7, SayOneTyped DEF ServerFails
  <2> QED BY <1>1, <1>7, <2>1 DEF ServerFails, Servers, Fault
<1> QED BY <1>3, <1>4, <1>5, <1>6, <1>7 DEF PeerNext

(* A step of the peer leaves the library alone.                            *)
LEMMA PeerStep ==
  ASSUME StackInvariant, PeerNext
  PROVE  StackInvariant'
<1> USE DEF StackInvariant
<1>1. /\ PeerTypeOK' /\ sock' \in Sockets
      /\ (sock' = "invalid" <=> sock = "invalid") /\ Library
  BY PeerTyped DEF TypeOK
<1>2. UNCHANGED <<stack, ready, packet_number, events, revents, addrinfo_next,
                  buf, packet_size, result, command, pc, rc, op, inConnect,
                  skipped, stage, commands, connects>>
  BY <1>1 DEF Library, conVars, pollVars, dataVars, cmdVars, callVars, appVars
<1>3. TypeOK'
  BY <1>1, <1>2 DEF TypeOK, ConnectionTypeOK, CommandTypeOK, CallTypeOK
<1>4. WellFormedStack'
  BY <1>2 DEF WellFormedStack
<1>5. LoopOutcome'
  BY <1>1, <1>2 DEF LoopOutcome
<1>6. ParserHasPacket'
  BY <1>2 DEF ParserHasPacket, Top
<1>7. AddressKept'
  BY <1>1, <1>2 DEF AddressKept, Top
<1>8. CommandLeft'
  BY <1>2 DEF CommandLeft
<1> QED BY <1>3, <1>4, <1>5, <1>6, <1>7, <1>8

----------------------------------------------------------------------------
(* The theorems.                                                           *)

(* A step that changes nothing.                                            *)
LEMMA StutterStep ==
  ASSUME StackInvariant, UNCHANGED vars
  PROVE  StackInvariant'
<1>1. UNCHANGED <<stack, sock, watch, s2c, c2s, server, ready, packet_number,
                  events, revents, addrinfo_next, buf, packet_size, result,
                  command, pc, rc, op, inConnect, skipped, stage, commands,
                  faults, connects>>
  BY DEF vars, ioVars, conVars, pollVars, dataVars, cmdVars, callVars, appVars,
         budgetVars
<1>2. TypeOK'
  BY <1>1 DEF StackInvariant, TypeOK, ConnectionTypeOK, CommandTypeOK,
              CallTypeOK, PeerTypeOK
<1>3. WellFormedStack' /\ LoopOutcome' /\ ParserHasPacket'
  BY <1>1 DEF StackInvariant, WellFormedStack, LoopOutcome, ParserHasPacket, Top
<1>4. AddressKept' /\ CommandLeft'
  BY <1>1 DEF StackInvariant, AddressKept, CommandLeft, Top
<1> QED BY <1>2, <1>3, <1>4 DEF StackInvariant

(* A connection is created in a state of the invariant.                    *)
LEMMA InitInvariant == Init => StackInvariant
<1> SUFFICES ASSUME Init PROVE StackInvariant
  OBVIOUS
<1>0. <<>> \in Seq(Units) /\ <<>> \in Seq(Handlers)
  OBVIOUS
<1>1. ConnectionTypeOK
  <2>1. 0 \in 0..(PacketMod - 1) /\ 0 \in 0..NAddr
    BY ConfigAssumption DEF ConfigAssumption
  <2> QED BY <1>0, <2>1 DEF Init, ConnectionTypeOK, Sockets, Poll
<1>2. CommandTypeOK
  BY DEF Init, CommandTypeOK, EmptyResult, Results, Commands
<1>3. CallTypeOK /\ PeerTypeOK
  BY <1>0 DEF Init, CallTypeOK, PeerTypeOK, Codes, Calls, Commands, Servers, Poll
<1>4. WellFormedStack
  BY DEF Init, WellFormedStack, StackStates
<1>5. LoopOutcome /\ ParserHasPacket /\ AddressKept
  BY DEF Init, LoopOutcome, ParserHasPacket, AddressKept, Top
<1>6. CommandLeft
  BY ProtocolAssumption DEF Init, CommandLeft, Chunks, ProtocolAssumption
<1>7. stack \in Seq(Handlers)
  BY <1>0 DEF Init
<1> QED BY <1>1, <1>2, <1>3, <1>4, <1>5, <1>6, <1>7 DEF StackInvariant, TypeOK

(* Every step preserves the invariant: one lemma for each action.          *)
LEMMA NextInvariant == StackInvariant /\ [Next]_vars => StackInvariant'
<1> SUFFICES ASSUME StackInvariant, [Next]_vars PROVE StackInvariant'
  OBVIOUS
<1>1. CASE Handler
  BY <1>1, AddrinfoStep, ConnectStep, ConnectingStep, ReadStep, WriteStep,
     PacketReadStep, GreetingStep, ClientWriteStep, HandshakeResultStep,
     CommandWriteStep, ResultReadStep, ColumnReadStep, RowReadStep,
     FieldReadStep DEF Handler
<1>2. CASE drizzle_wait \/ StateLoopStops \/ StateLoopEnds
  BY <1>2, DrizzleWaitStep, StateLoopStopsStep, StateLoopEndsStep
<1>3. CASE ConnectReturns \/ CommandReturns \/ QuitReturns
  BY <1>3, ConnectReturnsStep, CommandReturnsStep, QuitReturnsStep
<1>4. CASE ColumnsReturn \/ SkipReturns \/ RowReturns
  BY <1>4, ColumnsReturnStep, SkipReturnsStep, RowReturnsStep
<1>5. CASE Call
  BY <1>5, CallConnectStep, CallReaderStep, CallCommandStep DEF Call
<1>6. CASE CallResultFree \/ CallClose
  BY <1>6, CallResultFreeStep, CallCloseStep
<1>7. CASE LoopNext
  BY <1>7, LoopStep
<1>8. CASE PeerNext
  BY <1>8, PeerStep
<1>9. CASE AppRests \/ UNCHANGED vars
  BY <1>9, StutterStep DEF AppRests
<1> QED
  BY <1>1, <1>2, <1>3, <1>4, <1>5, <1>6, <1>7, <1>8, <1>9
  DEF Next, LibraryNext, AppNext

(* For any configuration, any calls in any order and any peer: the stack   *)
(* of handlers is that of one operation, parsers find their packet in the  *)
(* buffer, and an address is left over only until a socket is connected.   *)
THEOREM StackIsInvariant == Spec => []StackInvariant
<1> QED BY InitInvariant, NextInvariant, PTL DEF Spec

(* Every field of the connection, of the call in progress and of the peer  *)
(* keeps its type.                                                         *)
THEOREM TypeCorrect == Spec => []TypeOK
<1>1. StackInvariant => TypeOK
  BY DEF StackInvariant
<1> QED BY <1>1, StackIsInvariant, PTL

(* drizzle_state_loop only ever finds the handlers of one operation.       *)
THEOREM StackIsWellFormed == Spec => []WellFormedStack
<1>1. StackInvariant => WellFormedStack
  BY DEF StackInvariant
<1> QED BY <1>1, StackIsInvariant, PTL

(* push_state never needs to allocate: the stack stays within the packets  *)
(* that drizzle_st has in itself, so that the allocation push_state and    *)
(* its callers do not check cannot fail.                                   *)
THEOREM StackAlwaysFits == Spec => []StackFits
<1>1. StackInvariant => StackFits
  <2> SUFFICES ASSUME StackInvariant PROVE StackFits
    OBVIOUS
  <2>1. stack \in StackStates \cup RefusedStates
    BY DEF StackInvariant, WellFormedStack
  <2>2. Len(stack) \in Nat /\ Len(stack) <= 4
    BY <2>1, ShapesTyped
  <2> QED BY <2>2 DEF StackFits, StackSize
<1> QED BY <1>1, StackIsInvariant, PTL

(* connect_failed_try_next never dereferences a NULL addrinfo_next, and no *)
(* ECONNREFUSED of recv() restarts a connection once it is established.    *)
THEOREM AddressAlwaysInStep == Spec => []AddressInStep
<1>1. StackInvariant => AddressInStep
  <2> SUFFICES ASSUME StackInvariant PROVE AddressInStep
    OBVIOUS
  <2>1. AddressKept
    BY DEF StackInvariant
  <2>2. Running("connecting") => addrinfo_next # 0
    BY <2>1 DEF AddressKept, Running, Top
  <2>3. ASSUME pc = "loop", stack # <<>>, sock # "invalid",
               Head(stack) \in Receivers \cup Senders
        PROVE  addrinfo_next = 0
    <3>1. Head(stack) \notin {"connect", "connecting"}
      BY <2>3 DEF Receivers, Senders
    <3> QED BY <2>1, <2>3, <3>1 DEF AddressKept, Top
  <2> QED BY <2>2, <2>3 DEF AddressInStep
<1> QED BY <1>1, StackIsInvariant, PTL

----------------------------------------------------------------------------
(* The session: connecting, the handshake and failures.  First, the kinds  *)
(* of packets in a sequence of units.                                      *)

(* The empty sequence is about no packet.                                  *)
LEMMA NoKinds == Kinds(<<>>) = {}
BY DEF Kinds

(* Two sequences put together are about the packets of both.               *)
LEMMA ConcatKinds ==
  ASSUME NEW s \in Seq(Units), NEW t \in Seq(Units)
  PROVE  /\ Kinds(s \o t) = Kinds(s) \cup Kinds(t)
         /\ \A i \in DOMAIN (s \o t) :
              \/ i \in DOMAIN s /\ (s \o t)[i] = s[i]
              \/ i - Len(s) \in DOMAIN t /\ (s \o t)[i] = t[i - Len(s)]
<1>1. /\ s \o t \in Seq(Units) /\ Len(s \o t) = Len(s) + Len(t)
      /\ \A i \in 1..(Len(s) + Len(t)) :
           (s \o t)[i] = IF i <= Len(s) THEN s[i] ELSE t[i - Len(s)]
  BY ConcatProperties
<1>2. /\ DOMAIN s = 1..Len(s) /\ DOMAIN t = 1..Len(t)
      /\ DOMAIN (s \o t) = 1..(Len(s) + Len(t))
      /\ Len(s) \in Nat /\ Len(t) \in Nat
  BY <1>1, LenProperties
<1>3. \A i \in DOMAIN (s \o t) :
        \/ i \in DOMAIN s /\ (s \o t)[i] = s[i]
        \/ i - Len(s) \in DOMAIN t /\ (s \o t)[i] = t[i - Len(s)]
  BY <1>1, <1>2
<1>4. \A i \in DOMAIN s : i \in DOMAIN (s \o t) /\ (s \o t)[i] = s[i]
  BY <1>1, <1>2
<1>5. \A i \in DOMAIN t :
        i + Len(s) \in DOMAIN (s \o t) /\ (s \o t)[i + Len(s)] = t[i]
  BY <1>1, <1>2
<1>6. Kinds(s \o t) \subseteq Kinds(s) \cup Kinds(t)
  BY <1>3 DEF Kinds
<1>7. Kinds(s) \cup Kinds(t) \subseteq Kinds(s \o t)
  BY <1>4, <1>5 DEF Kinds
<1> QED BY <1>3, <1>6, <1>7

(* The first n units of a sequence and the rest of it.                     *)
LEMMA CutKinds ==
  ASSUME NEW s \in Seq(Units), NEW n \in 1..Len(s)
  PROVE  /\ Kinds(SubSeq(s, 1, n)) \subseteq Kinds(s)
         /\ Kinds(SubSeq(s, n + 1, Len(s))) \subseteq Kinds(s)
         /\ SubSeq(s, 1, n) \in Seq(Units) /\ SubSeq(s, n + 1, Len(s)) \in Seq(Units)
         /\ Len(SubSeq(s, 1, n)) = n /\ Len(SubSeq(s, n + 1, Len(s))) = Len(s) - n
         /\ DOMAIN s = 1..Len(s)
         /\ \A i \in DOMAIN SubSeq(s, 1, n) : i \in 1..n /\ SubSeq(s, 1, n)[i] = s[i]
         /\ \A i \in DOMAIN SubSeq(s, n + 1, Len(s)) :
              n + i \in 1..Len(s) /\ SubSeq(s, n + 1, Len(s))[i] = s[n + i]
<1> DEFINE a == SubSeq(s, 1, n)
           b == SubSeq(s, n + 1, Len(s))
<1>1. Len(s) \in Nat /\ DOMAIN s = 1..Len(s)
  BY LenProperties
<1>2. /\ a \in Seq(Units) /\ Len(a) = n
      /\ \A i \in 1..n : a[i] = s[i]
  BY <1>1, SubSeqProperties
<1>3. /\ b \in Seq(Units) /\ Len(b) = Len(s) - n
      /\ \A i \in 1..(Len(s) - n) : b[i] = s[n + i]
  BY <1>1, SubSeqProperties
<1>4. DOMAIN a = 1..n /\ DOMAIN b = 1..(Len(s) - n)
  BY <1>2, <1>3, LenProperties
<1> HIDE DEF a, b
<1>5. \A i \in DOMAIN a : i \in 1..n /\ i \in DOMAIN s /\ a[i] = s[i]
  BY <1>1, <1>2, <1>4
<1>6. \A i \in DOMAIN b : n + i \in 1..Len(s) /\ b[i] = s[n + i]
  BY <1>1, <1>3, <1>4
<1>7. Kinds(a) \subseteq Kinds(s) /\ Kinds(b) \subseteq Kinds(s)
  BY <1>1, <1>5, <1>6 DEF Kinds
<1> QED BY <1>1, <1>2, <1>3, <1>5, <1>6, <1>7 DEF a, b

(* The first unit of a sequence and the rest of it.                        *)
LEMMA TailKinds ==
  ASSUME NEW s \in Seq(Units), s # <<>>
  PROVE  /\ Head(s) = s[1] /\ 1 \in DOMAIN s /\ Head(s).kind \in Kinds(s)
         /\ Kinds(Tail(s)) \subseteq Kinds(s)
         /\ Len(s) \in Nat /\ Len(Tail(s)) = Len(s) - 1
         /\ \A i \in DOMAIN Tail(s) :
              i \in Nat /\ i + 1 \in DOMAIN s /\ Tail(s)[i] = s[i + 1]
<1>1. /\ Head(s) = s[1] /\ Tail(s) \in Seq(Units) /\ Len(Tail(s)) = Len(s) - 1
      /\ \A i \in 1..(Len(s) - 1) : Tail(s)[i] = s[i + 1]
  BY HeadTailProperties
<1>2. /\ DOMAIN s = 1..Len(s) /\ DOMAIN Tail(s) = 1..(Len(s) - 1)
      /\ Len(s) \in Nat /\ Len(s) >= 1
  BY <1>1, LenProperties, EmptySeq
<1>3. \A i \in DOMAIN Tail(s) :
        i \in Nat /\ i + 1 \in DOMAIN s /\ Tail(s)[i] = s[i + 1]
  BY <1>1, <1>2
<1>4. Kinds(Tail(s)) \subseteq Kinds(s)
  BY <1>3 DEF Kinds
<1>5. 1 \in DOMAIN s /\ Head(s).kind \in Kinds(s)
  BY <1>1, <1>2 DEF Kinds
<1> QED BY <1>1, <1>2, <1>3, <1>4, <1>5

(* One unit more at the end of a sequence.                                 *)
LEMMA AppendKinds ==
  ASSUME NEW s \in Seq(Units), NEW u \in Units
  PROVE  Kinds(Append(s, u)) = Kinds(s) \cup {u.kind}
<1>1. /\ Append(s, u) \in Seq(Units) /\ Len(Append(s, u)) = Len(s) + 1
      /\ \A i \in 1..Len(s) : Append(s, u)[i] = s[i]
      /\ Append(s, u)[Len(s) + 1] = u
  BY AppendProperties
<1>2. /\ DOMAIN s = 1..Len(s) /\ Len(s) \in Nat
      /\ DOMAIN Append(s, u) = 1..(Len(s) + 1)
  BY <1>1, LenProperties
<1>3. /\ \A i \in DOMAIN s : i \in DOMAIN Append(s, u) /\ Append(s, u)[i] = s[i]
      /\ \A i \in DOMAIN Append(s, u) :
           \/ i \in DOMAIN s /\ Append(s, u)[i] = s[i]
           \/ Append(s, u)[i] = u
      /\ \E i \in DOMAIN Append(s, u) : Append(s, u)[i] = u
  BY <1>1, <1>2
<1> QED BY <1>3 DEF Kinds

----------------------------------------------------------------------------
(* What steps have in common.                                              *)

(* drizzle_close leaves nothing of the connection.                         *)
LEMMA CloseCleans ==
  ASSUME CleanApart, drizzle_close
  PROVE  /\ sock' = "invalid" /\ Clean' /\ server' = "none" /\ s2c' = <<>>
         /\ stack' \notin HandshakeStates
         /\ stack' = <<>> \/ (sock = "invalid" /\ stack' = stack)
<1>1. CASE sock = "invalid"
  <2>1. UNCHANGED <<stack, sock, server, s2c, ready, packet_number, buf>>
    BY <1>1 DEF drizzle_close, ioVars, conVars
  <2> QED BY <1>1, <2>1 DEF CleanApart, Clean
<1>2. CASE sock # "invalid"
  <2>1. <<>> \notin HandshakeStates
    BY DEF HandshakeStates, ReaderStates
  <2> QED BY <1>2, <2>1 DEF drizzle_close, Hangup, Reset, Clean
<1> QED BY <1>1, <1>2

(* A step that closes the connection.                                      *)
LEMMA CloseStep ==
  ASSUME SessionInvariant, drizzle_close, pc' \notin {"loop", "wait"},
         pc' = "app" \/ pc' = "stop" => rc' # "IO_WAIT",
         pc' = "leave" => rc' # "OK" /\ rc' # "IO_WAIT"
  PROVE  SessionInvariant'
<1> USE DEF SessionInvariant
<1>1. /\ sock' = "invalid" /\ Clean' /\ server' = "none" /\ s2c' = <<>>
      /\ stack' \notin HandshakeStates
      /\ stack' = <<>> \/ (sock = "invalid" /\ stack' = stack)
  BY CloseCleans
<1>2. buf' = <<>> /\ ready' = FALSE
  BY <1>1 DEF Clean
<1>3. CleanApart' /\ PendingAwaited'
  BY <1>1 DEF CleanApart, PendingAwaited
<1>4. StackTellsReady'
  <2>1. CASE stack' = <<>>
    <3>1. <<>> \notin CommandStates /\ <<>> \notin {<<"connect">>, <<"connecting">>}
      BY DEF CommandStates, ReaderStates
    <3> QED BY <1>1, <1>2, <2>1, <3>1 DEF StackTellsReady
  <2>2. CASE sock = "invalid" /\ stack' = stack
    <3>1. stack \notin CommandStates /\ stack \notin {<<"connect">>, <<"connecting">>}
      BY <2>2 DEF CleanApart, Clean, StackTellsReady
    <3> QED BY <1>1, <1>2, <2>2, <3>1 DEF StackTellsReady
  <2> QED BY <1>1, <2>1, <2>2
<1>5. CodesMean'
  BY <1>1 DEF CodesMean
<1>6. RepliesFollow' /\ GreetingFirst'
  <2>1. Kinds(buf') = {} /\ Kinds(s2c') = {} /\ DOMAIN (buf') = {} /\ DOMAIN (s2c') = {}
    BY <1>1, <1>2, NoKinds
  <2> QED BY <1>1, <1>2, <2>1 DEF RepliesFollow, GreetingFirst
<1> QED BY <1>3, <1>4, <1>5, <1>6

(* The end of a handler that is not about connecting: it leaves the socket *)
(* and readiness as they are, and touches the buffer of a connected one    *)
(* only.                                                                   *)
Outcome ==
  \/ pc' = "loop" /\ (stack' = <<>> => ready)
  \/ pc' = "wait" /\ stack' # <<>>
  \/ pc' = "stop" /\ rc' \notin Resumable
  \/ pc' = "stop" /\ rc' = "ERROR_CODE"
  \/ pc' = "stop" /\ rc' = "IO_WAIT" /\ stack' # <<>>

LEMMA HandlerMoves ==
  ASSUME SessionInvariant, pc = "loop", ~ Top({"addrinfo", "connect", "connecting"}),
         UNCHANGED <<sock, ready, server>>,
         sock # "connected" => UNCHANGED <<packet_number, buf, s2c>>,
         ~ Top({"addrinfo", "connect", "connecting"})' \/ Closing',
         stack' \notin {<<"connect">>, <<"connecting">>},
         stack' \in ConnectStates \cup HandshakeStates => ~ ready,
         stack' \in CommandStates => ready,
         sock # "connected" => stack' \notin HandshakeStates,
         ~ ready /\ sock = "connected" /\ ~ Closing'
           => stack' \in ConnectStates \cup HandshakeStates,
         Outcome
  PROVE  CleanApart' /\ PendingAwaited' /\ StackTellsReady' /\ CodesMean'
<1> USE DEF SessionInvariant
<1>1. sock # "pending"
  BY DEF PendingAwaited, Top
<1>2. CleanApart'
  <2>1. sock' # "connected" => Clean' /\ server' = "none" /\ s2c' = <<>>
    BY DEF CleanApart, Clean
  <2>2. Top({"addrinfo", "connect", "connecting"})' /\ ~ Closing' => Clean'
    OBVIOUS
  <2> QED BY <2>1, <2>2 DEF CleanApart
<1>3. PendingAwaited'
  BY <1>1 DEF PendingAwaited
<1>4. StackTellsReady'
  BY DEF StackTellsReady
<1>5. CodesMean'
  BY DEF CodesMean, Outcome, Resumable
<1> QED BY <1>2, <1>3, <1>4, <1>5

(* A handler that leaves buf and s2c alone, or consumes the packet at      *)
(* hand, outside the handshake.                                            *)
LEMMA ReplyConsumed ==
  ASSUME SessionInvariant, UNCHANGED <<server, ready, s2c>>,
         buf \in Seq(Units), buf' = buf \/ (buf # <<>> /\ buf' = Tail(buf)),
         stack' \notin ConnectStates \cup HandshakeStates
  PROVE  RepliesFollow' /\ GreetingFirst'
<1> USE DEF SessionInvariant
<1>1. Kinds(buf') \subseteq Kinds(buf) /\ (server = "greet" => buf' = <<>>)
  BY TailKinds DEF RepliesFollow
<1>2. /\ stack' # <<"handshake_server_read">>
      /\ stack' \notin ReaderStates("handshake_result_read")
  BY DEF ConnectStates, HandshakeStates
<1>3. RepliesFollow'
  BY <1>1, <1>2 DEF RepliesFollow
<1>4. GreetingFirst'
  BY <1>2 DEF GreetingFirst
<1> QED BY <1>3, <1>4

(* A step that leaves buf and s2c alone, and the stack in the same class.  *)
LEMMA NothingSaid ==
  ASSUME SessionInvariant, UNCHANGED <<server, ready, s2c, buf>>,
         stack' = <<"handshake_server_read">> => stack = <<"handshake_server_read">>,
         stack' \in ConnectStates =>
           /\ stack \in ConnectStates \/ (buf = <<>> /\ s2c = <<>>)
           /\ stack = <<"handshake_server_read">> => stack' = stack,
         stack' \in HandshakeStates => stack \in HandshakeStates,
         stack' \in ReaderStates("handshake_result_read")
           => buf = <<>> \/ stack \in ReaderStates("handshake_result_read")
  PROVE  RepliesFollow' /\ GreetingFirst'
<1> USE DEF SessionInvariant
<1>1. RepliesFollow'
  BY DEF RepliesFollow
<1>2. stack' \in ConnectStates =>
        /\ \A i \in DOMAIN buf' : buf'[i].kind \in Greetings => i <= GreetingLength'
        /\ \A i \in DOMAIN s2c' :
             s2c'[i].kind \in Greetings => Len(buf') + i <= GreetingLength'
  <2>1. CASE stack \in ConnectStates
    BY <2>1 DEF GreetingFirst, GreetingLength
  <2>2. CASE buf = <<>> /\ s2c = <<>>
    BY <2>2
  <2> QED BY <2>1, <2>2
<1>3. stack' \in HandshakeStates =>
        server' # "greet" /\ (Kinds(buf') \cup Kinds(s2c')) \cap Greetings = {}
  BY DEF GreetingFirst
<1>4. stack' \in ReaderStates("handshake_result_read") => Kinds(buf') \subseteq ServerKinds
  BY NoKinds DEF GreetingFirst
<1> QED BY <1>1, <1>2, <1>3, <1>4 DEF GreetingFirst

----------------------------------------------------------------------------
(* The handlers that read packets, send and wait.                          *)

(* What the states of a reader are about.                                  *)
LEMMA ReaderClasses ==
  /\ \A h \in Parsers \ {"field_read"} : \A s \in ReaderStates(h) :
       /\ s # <<>> /\ s \notin {<<"connect">>, <<"connecting">>}
       /\ Head(s) \notin {"addrinfo", "connect", "connecting"}
       /\ s \in ConnectStates <=> h = "handshake_server_read"
       /\ s \in HandshakeStates <=> h = "handshake_result_read"
       /\ s \in ReaderStates("handshake_result_read") <=> h = "handshake_result_read"
       /\ s \in CommandStates <=> h = "result_read"
       /\ s = <<"handshake_server_read">> => h = "handshake_server_read"
  /\ \A s \in {<<"field_read">>, <<"read", "field_read">>} :
       /\ s # <<>> /\ s \notin {<<"connect">>, <<"connecting">>}
       /\ Head(s) \notin {"addrinfo", "connect", "connecting"}
       /\ s \notin ConnectStates \cup HandshakeStates \cup CommandStates
       /\ s \notin ReaderStates("handshake_result_read")
       /\ s # <<"handshake_server_read">>
  /\ \A s \in RefusedStates :
       /\ s \notin ConnectStates \cup HandshakeStates \cup CommandStates
       /\ s \notin {<<"connect">>, <<"connecting">>} /\ s # <<"handshake_server_read">>
       /\ s \notin ReaderStates("handshake_result_read")
<1>1. \A h \in Parsers \ {"field_read"} : \A s \in ReaderStates(h) :
        /\ s # <<>> /\ s \notin {<<"connect">>, <<"connecting">>}
        /\ Head(s) \notin {"addrinfo", "connect", "connecting"}
        /\ s = <<"handshake_server_read">> => h = "handshake_server_read"
  BY DEF Parsers, ReaderStates
<1>2. ASSUME NEW h \in Parsers \ {"field_read"}, NEW s \in ReaderStates(h)
      PROVE  /\ s \in ConnectStates <=> h = "handshake_server_read"
             /\ s \in HandshakeStates <=> h = "handshake_result_read"
             /\ s \in ReaderStates("handshake_result_read") <=> h = "handshake_result_read"
             /\ s \in CommandStates <=> h = "result_read"
  BY DEF Parsers, ReaderStates, ConnectStates, HandshakeStates, CommandStates
<1>3. \A s \in {<<"field_read">>, <<"read", "field_read">>} :
        /\ s # <<>> /\ s \notin {<<"connect">>, <<"connecting">>}
        /\ Head(s) \notin {"addrinfo", "connect", "connecting"}
        /\ s \notin ConnectStates \cup HandshakeStates \cup CommandStates
        /\ s \notin ReaderStates("handshake_result_read")
        /\ s # <<"handshake_server_read">>
  BY DEF ConnectStates, HandshakeStates, CommandStates, ReaderStates
<1>4. \A s \in RefusedStates :
        /\ s \notin ConnectStates \cup HandshakeStates \cup CommandStates
        /\ s \notin {<<"connect">>, <<"connecting">>} /\ s # <<"handshake_server_read">>
        /\ s \notin ReaderStates("handshake_result_read")
  BY DEF RefusedStates, ConnectStates, HandshakeStates, CommandStates, ReaderStates
<1> QED BY <1>1, <1>2, <1>3, <1>4

(* A handler waits: the connection is closed, or only poll masks change.   *)
LEMMA WaitSession ==
  ASSUME SessionInvariant, pc = "loop", Top({"read", "write"}),
         NEW ev, NEW rev, WaitFor(ev, rev, Yield) \/ WaitFor(ev, rev, Block)
  PROVE  SessionInvariant'
<1>1. CASE /\ Yield \/ Block
           /\ UNCHANGED <<stack, sock, s2c, c2s, server, conVars, buf>>
  <2>1. /\ UNCHANGED <<stack, sock, s2c, server, ready, packet_number, buf>>
        /\ \/ pc' = "wait" /\ rc' = rc
           \/ pc' = "stop" /\ rc' = "IO_WAIT"
        /\ stack # <<>> /\ Head(stack) \in {"read", "write"}
    BY <1>1 DEF conVars, Yield, Block, Return, Top
  <2>2. CleanApart' /\ PendingAwaited' /\ StackTellsReady' /\ CodesMean'
    <3>1. Outcome /\ ~ Top({"addrinfo", "connect", "connecting"})
      BY <2>1 DEF Outcome, Top
    <3>2. ~ Top({"addrinfo", "connect", "connecting"})'
      BY <2>1 DEF Top
    <3>3. /\ stack \notin {<<"connect">>, <<"connecting">>}
          /\ stack \in ConnectStates \cup HandshakeStates => ~ ready
          /\ stack \in CommandStates => ready
          /\ ~ ready /\ sock = "connected" => stack \in ConnectStates \cup HandshakeStates
          /\ sock # "connected" => stack \notin HandshakeStates
      BY DEF SessionInvariant, StackTellsReady, CleanApart, Closing
    <3> QED BY <2>1, <3>1, <3>2, <3>3, HandlerMoves
  <2>3. RepliesFollow' /\ GreetingFirst'
    BY <2>1, NothingSaid
  <2> QED BY <2>2, <2>3 DEF SessionInvariant
<1>2. ASSUME NEW code \in CallbackErrors, drizzle_close, Return(code)
      PROVE  SessionInvariant'
  <2>1. pc' = "stop" /\ rc' # "IO_WAIT"
    BY <1>2, ConfigAssumption DEF ConfigAssumption, Return
  <2> QED BY <1>2, <2>1, CloseStep
<1> QED BY <1>1, <1>2 DEF WaitFor

(* drizzle_state_read is on top of drizzle_state_packet_read or of the     *)
(* fields of a row.                                                        *)
LEMMA ReadShape ==
  ASSUME stack \in StackStates, stack # <<>>, Head(stack) = "read"
  PROVE  \/ stack = <<"read", "field_read">> /\ Tail(stack) = <<"field_read">>
         \/ \E h \in Parsers \ {"field_read"} :
              /\ stack = <<"read", "packet_read", h>> /\ Tail(stack) = <<"packet_read", h>>
              /\ stack \in ReaderStates(h) /\ Tail(stack) \in ReaderStates(h)
<1>1. stack \in {<<"read", "packet_read", h>> : h \in Parsers \ {"field_read"}}
                \cup {<<"read", "field_read">>}
  BY Shapes
<1>2. CASE stack = <<"read", "field_read">>
  BY <1>2
<1>3. ASSUME NEW h \in Parsers \ {"field_read"}, stack = <<"read", "packet_read", h>>
      PROVE  /\ Tail(stack) = <<"packet_read", h>>
             /\ stack \in ReaderStates(h) /\ Tail(stack) \in ReaderStates(h)
  <2>1. Tail(stack) = <<"packet_read", h>>
    BY <1>3
  <2> QED BY <1>3, <2>1 DEF ReaderStates
<1> QED BY <1>1, <1>2, <1>3

(* What has arrived is moved from the socket to the end of the buffer.     *)
LEMMA ReadMovesUnits ==
  ASSUME SessionInvariant, buf \in Seq(Units), s2c \in Seq(Units),
         NEW n \in 1..Len(s2c),
         buf' = buf \o SubSeq(s2c, 1, n), s2c' = SubSeq(s2c, n + 1, Len(s2c)),
         UNCHANGED <<server, ready>>,
         stack # <<"handshake_server_read">>, stack' # <<"handshake_server_read">>,
         stack' \in ConnectStates => stack \in ConnectStates,
         stack' \in HandshakeStates => stack \in HandshakeStates,
         stack' \in ReaderStates("handshake_result_read")
           => stack \in ReaderStates("handshake_result_read")
  PROVE  RepliesFollow' /\ GreetingFirst'
<1> USE DEF SessionInvariant
<1> DEFINE a == SubSeq(s2c, 1, n)
           b == SubSeq(s2c, n + 1, Len(s2c))
<1>1. /\ Kinds(a) \subseteq Kinds(s2c) /\ Kinds(b) \subseteq Kinds(s2c)
      /\ a \in Seq(Units) /\ b \in Seq(Units) /\ Len(a) = n /\ DOMAIN s2c = 1..Len(s2c)
      /\ \A i \in DOMAIN a : i \in 1..n /\ a[i] = s2c[i]
      /\ \A i \in DOMAIN b : n + i \in 1..Len(s2c) /\ b[i] = s2c[n + i]
  BY CutKinds
<1>2. buf' = buf \o a /\ s2c' = b
  OBVIOUS
<1> HIDE DEF a, b
<1>3. /\ Kinds(buf') = Kinds(buf) \cup Kinds(a)
      /\ \A i \in DOMAIN (buf') :
           \/ i \in DOMAIN buf /\ buf'[i] = buf[i]
           \/ i - Len(buf) \in DOMAIN a /\ buf'[i] = a[i - Len(buf)]
      /\ Len(buf') = Len(buf) + n /\ Len(buf) \in Nat /\ Len(s2c) \in Nat
  <2>1. /\ Kinds(buf \o a) = Kinds(buf) \cup Kinds(a)
        /\ \A i \in DOMAIN (buf \o a) :
             \/ i \in DOMAIN buf /\ (buf \o a)[i] = buf[i]
             \/ i - Len(buf) \in DOMAIN a /\ (buf \o a)[i] = a[i - Len(buf)]
    BY <1>1, ConcatKinds
  <2>2. Len(buf \o a) = Len(buf) + n
    BY <1>1, ConcatProperties
  <2>3. Len(buf) \in Nat /\ Len(s2c) \in Nat
    BY LenProperties
  <2> QED BY <1>2, <2>1, <2>2, <2>3
<1>4. RepliesFollow'
  <2>1. Kinds(buf') \cup Kinds(s2c') \subseteq Kinds(buf) \cup Kinds(s2c)
    BY <1>1, <1>2, <1>3
  <2>2. server # "greet"
    <3>1. s2c # <<>>
      BY <1>3, EmptySeq
    <3> QED BY <3>1 DEF RepliesFollow
  <2> QED BY <1>1, <1>2, <2>1, <2>2 DEF RepliesFollow
<1>5. ASSUME stack' \in ConnectStates
      PROVE  /\ \A i \in DOMAIN (buf') : buf'[i].kind \in Greetings => i <= GreetingLength'
             /\ \A i \in DOMAIN (s2c') :
                  s2c'[i].kind \in Greetings => Len(buf') + i <= GreetingLength'
  <2>1. GreetingLength = 2 /\ GreetingLength' = 2
    BY DEF GreetingLength
  <2>2. /\ \A i \in DOMAIN buf : buf[i].kind \in Greetings => i <= 2
        /\ \A i \in DOMAIN s2c : s2c[i].kind \in Greetings => Len(buf) + i <= 2
    BY <1>5, <2>1 DEF GreetingFirst
  <2>3. ASSUME NEW i \in DOMAIN (buf'), buf'[i].kind \in Greetings
        PROVE  i <= 2
    <3>1. CASE i \in DOMAIN buf /\ buf'[i] = buf[i]
      BY <2>2, <2>3, <3>1
    <3>2. CASE i - Len(buf) \in DOMAIN a /\ buf'[i] = a[i - Len(buf)]
      <4>1. i - Len(buf) \in DOMAIN s2c /\ buf'[i] = s2c[i - Len(buf)]
        BY <1>1, <1>3, <3>2
      <4>2. Len(buf) + (i - Len(buf)) <= 2
        BY <2>2, <2>3, <4>1
      <4>3. i - Len(buf) \in Int /\ i \in Nat
        BY <1>1, <1>3, <3>2, <4>1, LenProperties, ConcatProperties
      <4> QED BY <1>3, <4>2, <4>3
    <3> QED BY <1>3, <3>1, <3>2
  <2>4. ASSUME NEW i \in DOMAIN (s2c'), s2c'[i].kind \in Greetings
        PROVE  Len(buf') + i <= 2
    <3>1. n + i \in DOMAIN s2c /\ s2c'[i] = s2c[n + i] /\ i \in Int
      BY <1>1, <1>2, LenProperties
    <3>2. Len(buf) + (n + i) <= 2
      BY <2>2, <2>4, <3>1
    <3> QED BY <1>3, <3>1, <3>2
  <2> QED BY <2>1, <2>3, <2>4
<1>6. stack' \in HandshakeStates =>
        server' # "greet" /\ (Kinds(buf') \cup Kinds(s2c')) \cap Greetings = {}
  BY <1>1, <1>2, <1>3 DEF GreetingFirst
<1>7. stack' \in ReaderStates("handshake_result_read") => Kinds(buf') \subseteq ServerKinds
  BY <1>1, <1>3 DEF GreetingFirst, RepliesFollow
<1> QED BY <1>4, <1>5, <1>6, <1>7 DEF GreetingFirst

(* drizzle_state_read.                                                     *)
LEMMA ReadSession ==
  ASSUME StackInvariant, SessionInvariant, drizzle_state_read
  PROVE  SessionInvariant'
<1> USE DEF SessionInvariant
<1>1. /\ pc = "loop" /\ stack # <<>> /\ Head(stack) = "read"
      /\ stack \in StackStates
  BY DEF drizzle_state_read, Running, StackInvariant, WellFormedStack
<1>2. /\ ~ Top({"addrinfo", "connect", "connecting"}) /\ Top({"read", "write"})
      /\ buf \in Seq(Units) /\ s2c \in Seq(Units)
      /\ addrinfo_next = 0 \/ sock = "invalid"
  BY <1>1 DEF Top, StackInvariant, TypeOK, ConnectionTypeOK, PeerTypeOK, AddressKept
<1>3. /\ stack \in CommandStates => ready
      /\ stack \in ConnectStates \cup HandshakeStates => ~ ready
      /\ ~ ready /\ sock = "connected" => stack \in ConnectStates \cup HandshakeStates
      /\ stack \notin {<<"connect">>, <<"connecting">>}
      /\ stack # <<"handshake_server_read">>
      /\ sock # "connected" => stack \notin HandshakeStates
  BY <1>1 DEF StackTellsReady, CleanApart, Closing
<1>4. \/ stack = <<"read", "field_read">> /\ Tail(stack) = <<"field_read">>
      \/ \E h \in Parsers \ {"field_read"} :
           /\ Tail(stack) = <<"packet_read", h>>
           /\ stack \in ReaderStates(h) /\ Tail(stack) \in ReaderStates(h)
  BY <1>1, ReadShape
<1>5. CASE ReadWaitsForPoll \/ ReadWouldBlock
  <2>1. \E rev \in SUBSET Poll :
          WaitFor({"IN"}, rev, Yield) \/ WaitFor({"IN"}, rev, Block)
    BY <1>5 DEF ReadWaitsForPoll, ReadWouldBlock, StackInvariant, TypeOK, ConnectionTypeOK
  <2> QED BY <1>1, <1>2, <2>1, WaitSession
<1>6. CASE ReadSome
  <2>1. /\ UNCHANGED <<sock, ready, server, packet_number>> /\ pc' = "loop"
        /\ sock = "connected" /\ stack' = Tail(stack)
    BY <1>1, <1>6 DEF ReadSome, Pop, Continue, conVars
  <2> DEFINE SameClass ==
        /\ stack' # <<>> /\ stack' \notin {<<"connect">>, <<"connecting">>}
        /\ Head(stack') \notin {"addrinfo", "connect", "connecting"}
        /\ stack' \in ConnectStates <=> stack \in ConnectStates
        /\ stack' \in HandshakeStates <=> stack \in HandshakeStates
        /\ stack' \in CommandStates <=> stack \in CommandStates
        /\ stack' \in ReaderStates("handshake_result_read")
             => stack \in ReaderStates("handshake_result_read")
        /\ stack' # <<"handshake_server_read">>
  <2>2. SameClass
    <3>1. CASE stack = <<"read", "field_read">> /\ Tail(stack) = <<"field_read">>
      BY <2>1, <3>1, ReaderClasses
    <3>2. ASSUME NEW h \in Parsers \ {"field_read"}, Tail(stack) = <<"packet_read", h>>,
                 stack \in ReaderStates(h), Tail(stack) \in ReaderStates(h)
          PROVE  SameClass
      <4>1. Tail(stack) # <<"handshake_server_read">>
        BY <3>2
      <4> QED BY <2>1, <3>2, <4>1, ReaderClasses
    <3> QED BY <1>4, <3>1, <3>2
  <2>3. CleanApart' /\ PendingAwaited' /\ StackTellsReady' /\ CodesMean'
    <3>1. ~ Top({"addrinfo", "connect", "connecting"})' /\ Outcome
      BY <2>1, <2>2 DEF Top, Outcome
    <3> QED BY <1>1, <1>2, <1>3, <2>1, <2>2, <3>1, HandlerMoves
  <2>4. PICK n \in 1..Len(s2c) :
          buf' = buf \o SubSeq(s2c, 1, n) /\ s2c' = SubSeq(s2c, n + 1, Len(s2c))
    BY <1>6 DEF ReadSome
  <2>5. RepliesFollow' /\ GreetingFirst'
    BY <1>2, <1>3, <2>1, <2>2, <2>4, ReadMovesUnits
  <2> QED BY <2>3, <2>5
<1>7. CASE ReadRefused
  <2>1. /\ UNCHANGED <<sock, ready, server, packet_number, buf, s2c>> /\ sock = "connected"
        /\ pc' = "stop" /\ rc' = "COULD_NOT_CONNECT" /\ stack' = <<"connect">> \o Tail(stack)
    BY <1>2, <1>7 DEF ReadRefused, Replace, Return, ioVars, conVars
  <2>2. Closing' /\ Outcome
    BY <2>1 DEF Closing, Outcome, Resumable
  <2>3. CASE stack \in ConnectStates
    <3>1. stack' = <<"connect", "packet_read", "handshake_server_read">>
      <4>1. /\ "connect" \in Handlers /\ "packet_read" \in Handlers
            /\ "handshake_server_read" \in Handlers
        BY DEF Handlers
      <4>2. <<"connect">> \o <<"packet_read", "handshake_server_read">>
            = <<"connect", "packet_read", "handshake_server_read">>
        BY <4>1, Extensions
      <4>3. Tail(stack) = <<"packet_read", "handshake_server_read">>
        BY <1>4, <2>3, ReaderClasses
      <4> QED BY <2>1, <4>2, <4>3
    <3>2. /\ stack' \in ConnectStates /\ stack' \notin HandshakeStates \cup CommandStates
          /\ stack' \notin {<<"connect">>, <<"connecting">>}
          /\ stack' # <<"handshake_server_read">>
      BY <3>1 DEF ConnectStates, HandshakeStates, CommandStates, ReaderStates
    <3>3. CleanApart' /\ PendingAwaited' /\ StackTellsReady' /\ CodesMean'
      BY <1>1, <1>2, <1>3, <2>1, <2>2, <2>3, <3>2, HandlerMoves
    <3>4. stack' \notin ReaderStates("handshake_result_read")
      BY <3>2 DEF HandshakeStates
    <3>5. RepliesFollow' /\ GreetingFirst'
      BY <1>3, <2>1, <2>3, <3>2, <3>4, NothingSaid
    <3> QED BY <3>3, <3>5
  <2>4. CASE stack \notin ConnectStates
    <3>1. stack' \in RefusedStates
      <4>1. /\ \A h \in Parsers : h \in Handlers
            /\ "connect" \in Handlers /\ "packet_read" \in Handlers
            /\ "field_read" \in Handlers
        BY DEF Parsers, Handlers
      <4>2. \A h \in Parsers :
              /\ <<"connect">> \o <<h>> = <<"connect", h>>
              /\ <<"connect">> \o <<"packet_read", h>> = <<"connect", "packet_read", h>>
        BY <4>1, Extensions
      <4>3. CASE Tail(stack) = <<"field_read">>
        BY <2>1, <4>2, <4>3 DEF RefusedStates, Parsers
      <4>4. ASSUME NEW h \in Parsers \ {"field_read"}, Tail(stack) = <<"packet_read", h>>,
                   stack \in ReaderStates(h)
            PROVE  stack' \in RefusedStates
        <5>1. h # "handshake_server_read"
          BY <2>4, <4>4, ReaderClasses
        <5>2. stack' = <<"connect", "packet_read", h>>
          BY <2>1, <4>2, <4>4
        <5> QED BY <4>4, <5>1, <5>2 DEF RefusedStates, Parsers
      <4> QED BY <1>4, <4>3, <4>4
    <3>2. /\ stack' \notin ConnectStates \cup HandshakeStates \cup CommandStates
          /\ stack' \notin {<<"connect">>, <<"connecting">>}
          /\ stack' # <<"handshake_server_read">>
          /\ stack' \notin ReaderStates("handshake_result_read")
      BY <3>1, ReaderClasses
    <3>3. CleanApart' /\ PendingAwaited' /\ StackTellsReady' /\ CodesMean'
      BY <1>1, <1>2, <2>1, <2>2, <3>2, HandlerMoves
    <3>4. RepliesFollow' /\ GreetingFirst'
      BY <2>1, <3>2, NothingSaid
    <3> QED BY <3>3, <3>4
  <2> QED BY <2>3, <2>4
<1>8. CASE ReadFails
  <2>1. /\ UNCHANGED <<stack, sock, ready, server, packet_number, buf, s2c>>
        /\ pc' = "stop" /\ rc' \in {"LOST_CONNECTION", "ERRNO", "INTERNAL_ERROR", "MEMORY"}
    BY <1>8 DEF ReadFails, Return, Lost, ioVars, conVars
  <2>2. Closing' /\ Outcome
    BY <2>1 DEF Closing, Outcome, Resumable
  <2>3. CleanApart' /\ PendingAwaited' /\ StackTellsReady' /\ CodesMean'
    BY <1>1, <1>2, <1>3, <2>1, <2>2, HandlerMoves
  <2>4. RepliesFollow' /\ GreetingFirst'
    BY <2>1, NothingSaid
  <2> QED BY <2>3, <2>4
<1> QED BY <1>5, <1>6, <1>7, <1>8 DEF drizzle_state_read

(* drizzle_state_write: the state below it is about the same exchange.     *)
LEMMA WriteShape ==
  ASSUME stack \in StackStates, stack # <<>>, Head(stack) = "write"
  PROVE  /\ stack \in CommandStates \cup HandshakeStates
         /\ stack \notin ConnectStates \cup ReaderStates("handshake_result_read")
         /\ stack \in CommandStates <=> stack \notin HandshakeStates
         /\ Tail(stack) = <<>> => stack \in CommandStates
         /\ Tail(stack) # <<>> => Head(Tail(stack)) \in {"command_write", "packet_read"}
         /\ Tail(stack) \in CommandStates => stack \in CommandStates
         /\ Tail(stack) \in HandshakeStates => stack \in HandshakeStates
         /\ stack \in HandshakeStates => Tail(stack) \in HandshakeStates
         /\ Tail(stack) \notin ConnectStates
<1>1. stack \in {<<"write">>, <<"write", "command_write">>,
                 <<"write", "packet_read", "result_read">>,
                 <<"write", "packet_read", "handshake_result_read">>}
  BY Shapes
<1>2. CASE stack = <<"write">>
  <2>1. Tail(stack) = <<>>
    BY <1>2
  <2> QED BY <1>2, <2>1 DEF CommandStates, HandshakeStates, ConnectStates, ReaderStates
<1>3. CASE stack = <<"write", "command_write">>
  <2>1. Tail(stack) = <<"command_write">>
    BY <1>3
  <2> QED BY <1>3, <2>1 DEF CommandStates, HandshakeStates, ConnectStates, ReaderStates
<1>4. CASE stack = <<"write", "packet_read", "result_read">>
  <2>1. Tail(stack) = <<"packet_read", "result_read">>
    BY <1>4
  <2> QED BY <1>4, <2>1 DEF CommandStates, HandshakeStates, ConnectStates, ReaderStates
<1>5. CASE stack = <<"write", "packet_read", "handshake_result_read">>
  <2>1. Tail(stack) = <<"packet_read", "handshake_result_read">>
    BY <1>5
  <2> QED BY <1>5, <2>1 DEF CommandStates, HandshakeStates, ConnectStates, ReaderStates
<1> QED BY <1>1, <1>2, <1>3, <1>4, <1>5

(* drizzle_state_write: the state that sends makes way for the one below   *)
(* it when the buffer is empty.                                            *)
LEMMA WriteSession ==
  ASSUME StackInvariant, SessionInvariant, drizzle_state_write
  PROVE  SessionInvariant'
<1> USE DEF SessionInvariant
<1>1. /\ pc = "loop" /\ stack # <<>> /\ Head(stack) = "write" /\ stack \in StackStates
      /\ buf \in Seq(Units)
  BY DEF drizzle_state_write, Running, StackInvariant, WellFormedStack, TypeOK,
     ConnectionTypeOK
<1>2. /\ ~ Top({"addrinfo", "connect", "connecting"}) /\ Top({"read", "write"})
  BY <1>1 DEF Top
<1>3. /\ stack \in CommandStates => ready
      /\ stack \in HandshakeStates => ~ ready
      /\ stack \notin {<<"connect">>, <<"connecting">>}
      /\ sock # "connected" => stack \notin HandshakeStates
  BY DEF StackTellsReady, CleanApart
<1>4. /\ stack \in CommandStates \cup HandshakeStates
      /\ stack \notin ConnectStates \cup ReaderStates("handshake_result_read")
      /\ stack \in CommandStates <=> stack \notin HandshakeStates
      /\ Tail(stack) = <<>> => stack \in CommandStates
      /\ Tail(stack) # <<>> => Head(Tail(stack)) \in {"command_write", "packet_read"}
      /\ Tail(stack) \in CommandStates => stack \in CommandStates
      /\ Tail(stack) \in HandshakeStates => stack \in HandshakeStates
      /\ stack \in HandshakeStates => Tail(stack) \in HandshakeStates
      /\ Tail(stack) \notin ConnectStates
  BY <1>1, WriteShape
<1>5. CASE WriteWouldBlock
  <2>1. WaitFor({"OUT"}, revents, Block)
    BY <1>5 DEF WriteWouldBlock
  <2> QED BY <1>1, <1>2, <2>1, WaitSession
<1>6. CASE /\ UNCHANGED <<sock, ready, server, packet_number, s2c>>
           /\ sock # "connected" => buf' = buf
           /\ Kinds(buf') \subseteq Kinds(buf) /\ (buf = <<>> => buf' = <<>>)
           /\ \/ /\ stack' = stack
                 /\ pc' = "loop" \/ (pc' = "stop" /\ rc' \in Lost)
              \/ stack' = Tail(stack) /\ buf' = <<>> /\ pc' = "loop"
  <2>1. /\ stack' \notin {<<"connect">>, <<"connecting">>}
        /\ ~ Top({"addrinfo", "connect", "connecting"})'
    BY <1>1, <1>3, <1>4, <1>6, Tail(stack) \notin {<<"connect">>, <<"connecting">>} DEF Top, ConnectStates
  <2>2. Outcome
    BY <1>1, <1>3, <1>4, <1>6 DEF Outcome, Lost, Resumable
  <2>3. CleanApart' /\ PendingAwaited' /\ StackTellsReady' /\ CodesMean'
    BY <1>1, <1>2, <1>3, <1>4, <1>6, <2>1, <2>2, HandlerMoves
  <2>4. RepliesFollow'
    <3>1. stack' # <<"handshake_server_read">>
      BY <1>4, <1>6 DEF ConnectStates
    <3> QED BY <1>6, <3>1 DEF RepliesFollow
  <2>5. GreetingFirst'
    <3>1. stack' \notin ConnectStates
      BY <1>4, <1>6
    <3>2. stack' \in HandshakeStates =>
            server' # "greet" /\ (Kinds(buf') \cup Kinds(s2c')) \cap Greetings = {}
      BY <1>4, <1>6 DEF GreetingFirst
    <3>3. stack' \in ReaderStates("handshake_result_read") => Kinds(buf') \subseteq ServerKinds
      BY <1>4, <1>6, NoKinds
    <3> QED BY <3>1, <3>2, <3>3 DEF GreetingFirst
  <2> QED BY <2>3, <2>4, <2>5
<1>7. CASE WriteSome
  <2>1. PICK n \in 1..Len(buf) : Sent(n)
    BY <1>7 DEF WriteSome
  <2>2. /\ UNCHANGED <<sock, ready, server, packet_number, s2c>> /\ pc' = "loop"
        /\ sock = "connected"
    BY <1>1, <1>7 DEF WriteSome, Continue, conVars
  <2>3. Kinds(buf') \subseteq Kinds(buf) /\ Len(buf') = Len(buf) - n /\ buf' \in Seq(Units)
    BY <1>1, <2>1, CutKinds DEF Sent
  <2>4. buf = <<>> => buf' = <<>>
    BY <1>1, <2>1
  <2>5. \/ stack' = stack
        \/ stack' = Tail(stack) /\ n = Len(buf)
    BY <2>1 DEF Sent, Pop
  <2>6. n = Len(buf) => buf' = <<>>
    BY <2>3, EmptySeq, Len(buf) \in Nat
  <2> QED BY <1>6, <2>2, <2>3, <2>4, <2>5, <2>6
<1>8. CASE WriteFails
  <2>1. /\ UNCHANGED <<stack, sock, ready, server, packet_number, s2c, buf>>
        /\ pc' = "stop" /\ rc' \in Lost
    BY <1>8 DEF WriteFails, Return, ioVars, conVars
  <2> QED BY <1>6, <2>1
<1>9. CASE /\ buf = <<>> /\ Pop /\ Continue
           /\ UNCHANGED <<ioVars, conVars, pollVars, buf>>
  <2>1. /\ UNCHANGED <<sock, ready, server, packet_number, s2c, buf>> /\ pc' = "loop"
        /\ stack' = Tail(stack) /\ buf' = <<>>
    BY <1>1, <1>9 DEF Pop, Continue, ioVars, conVars
  <2> QED BY <1>6, <1>9, <2>1
<1> QED BY <1>5, <1>7, <1>8, <1>9 DEF drizzle_state_write

(* drizzle_state_packet_read: the header of the greeting is consumed, and  *)
(* the body of it is next.                                                 *)
LEMMA PacketReadSession ==
  ASSUME StackInvariant, SessionInvariant, drizzle_state_packet_read
  PROVE  SessionInvariant'
<1> USE DEF SessionInvariant
<1>1. /\ pc = "loop" /\ stack # <<>> /\ Head(stack) = "packet_read"
      /\ stack \in {<<"packet_read", h>> : h \in Parsers \ {"field_read"}}
  BY Shapes DEF drizzle_state_packet_read, Running, StackInvariant, WellFormedStack
<1>2. PICK h \in Parsers \ {"field_read"} : stack = <<"packet_read", h>>
  BY <1>1
<1>3. Tail(stack) = <<h>> /\ <<"read">> \o stack = <<"read", "packet_read", h>>
  <2>1. "read" \in Handlers /\ "packet_read" \in Handlers /\ h \in Handlers
    BY DEF Handlers, Parsers
  <2>2. <<"read">> \o <<"packet_read", h>> = <<"read", "packet_read", h>>
    BY <2>1, Extensions
  <2>3. Tail(stack) = <<h>>
    BY <1>2
  <2> QED BY <1>2, <2>2, <2>3
<1>4. /\ UNCHANGED <<sock, ready, server, s2c>> /\ buf \in Seq(Units)
      /\ ~ Top({"addrinfo", "connect", "connecting"})
  BY <1>1 DEF drizzle_state_packet_read, ioVars, StackInvariant, TypeOK, ConnectionTypeOK, Top
<1>5. \/ /\ stack' = <<"read", "packet_read", h>> /\ pc' = "loop"
         /\ UNCHANGED <<packet_number, buf>>
      \/ /\ stack' = stack /\ pc' = "stop" /\ rc' = "BAD_PACKET_NUMBER"
         /\ UNCHANGED <<packet_number, buf>>
      \/ stack' = <<h>> /\ pc' = "loop" /\ buf # <<>> /\ buf' = Tail(buf)
  <2>1. CASE Len(buf) < 2
    BY <1>1, <1>3, <2>1 DEF drizzle_state_packet_read, Push, Continue, dataVars
  <2>2. CASE ~ (Len(buf) < 2)
    <3>1. buf # <<>>
      BY <2>2
    <3>2. \/ /\ Return("BAD_PACKET_NUMBER")
             /\ UNCHANGED <<stack, packet_number, buf>>
          \/ buf' = Tail(buf) /\ Pop /\ Continue
      BY <2>2 DEF drizzle_state_packet_read
    <3> QED BY <1>1, <1>3, <3>1, <3>2 DEF Pop, Continue, Return
  <2> QED BY <2>1, <2>2
<1>6. /\ stack \in ReaderStates(h) /\ stack' \in ReaderStates(h)
      /\ stack # <<"handshake_server_read">>
  BY <1>2, <1>5 DEF ReaderStates
<1>7. /\ stack' # <<>> /\ stack' \notin {<<"connect">>, <<"connecting">>}
      /\ Head(stack') \notin {"addrinfo", "connect", "connecting"}
      /\ stack' \in ConnectStates <=> stack \in ConnectStates
      /\ stack' \in HandshakeStates <=> stack \in HandshakeStates
      /\ stack' \in CommandStates <=> stack \in CommandStates
      /\ stack' \in ReaderStates("handshake_result_read")
           <=> stack \in ReaderStates("handshake_result_read")
  BY <1>6, ReaderClasses
<1>8. CleanApart' /\ PendingAwaited' /\ StackTellsReady' /\ CodesMean'
  <2>1. sock # "connected" => UNCHANGED <<packet_number, buf, s2c>>
    BY <1>4, <1>5 DEF CleanApart, Clean
  <2>2. /\ stack \in CommandStates => ready
        /\ stack \in ConnectStates \cup HandshakeStates => ~ ready
        /\ ~ ready /\ sock = "connected" => stack \in ConnectStates \cup HandshakeStates
        /\ sock # "connected" => stack \notin HandshakeStates
    BY <1>1 DEF StackTellsReady, CleanApart, Closing
  <2>3. Outcome /\ ~ Top({"addrinfo", "connect", "connecting"})'
    BY <1>5, <1>7 DEF Outcome, Resumable, Top
  <2> QED BY <1>1, <1>4, <1>7, <2>1, <2>2, <2>3, HandlerMoves
<1>9. CASE buf' = buf /\ stack' # <<h>>
  <2>1. stack' # <<"handshake_server_read">>
    BY <1>2, <1>5, <1>9
  <2>2. RepliesFollow' /\ GreetingFirst'
    BY <1>4, <1>6, <1>7, <1>9, <2>1, NothingSaid
  <2> QED BY <1>8, <2>2
<1>10. CASE stack' = <<h>> /\ buf # <<>> /\ buf' = Tail(buf)
  <2>1. /\ Kinds(buf') \subseteq Kinds(buf) /\ Len(buf) \in Nat /\ Len(buf') = Len(buf) - 1
        /\ \A i \in DOMAIN (buf') :
             i \in Nat /\ i + 1 \in DOMAIN buf /\ buf'[i] = buf[i + 1]
    BY <1>4, <1>10, TailKinds
  <2>2. RepliesFollow'
    BY <1>4, <1>10, <2>1 DEF RepliesFollow
  <2>3. ASSUME stack' \in ConnectStates
        PROVE  /\ \A i \in DOMAIN (buf') : buf'[i].kind \in Greetings => i <= GreetingLength'
               /\ \A i \in DOMAIN (s2c') :
                    s2c'[i].kind \in Greetings => Len(buf') + i <= GreetingLength'
    <3>1. stack' = <<"handshake_server_read">>
      BY <1>6, <1>10, <2>3, ReaderClasses
    <3>2. GreetingLength = 2 /\ GreetingLength' = 1
      BY <1>6, <3>1 DEF GreetingLength
    <3>3. /\ \A i \in DOMAIN buf : buf[i].kind \in Greetings => i <= 2
          /\ \A i \in DOMAIN s2c : s2c[i].kind \in Greetings => Len(buf) + i <= 2
      BY <1>7, <2>3, <3>2 DEF GreetingFirst
    <3>4. \A i \in DOMAIN (buf') : buf'[i].kind \in Greetings => i <= 1
      BY <2>1, <3>3
    <3>5. DOMAIN s2c = 1..Len(s2c) /\ Len(s2c) \in Nat
      BY LenProperties DEF StackInvariant, TypeOK, PeerTypeOK
    <3>6. \A i \in DOMAIN s2c : s2c[i].kind \in Greetings => (Len(buf) - 1) + i <= 1
      BY <2>1, <3>3, <3>5
    <3> QED BY <1>4, <2>1, <3>2, <3>4, <3>6
  <2>4. GreetingFirst'
    BY <1>4, <1>7, <2>1, <2>3 DEF GreetingFirst
  <2> QED BY <1>8, <2>2, <2>4
<1> QED BY <1>2, <1>5, <1>9, <1>10

----------------------------------------------------------------------------
(* The handlers of the handshake.                                          *)

(* drizzle_state_handshake_server_read: an accepted greeting has no other  *)
(* behind it.                                                              *)
LEMMA GreetingSession ==
  ASSUME StackInvariant, SessionInvariant, drizzle_state_handshake_server_read
  PROVE  SessionInvariant'
<1> USE DEF SessionInvariant
<1>1. pc = "loop" /\ stack = <<"handshake_server_read">> /\ Quiet
  BY Shapes DEF drizzle_state_handshake_server_read, Running, Parsers, StackInvariant,
     WellFormedStack
<1>2. Head(stack) = "handshake_server_read" /\ stack # <<>> /\ Tail(stack) = <<>>
  BY <1>1
<1>3. /\ packet_size \in {0, 1} /\ (packet_size = 1 => buf # <<>>)
      /\ buf \in Seq(Units) /\ Len(buf) \in Nat
      /\ s2c \in Seq(Units) /\ DOMAIN s2c = 1..Len(s2c) /\ Len(s2c) \in Nat
  BY <1>2, LenProperties DEF ParserHasPacket, Top, StackInvariant, TypeOK, ConnectionTypeOK,
     PeerTypeOK
<1>4. ~ Short
  BY <1>3, EmptySeq DEF Short
<1>5. GreetingIsError \/ GreetingRejected \/ GreetingAccepted
  BY <1>4 DEF drizzle_state_handshake_server_read, Parse
<1>6. UNCHANGED <<sock, server, s2c>>
  BY <1>1 DEF Quiet, ioVars
<1>7. /\ stack \in ConnectStates /\ stack \notin HandshakeStates /\ ~ ready
      /\ ~ Top({"addrinfo", "connect", "connecting"}) /\ GreetingLength = 1
  BY <1>1, <1>2 DEF ConnectStates, HandshakeStates, ReaderStates, StackTellsReady,
     GreetingLength, Top
<1>8. /\ \A i \in DOMAIN buf : buf[i].kind \in Greetings => i <= 1
      /\ \A i \in DOMAIN s2c : s2c[i].kind \in Greetings => Len(buf) + i <= 1
  BY <1>7 DEF GreetingFirst
<1>9. CASE GreetingIsError \/ GreetingRejected
  <2>1. /\ UNCHANGED <<stack, ready, packet_number>> /\ pc' = "stop"
        /\ rc' \in {"ERROR_CODE", "UNEXPECTED_DATA", "BAD_HANDSHAKE_PACKET"}
        /\ buf' = buf \/ (buf # <<>> /\ buf' = Tail(buf))
    BY <1>3, <1>9 DEF GreetingIsError, GreetingRejected, Return, Consume, dataVars, conVars
  <2>2. CleanApart' /\ PendingAwaited' /\ StackTellsReady' /\ CodesMean'
    <3>1. sock # "connected" => UNCHANGED <<packet_number, buf, s2c>>
      BY <1>6, <2>1 DEF CleanApart, Clean
    <3>2. Outcome
      BY <2>1 DEF Outcome, Resumable
    <3>3. stack' \notin {<<"connect">>, <<"connecting">>} /\ stack' \notin CommandStates
      BY <1>7, <2>1 DEF StackTellsReady
    <3>4. ~ Top({"addrinfo", "connect", "connecting"})'
      BY <1>7, <2>1 DEF Top
    <3> QED BY <1>1, <1>6, <1>7, <2>1, <3>1, <3>2, <3>3, <3>4, HandlerMoves
  <2>3. CASE buf' = buf
    BY <1>6, <1>7, <2>1, <2>2, <2>3, NothingSaid
  <2>4. CASE buf # <<>> /\ buf' = Tail(buf)
    <3>1. /\ Kinds(buf') \subseteq Kinds(buf) /\ Len(buf') = Len(buf) - 1
          /\ \A i \in DOMAIN (buf') :
               i \in Nat /\ i + 1 \in DOMAIN buf /\ buf'[i] = buf[i + 1]
      BY <1>3, <2>4, TailKinds
    <3>2. RepliesFollow'
      BY <1>6, <2>1, <2>4, <3>1 DEF RepliesFollow
    <3>3. GreetingLength' = 1
      BY <1>1, <2>1 DEF GreetingLength
    <3>4. \A i \in DOMAIN (buf') : buf'[i].kind \in Greetings => i <= 1
      BY <1>8, <3>1
    <3>5. \A i \in DOMAIN s2c : s2c[i].kind \in Greetings => Len(buf') + i <= 1
      BY <1>3, <1>8, <3>1
    <3>6. /\ stack' \notin HandshakeStates
          /\ stack' \notin ReaderStates("handshake_result_read")
      BY <1>1, <2>1 DEF HandshakeStates, ReaderStates
    <3>7. GreetingFirst'
      BY <1>6, <3>3, <3>4, <3>5, <3>6 DEF GreetingFirst
    <3> QED BY <2>2, <3>2, <3>7
  <2> QED BY <2>1, <2>3, <2>4
<1>10. CASE GreetingAccepted
  <2>1. <<"handshake_client_write", "write", "packet_read", "handshake_result_read">> \o <<>>
        = <<"handshake_client_write", "write", "packet_read", "handshake_result_read">>
    BY OnEmpty DEF Handlers
  <2>2. /\ stack' = <<"handshake_client_write", "write", "packet_read", "handshake_result_read">>
        /\ pc' = "loop" /\ UNCHANGED <<ready, packet_number>>
        /\ buf' = Tail(buf) /\ packet_size = 1 /\ Len(buf) = 1
    BY <1>1, <1>2, <1>10, <2>1 DEF GreetingAccepted, Replace, Continue, Consume, conVars
  <2>3. /\ buf # <<>> /\ buf' = <<>> /\ sock = "connected" /\ server # "greet"
    <3>1. buf # <<>>
      BY <1>3, <2>2
    <3>2. Len(buf') = 0 /\ buf' \in Seq(Units)
      BY <1>3, <2>2, <3>1, HeadTailProperties
    <3>3. buf' = <<>>
      BY <3>2, EmptySeq
    <3> QED BY <3>1, <3>3 DEF CleanApart, Clean, RepliesFollow
  <2>4. /\ stack' \in HandshakeStates /\ stack' \notin ConnectStates \cup CommandStates
        /\ stack' \notin {<<"connect">>, <<"connecting">>}
        /\ stack' \notin ReaderStates("handshake_result_read")
        /\ stack' # <<"handshake_server_read">>
    BY <2>2 DEF HandshakeStates, ConnectStates, CommandStates, ReaderStates
  <2>5. CleanApart' /\ PendingAwaited' /\ StackTellsReady' /\ CodesMean'
    <3>1. Outcome /\ ~ Top({"addrinfo", "connect", "connecting"})'
      BY <2>2 DEF Outcome, Top
    <3> QED BY <1>1, <1>6, <1>7, <2>2, <2>3, <2>4, <3>1, HandlerMoves
  <2>6. RepliesFollow'
    BY <1>6, <2>2, <2>3, <2>4, NoKinds DEF RepliesFollow
  <2>7. Kinds(s2c) \cap Greetings = {}
    BY <1>3, <1>8, <2>2 DEF Kinds
  <2>8. GreetingFirst'
    BY <1>6, <2>3, <2>4, <2>7, NoKinds DEF GreetingFirst
  <2> QED BY <2>5, <2>6, <2>8
<1> QED BY <1>5, <1>9, <1>10

(* drizzle_state_handshake_client_write.                                   *)
LEMMA ClientWriteSession ==
  ASSUME StackInvariant, SessionInvariant, drizzle_state_handshake_client_write
  PROVE  SessionInvariant'
<1> USE DEF SessionInvariant
<1>1. /\ pc = "loop" /\ Quiet
      /\ stack = <<"handshake_client_write", "write", "packet_read", "handshake_result_read">>
  BY Shapes DEF drizzle_state_handshake_client_write, Running, StackInvariant, WellFormedStack
<1>2. /\ Head(stack) = "handshake_client_write" /\ stack # <<>>
      /\ Tail(stack) = <<"write", "packet_read", "handshake_result_read">>
  BY <1>1
<1> DEFINE u == Unit("whole", "auth", packet_number, 0, 0)
<1>3. /\ UNCHANGED <<ready, sock, server, s2c>> /\ buf' = Append(buf, u)
      /\ stack' = <<"write", "packet_read", "handshake_result_read">> /\ pc' = "loop"
  BY <1>1, <1>2 DEF drizzle_state_handshake_client_write, Pop, Continue, Quiet, ioVars
<1>4. /\ stack \in HandshakeStates /\ ~ ready
      /\ ~ Top({"addrinfo", "connect", "connecting"})
  BY <1>1, <1>2 DEF HandshakeStates, StackTellsReady, Top
<1>5. sock = "connected"
  BY <1>4 DEF CleanApart
<1>6. /\ stack' \in HandshakeStates /\ stack' \notin ConnectStates \cup CommandStates
      /\ stack' \notin {<<"connect">>, <<"connecting">>}
      /\ stack' \notin ReaderStates("handshake_result_read")
      /\ stack' # <<"handshake_server_read">>
      /\ stack' # <<>> /\ Head(stack') = "write"
  BY <1>3 DEF HandshakeStates, ConnectStates, CommandStates, ReaderStates
<1>7. CleanApart' /\ PendingAwaited' /\ StackTellsReady' /\ CodesMean'
  <2>1. Outcome /\ ~ Top({"addrinfo", "connect", "connecting"})'
    BY <1>3, <1>6 DEF Outcome, Top
  <2> QED BY <1>1, <1>3, <1>4, <1>5, <1>6, <2>1, HandlerMoves
<1>8. Kinds(buf') = Kinds(buf) \cup {"auth"}
  <2>1. buf \in Seq(Units) /\ packet_number \in 0..(PacketMod - 1)
    BY DEF StackInvariant, TypeOK, ConnectionTypeOK
  <2>2. u \in Units /\ u.kind = "auth"
    BY <2>1 DEF Unit, Units, ClientKinds
  <2> HIDE DEF u
  <2> QED BY <1>3, <2>1, <2>2, AppendKinds
<1>9. /\ server # "greet"
      /\ (Kinds(buf) \cup Kinds(s2c)) \cap Greetings = {}
  BY <1>4 DEF GreetingFirst
<1>10. RepliesFollow'
  <2>1. "auth" \notin Replies
    BY DEF Replies
  <2> QED BY <1>3, <1>4, <1>8, <1>9, <2>1 DEF RepliesFollow
<1>11. GreetingFirst'
  <2>1. "auth" \notin Greetings
    BY DEF Greetings
  <2> QED BY <1>3, <1>6, <1>8, <1>9, <2>1 DEF GreetingFirst
<1> QED BY <1>7, <1>10, <1>11

(* drizzle_state_handshake_result_read: what lets the client in is a       *)
(* packet of a server that has authenticated it.                           *)
LEMMA HandshakeResultSession ==
  ASSUME StackInvariant, SessionInvariant, drizzle_state_handshake_result_read
  PROVE  SessionInvariant'
<1> USE DEF SessionInvariant
<1>1. pc = "loop" /\ stack = <<"handshake_result_read">> /\ Quiet
  BY Shapes DEF drizzle_state_handshake_result_read, Running, StackInvariant, WellFormedStack,
     Parsers
<1>2. Head(stack) = "handshake_result_read" /\ stack # <<>> /\ Tail(stack) = <<>>
  BY <1>1
<1>3. packet_size = 1 /\ buf # <<>> /\ buf \in Seq(Units)
  BY <1>2 DEF ParserHasPacket, Top, StackInvariant, TypeOK, ConnectionTypeOK, Parsers
<1>4. ~ Short
  BY <1>3, EmptySeq DEF Short
<1>5. /\ UNCHANGED <<packet_number, sock, server, s2c>>
      /\ buf' = Tail(buf) /\ stack' = <<>>
      /\ \/ pc' = "loop" /\ ready' = TRUE /\ Body.kind \notin {"err", "eof"}
         \/ pc' = "stop" /\ rc' \in {"HANDSHAKE_FAILED", "AUTH_FAILED"} /\ ready' = ready
  BY <1>1, <1>2, <1>4 DEF drizzle_state_handshake_result_read, Consume, Pop, Return, Continue,
     Quiet, ioVars, StackInvariant, TypeOK, ConnectionTypeOK
<1>6. stack \in HandshakeStates /\ stack \in ReaderStates("handshake_result_read")
  BY <1>1 DEF HandshakeStates, ReaderStates
<1>7. /\ sock = "connected" /\ server # "greet" /\ ~ ready
      /\ (Kinds(buf) \cup Kinds(s2c)) \cap Greetings = {} /\ Kinds(buf) \subseteq ServerKinds
  BY <1>6 DEF CleanApart, GreetingFirst, StackTellsReady
<1>8. Body.kind \in Kinds(buf) /\ Kinds(buf') \subseteq Kinds(buf)
  BY <1>3, <1>5, TailKinds DEF Body
<1>9. ready' => server \in {"idle", "closed"}
  <2>1. Body.kind \notin {"err", "eof"} => Body.kind \in Replies
    BY <1>7, <1>8 DEF ServerKinds, Greetings, Replies
  <2> QED BY <1>5, <1>7, <1>8, <2>1 DEF RepliesFollow
<1>10. /\ stack' \notin ConnectStates \cup HandshakeStates \cup CommandStates
       /\ stack' \notin {<<"connect">>, <<"connecting">>}
       /\ stack' # <<"handshake_server_read">>
       /\ stack' \notin ReaderStates("handshake_result_read")
  BY <1>5 DEF ConnectStates, HandshakeStates, CommandStates, ReaderStates
<1>11. CleanApart' /\ PendingAwaited'
  BY <1>5, <1>7 DEF CleanApart, PendingAwaited, Top
<1>12. StackTellsReady'
  BY <1>5, <1>10 DEF StackTellsReady, Closing, Resumable
<1>13. CodesMean'
  BY <1>5 DEF CodesMean
<1>14. RepliesFollow'
  BY <1>5, <1>7, <1>8, <1>9, <1>10 DEF RepliesFollow
<1>15. GreetingFirst'
  BY <1>10 DEF GreetingFirst
<1> QED BY <1>11, <1>12, <1>13, <1>14, <1>15

----------------------------------------------------------------------------
(* The handlers of a command and its reply.                                *)

(* drizzle_state_command_write: only an authenticated client sends.        *)
LEMMA CommandWriteSession ==
  ASSUME StackInvariant, SessionInvariant, drizzle_state_command_write
  PROVE  SessionInvariant'
<1> USE DEF SessionInvariant
<1>1. /\ pc = "loop" /\ stack = <<"command_write">> /\ Quiet
      /\ ready' = ready /\ pc' = "loop"
      /\ stack' \in {<<"write">>, <<"write", "command_write">>,
                    <<"write", "packet_read", "result_read">>}
      /\ \/ buf' = buf
         \/ \E m \in 1..command.left :
              /\ Copied(m) \in Seq(Units)
              /\ buf' = buf \o Copied(m) \/ buf' = Copied(m)
  BY CommandWriteEffect
<1>2. /\ stack \in CommandStates /\ stack # <<>> /\ Head(stack) = "command_write"
      /\ UNCHANGED <<sock, server, s2c>> /\ buf \in Seq(Units)
      /\ command.name \in Commands
  BY <1>1 DEF CommandStates, Quiet, ioVars, StackInvariant, TypeOK, ConnectionTypeOK,
     CommandTypeOK
<1>3. ready /\ sock = "connected" /\ server \in {"idle", "closed"}
  BY <1>2 DEF StackTellsReady, CleanApart, Clean, RepliesFollow
<1>4. /\ stack' \in CommandStates /\ stack' \notin ConnectStates \cup HandshakeStates
      /\ stack' \notin {<<"connect">>, <<"connecting">>}
      /\ stack' \notin ReaderStates("handshake_result_read")
      /\ stack' # <<"handshake_server_read">>
      /\ stack' # <<>> /\ Head(stack') = "write"
  BY <1>1 DEF HandshakeStates, ConnectStates, CommandStates, ReaderStates
<1>5. CleanApart' /\ PendingAwaited' /\ StackTellsReady' /\ CodesMean'
  <2>1. /\ ~ Top({"addrinfo", "connect", "connecting"})
        /\ ~ Top({"addrinfo", "connect", "connecting"})' /\ Outcome
    BY <1>1, <1>2, <1>4 DEF Top, Outcome
  <2> QED BY <1>1, <1>2, <1>3, <1>4, <2>1, HandlerMoves
<1>6. RepliesFollow'
  BY <1>1, <1>2, <1>3, <1>4 DEF RepliesFollow
<1>7. GreetingFirst'
  BY <1>4 DEF GreetingFirst
<1> QED BY <1>5, <1>6, <1>7

(* A parser of a reply is done, asks for more, or gives way.               *)
LEMMA ReplySession ==
  ASSUME StackInvariant, SessionInvariant, pc = "loop", Quiet,
         stack # <<>>, Head(stack) \in {"result_read", "column_read", "row_read", "field_read"},
         UNCHANGED <<ready, packet_number>>,
         buf' = buf \/ (buf # <<>> /\ buf' = Tail(buf)),
         \/ buf # <<>> /\ stack' \in {<<>>, <<"result_read">>}
         \/ stack' = <<"read", "field_read">> /\ stack = <<"field_read">>,
         \/ pc' = "loop"
         \/ pc' = "stop" /\ rc' = "ERROR_CODE"
  PROVE  SessionInvariant'
<1> USE DEF SessionInvariant
<1>1. /\ UNCHANGED <<sock, server, s2c>> /\ buf \in Seq(Units)
      /\ stack \in {<<h>> : h \in {"result_read", "column_read", "row_read", "field_read"}}
  BY Shapes DEF Quiet, ioVars, StackInvariant, TypeOK, ConnectionTypeOK, WellFormedStack,
     Parsers
<1>2. stack \notin ConnectStates \cup HandshakeStates
  BY <1>1 DEF ConnectStates, HandshakeStates, ReaderStates
<1>3. sock = "connected" => ready
  BY <1>2 DEF StackTellsReady, Closing
<1>4. buf # <<>> => sock = "connected"
  BY DEF CleanApart, Clean
<1>5. /\ stack' \notin ConnectStates \cup HandshakeStates
      /\ stack' \notin {<<"connect">>, <<"connecting">>}
      /\ ~ Top({"addrinfo", "connect", "connecting"})
      /\ ~ Top({"addrinfo", "connect", "connecting"})'
  BY <1>1 DEF ConnectStates, HandshakeStates, ReaderStates, Top
<1>6. stack' \in CommandStates => ready
  BY <1>3, <1>4 DEF CommandStates, ReaderStates
<1>7. sock # "connected" => UNCHANGED <<packet_number, buf, s2c>>
  BY <1>1, <1>4
<1>8. Outcome
  BY <1>3, <1>4 DEF Outcome
<1>9. CleanApart' /\ PendingAwaited' /\ StackTellsReady' /\ CodesMean'
  BY <1>1, <1>3, <1>5, <1>6, <1>7, <1>8, HandlerMoves
<1>10. RepliesFollow' /\ GreetingFirst'
  BY <1>1, <1>5, ReplyConsumed
<1> QED BY <1>9, <1>10

(* drizzle_state_result_read.                                              *)
LEMMA ResultReadSession ==
  ASSUME StackInvariant, SessionInvariant, drizzle_state_result_read
  PROVE  SessionInvariant'
<1>1. pc = "loop" /\ stack = <<"result_read">> /\ Quiet
  BY Shapes DEF drizzle_state_result_read, Running, StackInvariant, WellFormedStack, Parsers
<1>2. ~ Short /\ buf # <<>> /\ Tail(stack) = <<>> /\ stack # <<>> /\ Head(stack) = "result_read"
  BY <1>1, Parsed
<1>3. /\ UNCHANGED <<ready, packet_number>> /\ buf' = Tail(buf) /\ stack' = <<>>
      /\ pc' = "loop" \/ (pc' = "stop" /\ rc' = "ERROR_CODE")
  BY <1>1, <1>2 DEF drizzle_state_result_read, Parse, Consume, Pop, Return, Continue, conVars
<1> QED BY <1>1, <1>2, <1>3, ReplySession

(* drizzle_state_column_read.                                              *)
LEMMA ColumnReadSession ==
  ASSUME StackInvariant, SessionInvariant, drizzle_state_column_read
  PROVE  SessionInvariant'
<1>1. pc = "loop" /\ stack = <<"column_read">> /\ Quiet
  BY Shapes DEF drizzle_state_column_read, Running, StackInvariant, WellFormedStack, Parsers
<1>2. ~ Short /\ buf # <<>> /\ Tail(stack) = <<>> /\ stack # <<>> /\ Head(stack) = "column_read"
  BY <1>1, Parsed
<1>3. /\ UNCHANGED <<ready, packet_number>> /\ buf' = Tail(buf) /\ stack' = <<>>
      /\ pc' = "loop"
  BY <1>1, <1>2 DEF drizzle_state_column_read, Parse, Consume, Pop, Continue, conVars
<1> QED BY <1>1, <1>2, <1>3, ReplySession

(* drizzle_state_row_read.                                                 *)
LEMMA RowReadSession ==
  ASSUME StackInvariant, SessionInvariant, drizzle_state_row_read
  PROVE  SessionInvariant'
<1>1. pc = "loop" /\ stack = <<"row_read">> /\ Quiet
  BY Shapes DEF drizzle_state_row_read, Running, StackInvariant, WellFormedStack, Parsers
<1>2. ~ Short /\ buf # <<>> /\ Tail(stack) = <<>> /\ stack # <<>> /\ Head(stack) = "row_read"
  BY <1>1, Parsed
<1>3. <<"result_read">> \o <<>> = <<"result_read">>
  BY OnEmpty DEF Handlers
<1>4. /\ UNCHANGED <<ready, packet_number>> /\ pc' = "loop"
      /\ stack' \in {<<>>, <<"result_read">>} /\ buf' \in {buf, Tail(buf)}
  BY <1>1, <1>2, <1>3 DEF drizzle_state_row_read, Parse, Consume, Pop, Replace, Continue,
     conVars, dataVars
<1> QED BY <1>1, <1>2, <1>4, ReplySession

(* drizzle_state_field_read.                                               *)
LEMMA FieldReadSession ==
  ASSUME StackInvariant, SessionInvariant, drizzle_state_field_read
  PROVE  SessionInvariant'
<1>1. pc = "loop" /\ stack = <<"field_read">> /\ Quiet
  BY Shapes DEF drizzle_state_field_read, Running, StackInvariant, WellFormedStack, Parsers
<1>2. /\ Tail(stack) = <<>> /\ stack # <<>> /\ Head(stack) = "field_read"
      /\ <<"read">> \o stack = <<"read", "field_read">>
  <2>1. "read" \in Handlers /\ "field_read" \in Handlers
    BY DEF Handlers
  <2>2. <<"read">> \o <<"field_read">> = <<"read", "field_read">>
    BY <2>1, Extensions
  <2> QED BY <1>1, <2>2
<1>3. /\ UNCHANGED <<ready, packet_number>> /\ pc' = "loop"
      /\ \/ stack' = <<"read", "field_read">> /\ buf' = buf
         \/ buf # <<>> /\ stack' = <<>> /\ buf' = Tail(buf)
  BY <1>1, <1>2 DEF drizzle_state_field_read, Consume, Pop, Push, Continue, conVars, dataVars
<1> QED BY <1>1, <1>2, <1>3, ReplySession

----------------------------------------------------------------------------
(* Connecting.                                                             *)

(* The states of an attempt to connect are no others.                      *)
LEMMA ConnectClasses ==
  /\ \A s \in ConnectStates :
       /\ s # <<>> /\ s \notin HandshakeStates \cup CommandStates
       /\ s \notin ReaderStates("handshake_result_read")
  /\ <<>> \notin ConnectStates \cup HandshakeStates \cup CommandStates
<1>1. \A s \in ConnectStates :
        s # <<>> /\ s \notin HandshakeStates /\ s \notin CommandStates
  BY DEF ConnectStates, HandshakeStates, CommandStates, ReaderStates
<1>2. <<>> \notin ConnectStates \cup HandshakeStates \cup CommandStates
  BY DEF ConnectStates, HandshakeStates, CommandStates, ReaderStates
<1> QED BY <1>1, <1>2 DEF HandshakeStates

(* A step that moves nothing but codes and masks.                          *)
LEMMA Unmoved ==
  ASSUME SessionInvariant,
         UNCHANGED <<stack, sock, ready, server, packet_number, buf, s2c>>,
         sock = "pending" => revents' = {},
         Closing => Closing',
         CodesMean'
  PROVE  SessionInvariant'
<1> USE DEF SessionInvariant
<1>1. CleanApart' /\ PendingAwaited'
  BY DEF CleanApart, PendingAwaited, Clean, Top
<1>2. StackTellsReady'
  BY DEF StackTellsReady
<1>3. RepliesFollow' /\ GreetingFirst'
  BY NothingSaid
<1> QED BY <1>1, <1>2, <1>3

(* A step of an attempt to connect.                                        *)
LEMMA AttemptMoves ==
  ASSUME SessionInvariant, Clean',
         sock' # "connected" => server' = "none" /\ s2c' = <<>>,
         sock' = "pending" => Top({"connecting"})' /\ revents' = {},
         \/ stack' \in ConnectStates \ {<<"connect">>, <<"connecting">>}
         \/ stack' = <<>> /\ Closing',
         \/ pc' = "loop"
         \/ pc' = "stop" /\ rc' \notin {"IO_WAIT", "PAUSE"}
  PROVE  CleanApart' /\ PendingAwaited' /\ StackTellsReady' /\ CodesMean'
<1>1. /\ stack' \notin HandshakeStates \cup CommandStates
      /\ stack' \notin {<<"connect">>, <<"connecting">>}
      /\ stack' = <<>> => Closing'
      /\ stack' # <<>> => stack' \in ConnectStates
  BY ConnectClasses
<1>2. ready' = FALSE
  BY DEF Clean
<1>3. CleanApart' /\ PendingAwaited'
  BY <1>1 DEF CleanApart, PendingAwaited
<1>4. StackTellsReady'
  BY <1>1, <1>2 DEF StackTellsReady
<1>5. CodesMean'
  BY <1>1 DEF CodesMean, Closing
<1> QED BY <1>3, <1>4, <1>5

(* drizzle_state_addrinfo.                                                 *)
LEMMA AddrinfoSession ==
  ASSUME StackInvariant, SessionInvariant, drizzle_state_addrinfo
  PROVE  SessionInvariant'
<1> USE DEF SessionInvariant
<1>1. /\ pc = "loop"
      /\ stack = <<"addrinfo", "connect", "packet_read", "handshake_server_read">>
  BY Shapes DEF drizzle_state_addrinfo, Running, StackInvariant, WellFormedStack
<1>2. /\ Tail(stack) = <<"connect", "packet_read", "handshake_server_read">>
      /\ stack # <<>> /\ Head(stack) = "addrinfo"
  BY <1>1
<1>3. /\ UNCHANGED <<sock, s2c, server, ready, packet_number, revents, buf>>
      /\ \/ stack' = Tail(stack) /\ pc' = "loop"
         \/ stack' = stack /\ pc' = "stop" /\ rc' = "GETADDRINFO"
  BY <1>1 DEF drizzle_state_addrinfo, Pop, Continue, Return, ioVars, conVars, pollVars,
     dataVars
<1>4. Clean /\ sock # "pending" /\ (sock # "connected" => server = "none" /\ s2c = <<>>)
  BY <1>1, <1>2 DEF CleanApart, PendingAwaited, Top, Closing
<1>5. /\ stack' \in ConnectStates \ {<<"connect">>, <<"connecting">>}
      /\ stack' # <<"handshake_server_read">>
      /\ stack \in ConnectStates /\ stack # <<"handshake_server_read">>
  BY <1>1, <1>2, <1>3 DEF ConnectStates
<1>6. CleanApart' /\ PendingAwaited' /\ StackTellsReady' /\ CodesMean'
  BY <1>3, <1>4, <1>5, AttemptMoves DEF Clean
<1>7. RepliesFollow' /\ GreetingFirst'
  BY <1>3, <1>5, ConnectClasses, NothingSaid
<1> QED BY <1>6, <1>7

(* drizzle_state_connect: a new socket, or the code of a failure.  Only a  *)
(* callback that refuses to watch it would leave the stack without the     *)
(* handshake.                                                              *)
LEMMA ConnectEffect ==
  ASSUME CallbackAccepts, StackInvariant, SessionInvariant, drizzle_state_connect
  PROVE  /\ pc = "loop" /\ Clean /\ Clean' /\ s2c' = <<>>
         /\ stack = <<"connect", "packet_read", "handshake_server_read">>
         /\ \/ server' = "none" /\ sock' # "connected"
            \/ server' = "greet" /\ sock' = "connected"
         /\ sock' = "pending" => Top({"connecting"})' /\ revents' = {}
         /\ \/ /\ stack' \in {<<"packet_read", "handshake_server_read">>, stack,
                              <<"connecting", "packet_read", "handshake_server_read">>}
               /\ pc' = "loop" \/ (pc' = "stop" /\ rc' = "COULD_NOT_CONNECT")
            \/ stack' = <<>> /\ pc' = "stop" /\ rc' = "COULD_NOT_CONNECT"
<1> USE DEF SessionInvariant
<1>1. /\ pc = "loop" /\ stack # <<>> /\ Head(stack) = "connect"
      /\ stack = <<"connect", "packet_read", "handshake_server_read">>
  BY Shapes DEF drizzle_state_connect, Running, StackInvariant, WellFormedStack,
     StackTellsReady
<1>2. /\ Tail(stack) = <<"packet_read", "handshake_server_read">>
      /\ <<"connecting">> \o Tail(stack)
         = <<"connecting", "packet_read", "handshake_server_read">>
  <2>1. /\ "connecting" \in Handlers /\ "packet_read" \in Handlers
        /\ "handshake_server_read" \in Handlers
    BY DEF Handlers
  <2>2. <<"connecting">> \o <<"packet_read", "handshake_server_read">>
        = <<"connecting", "packet_read", "handshake_server_read">>
    BY <2>1, Extensions
  <2>3. Tail(stack) = <<"packet_read", "handshake_server_read">>
    BY <1>1
  <2> QED BY <2>2, <2>3
<1>3. Clean
  BY <1>1 DEF CleanApart, Top, Closing
<1>4. CASE ConnectUds
  BY <1>1, <1>2, <1>3, <1>4 DEF ConnectUds, NewSocket, Pop, Continue, Return, conVars, Clean
<1>5. CASE NoAddressLeft
  BY <1>1, <1>3, <1>5 DEF NoAddressLeft, NewSocket, Return, conVars, Clean
<1>6. CASE ConnectFails
  BY <1>1, <1>3, <1>6 DEF ConnectFails, SetSockOptFails, NewSocket, Return, conVars, Clean
<1>7. CASE ConnectAtOnce
  BY <1>1, <1>2, <1>3, <1>7 DEF ConnectAtOnce, NewSocket, Pop, Continue, conVars, Clean
<1>8. CASE ConnectRefused
  BY <1>1, <1>3, <1>8 DEF ConnectRefused, NewSocket, Continue, conVars, Clean
<1>9. CASE ConnectInProgress
  <2>1. CallbackErrors = {} \/ ~ HasCallback
    BY <1>9 DEF ConnectInProgress, CallbackAccepts
  <2>2. /\ s2c' = <<>> /\ server' = "none" /\ revents' = {} /\ sock' = "pending"
        /\ stack' = <<"connecting">> \o Tail(stack) /\ UNCHANGED <<ready, packet_number, buf>>
        /\ pc' = pc
    BY <1>9, <2>1 DEF ConnectInProgress, Replace, Continue, conVars
  <2>3. Top({"connecting"})' /\ Clean'
    BY <1>2, <1>3, <2>2 DEF Top, Clean
  <2> QED BY <1>1, <1>2, <1>3, <2>2, <2>3
<1> QED BY <1>4, <1>5, <1>6, <1>7, <1>8, <1>9 DEF drizzle_state_connect

(* drizzle_state_connect.                                                  *)
LEMMA ConnectSession ==
  ASSUME CallbackAccepts, StackInvariant, SessionInvariant, drizzle_state_connect
  PROVE  SessionInvariant'
<1> USE DEF SessionInvariant
<1>1. /\ Clean' /\ s2c' = <<>>
      /\ stack = <<"connect", "packet_read", "handshake_server_read">>
      /\ \/ server' = "none" /\ sock' # "connected"
         \/ server' = "greet" /\ sock' = "connected"
      /\ sock' = "pending" => Top({"connecting"})' /\ revents' = {}
      /\ \/ /\ stack' \in {<<"packet_read", "handshake_server_read">>, stack,
                           <<"connecting", "packet_read", "handshake_server_read">>}
            /\ pc' = "loop" \/ (pc' = "stop" /\ rc' = "COULD_NOT_CONNECT")
         \/ stack' = <<>> /\ pc' = "stop" /\ rc' = "COULD_NOT_CONNECT"
  BY ConnectEffect
<1>2. /\ \/ stack' \in ConnectStates \ {<<"connect">>, <<"connecting">>}
         \/ stack' = <<>> /\ Closing'
      /\ stack' # <<"handshake_server_read">>
  BY <1>1 DEF ConnectStates, Closing, Resumable
<1>3. CleanApart' /\ PendingAwaited' /\ StackTellsReady' /\ CodesMean'
  BY <1>1, <1>2, AttemptMoves
<1>4. buf' = <<>> /\ ready' = FALSE
  BY <1>1 DEF Clean
<1>5. Kinds(buf') = {} /\ Kinds(s2c') = {} /\ DOMAIN (buf') = {} /\ DOMAIN (s2c') = {}
  BY <1>1, <1>4, NoKinds
<1>6. RepliesFollow'
  BY <1>1, <1>2, <1>4, <1>5 DEF RepliesFollow
<1>7. GreetingFirst'
  BY <1>2, <1>5, ConnectClasses DEF GreetingFirst
<1> QED BY <1>3, <1>6, <1>7

(* drizzle_state_connecting: a pending connect() was not reported, so the  *)
(* socket that is gone on with or given up is none.                        *)
LEMMA ConnectingSession ==
  ASSUME StackInvariant, SessionInvariant, drizzle_state_connecting
  PROVE  SessionInvariant'
<1> USE DEF SessionInvariant
<1>1. /\ pc = "loop" /\ stack # <<>> /\ Head(stack) = "connecting"
      /\ stack = <<"connecting", "packet_read", "handshake_server_read">>
  BY Shapes DEF drizzle_state_connecting, Running, StackInvariant, WellFormedStack,
     StackTellsReady
<1>2. /\ Tail(stack) = <<"packet_read", "handshake_server_read">>
      /\ <<"connect">> \o Tail(stack) = <<"connect", "packet_read", "handshake_server_read">>
  <2>1. /\ "connect" \in Handlers /\ "packet_read" \in Handlers
        /\ "handshake_server_read" \in Handlers
    BY DEF Handlers
  <2>2. <<"connect">> \o <<"packet_read", "handshake_server_read">>
        = <<"connect", "packet_read", "handshake_server_read">>
    BY <2>1, Extensions
  <2>3. Tail(stack) = <<"packet_read", "handshake_server_read">>
    BY <1>1
  <2> QED BY <2>2, <2>3
<1>3. Clean /\ (sock # "connected" => server = "none" /\ s2c = <<>>)
  BY <1>1 DEF CleanApart, Top, Closing
<1>4. CASE WaitFor({"OUT"}, {}, Yield)
  <2>1. CASE revents' = {} /\ Yield /\ UNCHANGED <<stack, sock, s2c, c2s, server, conVars, buf>>
    <3>1. /\ UNCHANGED <<stack, sock, s2c, server, ready, packet_number, buf>>
          /\ pc' = "stop" /\ rc' = "IO_WAIT" /\ revents' = {}
      BY <2>1 DEF conVars, Yield, Return
    <3>2. CodesMean' /\ (Closing => Closing')
      BY <1>1, <3>1 DEF CodesMean, Closing
    <3> QED BY <3>1, <3>2, Unmoved
  <2>2. CASE \E code \in CallbackErrors : drizzle_close /\ Return(code)
    BY <2>2, ConfigAssumption, CloseStep DEF ConfigAssumption, Return
  <2> QED BY <1>4, <2>1, <2>2 DEF WaitFor
<1>5. CASE /\ UNCHANGED <<sock, s2c, server, ready, packet_number, buf>>
           /\ revents # {}
           /\ \/ stack' = Tail(stack) /\ pc' = "stop" /\ rc' = "INTERNAL_ERROR"
              \/ stack' = Tail(stack) /\ pc' = "loop"
              \/ stack' = <<"connect">> \o Tail(stack) /\ pc' = "loop"
  <2>1. /\ stack' \in ConnectStates \ {<<"connect">>, <<"connecting">>}
        /\ stack' # <<"handshake_server_read">>
        /\ stack \in ConnectStates /\ stack # <<"handshake_server_read">>
    BY <1>1, <1>2, <1>5 DEF ConnectStates
  <2>2. sock' # "pending" /\ Clean'
    BY <1>3, <1>5 DEF PendingAwaited, Clean
  <2>3. CleanApart' /\ PendingAwaited' /\ StackTellsReady' /\ CodesMean'
    BY <1>3, <1>5, <2>1, <2>2, AttemptMoves
  <2>4. RepliesFollow' /\ GreetingFirst'
    BY <1>5, <2>1, ConnectClasses, NothingSaid
  <2> QED BY <2>3, <2>4
<1>6. \/ WaitFor({"OUT"}, {}, Yield)
      \/ /\ UNCHANGED <<ioVars, conVars, buf>> /\ revents # {}
         /\ \/ Pop /\ Return("INTERNAL_ERROR")
            \/ Pop /\ Continue
            \/ TryNextAddress
  BY DEF drizzle_state_connecting
<1> QED BY <1>1, <1>4, <1>5, <1>6 DEF Pop, Return, Continue, TryNextAddress, Replace, ioVars,
           conVars

(* drizzle_wait inside a call.                                             *)
LEMMA DrizzleWaitSession ==
  ASSUME StackInvariant, SessionInvariant, drizzle_wait
  PROVE  SessionInvariant'
<1> USE DEF SessionInvariant
<1>1. pc = "wait" /\ stack # <<>> /\ ~ Closing
  BY DEF drizzle_wait, CodesMean, Closing
<1>2. CASE \E r \in Reported(events) : SetRevents(r, watch) /\ pc' = "loop"
  <2>1. PICK r \in Reported(events) : SetRevents(r, watch)
    BY <1>2
  <2>2. UNCHANGED <<stack, sock, s2c, server, ready, packet_number, buf>> /\ pc' = "loop"
    BY <1>2, <2>1 DEF SetRevents, conVars
  <2>3. sock # "pending"
    BY <2>1 DEF Reported
  <2>4. CodesMean' /\ (Closing => Closing')
    BY <1>1, <2>2 DEF CodesMean
  <2> QED BY <2>2, <2>3, <2>4, Unmoved
<1>3. CASE \E code \in {"NO_ACTIVE_CONNECTIONS", "TIMEOUT", "ERRNO"} : WaitFails(code)
  <2>1. /\ UNCHANGED <<stack, sock, s2c, server, ready, packet_number, buf, revents>>
        /\ rc' \in {"NO_ACTIVE_CONNECTIONS", "TIMEOUT", "ERRNO"}
        /\ \/ pc' = "leave" /\ Head(stack) = "connecting"
           \/ pc' = "stop"
    BY <1>3 DEF WaitFails, ioVars, conVars, pollVars
  <2>2. Head(stack) = "connecting" => Clean
    BY <1>1 DEF CleanApart, Top
  <2>3. CodesMean' /\ (Closing => Closing')
    BY <1>1, <2>1, <2>2 DEF CodesMean, Clean
  <2>4. sock = "pending" => revents' = {}
    BY <2>1 DEF PendingAwaited
  <2> QED BY <2>1, <2>3, <2>4, Unmoved
<1> QED BY <1>2, <1>3 DEF drizzle_wait

----------------------------------------------------------------------------
(* drizzle_state_loop, the API functions and the application.              *)

(* The end of drizzle_state_loop after a code other than OK.               *)
LEMMA StateLoopStopsSession ==
  ASSUME StackInvariant, SessionInvariant, StateLoopStops
  PROVE  SessionInvariant'
<1> USE DEF SessionInvariant
<1>1. pc = "stop" /\ pc' = "leave" /\ rc' = rc /\ rc # "OK"
  BY DEF StateLoopStops, StackInvariant, LoopOutcome
<1>2. CASE rc \in Resumable
  <2>1. UNCHANGED <<stack, sock, s2c, server, ready, packet_number, revents, buf>>
    BY <1>2 DEF StateLoopStops, Resumable, ioVars, conVars, pollVars
  <2>2. CodesMean'
    <3>1. rc = "PAUSE" => Clean
      BY <1>1 DEF CodesMean, CleanApart
    <3>2. rc = "IO_WAIT" => stack # <<>>
      BY <1>1 DEF CodesMean
    <3> QED BY <1>1, <1>2, <2>1, <3>1, <3>2 DEF CodesMean, Resumable, Clean
  <2>3. (Closing => Closing') /\ (sock = "pending" => revents' = {})
    BY <1>1, <1>2, <2>1 DEF Closing, PendingAwaited
  <2> QED BY <2>1, <2>2, <2>3, Unmoved
<1>3. CASE rc \notin Resumable
  <2>1. drizzle_close /\ rc # "IO_WAIT"
    BY <1>3 DEF StateLoopStops, Resumable
  <2> QED BY <1>1, <2>1, CloseStep
<1> QED BY <1>2, <1>3

(* Its end on an empty stack.                                              *)
LEMMA StateLoopEndsSession ==
  ASSUME SessionInvariant, StateLoopEnds
  PROVE  SessionInvariant'
<1>1. /\ stack = <<>> /\ pc = "loop" /\ pc' = "leave" /\ rc' = "OK"
      /\ UNCHANGED <<stack, sock, s2c, server, ready, packet_number, revents, buf>>
  BY DEF StateLoopEnds, ioVars, conVars, pollVars, dataVars
<1>2. CodesMean' /\ (Closing => Closing') /\ (sock = "pending" => revents' = {})
  BY <1>1 DEF SessionInvariant, CodesMean, Closing, PendingAwaited
<1> QED BY <1>1, <1>2, Unmoved

(* An API function returns to the application, with a code that leaves the *)
(* connection usable or after a failure that left nothing of it.           *)
LEMMA ReturnSession ==
  ASSUME SessionInvariant, pc \in {"app", "again", "leave"}, ApiOnly,
         NEW name, NEW code, NEW r, Finish(name, code, r),
         code \in {"OK", "ERROR_CODE", "NOT_READY", "IO_WAIT"} \/ Clean
  PROVE  SessionInvariant'
<1>1. /\ UNCHANGED <<stack, sock, s2c, server, ready, packet_number, revents, buf>>
      /\ rc' = code /\ pc' = IF code = "IO_WAIT" THEN "again" ELSE "app"
  BY DEF Finish, ApiOnly, ioVars, conVars, pollVars, dataVars
<1>2. CodesMean'
  BY <1>1 DEF CodesMean, Clean
<1>3. (Closing => Closing') /\ (sock = "pending" => revents' = {})
  BY <1>1 DEF SessionInvariant, Closing, PendingAwaited
<1> QED BY <1>1, <1>2, <1>3, Unmoved

(* What a function returns that returns what drizzle_state_loop did.       *)
LEMMA LeaveCodes ==
  ASSUME SessionInvariant, pc = "leave"
  PROVE  /\ rc \in {"OK", "ERROR_CODE", "NOT_READY", "IO_WAIT"} \/ Clean
         /\ rc = "OK" => ready
BY DEF SessionInvariant, CodesMean

(* An API function runs drizzle_state_loop, or waits, with the states that *)
(* are on the stack.                                                       *)
LEMMA ResumeSession ==
  ASSUME SessionInvariant, pc \in {"app", "again", "leave"}, ApiOnly,
         stack' = stack, stack # <<>>, pc' \in {"loop", "wait"}
  PROVE  SessionInvariant'
<1>1. UNCHANGED <<stack, sock, s2c, server, ready, packet_number, revents, buf>>
  BY DEF ApiOnly, ioVars, conVars, pollVars, dataVars
<1>2. CodesMean' /\ (Closing => Closing') /\ (sock = "pending" => revents' = {})
  BY <1>1 DEF SessionInvariant, CodesMean, Closing, PendingAwaited
<1> QED BY <1>1, <1>2, Unmoved

(* An API function pushes the states of an operation: those of connecting  *)
(* only when there is no connection.                                       *)
LEMMA PushSession ==
  ASSUME SessionInvariant, pc \in {"app", "again", "leave"}, ApiOnly,
         stack = <<>>, pc' = "loop",
         \/ /\ stack' = <<"addrinfo", "connect", "packet_read", "handshake_server_read">>
            /\ ~ ready
         \/ stack' = <<"command_write">> /\ ready
         \/ stack' \in {<<"packet_read", "column_read">>, <<"packet_read", "row_read">>,
                        <<"field_read">>}
  PROVE  SessionInvariant'
<1> USE DEF SessionInvariant
<1>1. UNCHANGED <<sock, s2c, server, ready, packet_number, revents, buf>>
  BY DEF ApiOnly, ioVars, conVars, pollVars, dataVars
<1>2. sock # "pending" /\ (sock = "connected" => ready)
  BY ConnectClasses DEF PendingAwaited, Top, StackTellsReady, Closing
<1>3. /\ sock # "connected" => Clean /\ server = "none" /\ s2c = <<>>
      /\ sock = "connected" => ready
  BY <1>2 DEF CleanApart
<1>4. CASE /\ stack' = <<"addrinfo", "connect", "packet_read", "handshake_server_read">>
           /\ ~ ready
  <2>1. /\ stack' \in ConnectStates \ {<<"connect">>, <<"connecting">>}
        /\ stack' # <<"handshake_server_read">>
    BY <1>4 DEF ConnectStates
  <2>2. Clean /\ server = "none" /\ s2c = <<>> /\ buf = <<>>
    BY <1>3, <1>4 DEF Clean
  <2>3. CleanApart' /\ PendingAwaited' /\ StackTellsReady' /\ CodesMean'
    BY <1>1, <1>2, <2>1, <2>2, AttemptMoves DEF Clean
  <2>4. RepliesFollow' /\ GreetingFirst'
    BY <1>1, <2>1, <2>2, ConnectClasses, NothingSaid
  <2> QED BY <2>3, <2>4
<1>5. CASE \/ stack' = <<"command_write">> /\ ready
           \/ stack' \in {<<"packet_read", "column_read">>, <<"packet_read", "row_read">>,
                          <<"field_read">>}
  <2>1. /\ stack' \notin ConnectStates \cup HandshakeStates
        /\ stack' \notin {<<"connect">>, <<"connecting">>}
        /\ stack' # <<"handshake_server_read">>
        /\ stack' # <<>> /\ Head(stack') \notin {"addrinfo", "connect", "connecting"}
    BY <1>5 DEF ConnectStates, HandshakeStates, ReaderStates
  <2>2. stack' \in CommandStates => ready
    BY <1>5 DEF CommandStates, ReaderStates
  <2>3. CleanApart' /\ PendingAwaited'
    BY <1>1, <1>2, <1>3, <2>1 DEF CleanApart, PendingAwaited, Top, Clean
  <2>4. StackTellsReady' /\ CodesMean'
    BY <1>1, <1>2, <2>1, <2>2 DEF StackTellsReady, CodesMean
  <2>5. stack' \notin ReaderStates("handshake_result_read")
    BY <2>1 DEF HandshakeStates
  <2>6. RepliesFollow' /\ GreetingFirst'
    BY <1>1, <2>1, <2>5, NothingSaid
  <2> QED BY <2>3, <2>4, <2>6
<1> QED BY <1>4, <1>5

(* drizzle_connect and its callers take up what is on the stack, or push   *)
(* the states of an attempt.                                               *)
LEMMA EnterConnectSession ==
  ASSUME SessionInvariant, pc \in {"app", "again", "leave"}, ApiOnly, ~ ready,
         EnterConnect, pc' = "loop"
  PROVE  SessionInvariant'
<1>1. CASE stack = <<>>
  <2>1. stack' = <<"addrinfo", "connect", "packet_read", "handshake_server_read">> \o <<>>
    BY <1>1 DEF EnterConnect, Push
  <2>2. stack' = <<"addrinfo", "connect", "packet_read", "handshake_server_read">>
    BY <2>1, OnEmpty DEF Handlers
  <2> QED BY <1>1, <2>2, PushSession
<1>2. CASE stack # <<>>
  BY <1>2, ResumeSession DEF EnterConnect
<1> QED BY <1>1, <1>2

(* drizzle_command_write, likewise, on a connection that is ready.         *)
LEMMA EnterCommandSession ==
  ASSUME SessionInvariant, pc \in {"app", "again", "leave"}, ApiOnly, ready,
         NEW name, EnterCommand(name), pc' = "loop"
  PROVE  SessionInvariant'
<1>1. CASE stack = <<>>
  <2>1. stack' = <<"command_write">> \o <<>>
    BY <1>1 DEF EnterCommand, Push
  <2>2. stack' = <<"command_write">>
    BY <2>1, OnEmpty DEF Handlers
  <2> QED BY <1>1, <2>2, PushSession
<1>2. CASE stack # <<>>
  BY <1>2, ResumeSession DEF EnterCommand
<1> QED BY <1>1, <1>2

(* The readers of a reply, likewise.                                       *)
LEMMA EnterReaderSession ==
  ASSUME SessionInvariant, pc \in {"app", "again", "leave"}, ApiOnly,
         NEW h \in {"column_read", "row_read"}, NEW r, EnterReader(h, r), pc' = "loop"
  PROVE  SessionInvariant'
<1>1. CASE stack = <<>>
  <2>1. stack' = <<"packet_read", h>> \o <<>>
    BY <1>1 DEF EnterReader, Push
  <2>2. stack' = <<"packet_read", h>>
    BY <2>1, OnEmpty DEF Handlers
  <2> QED BY <1>1, <2>2, PushSession
<1>2. CASE stack # <<>>
  BY <1>2, ResumeSession DEF EnterReader
<1> QED BY <1>1, <1>2

(* The API functions after drizzle_state_loop.                             *)
LEMMA ReturnsSession ==
  ASSUME StackInvariant, SessionInvariant,
         \/ ConnectReturns \/ CommandReturns \/ QuitReturns
         \/ ColumnsReturn \/ SkipReturns \/ RowReturns
  PROVE  SessionInvariant'
<1>1. /\ pc = "leave" /\ (rc = "OK" => ready)
      /\ rc \in {"OK", "ERROR_CODE", "NOT_READY", "IO_WAIT"} \/ Clean
      /\ rc = "IO_WAIT" => stack # <<>>
  BY LeaveCodes DEF ConnectReturns, CommandReturns, QuitReturns, ColumnsReturn, SkipReturns,
     RowReturns, SessionInvariant, CodesMean
<1>2. CASE ConnectReturns
  <2>1. CASE rc = "IO_WAIT" /\ pc' = "wait" /\ UNCHANGED stack /\ ApiOnly
    BY <1>1, <2>1, ResumeSession
  <2>2. CASE rc = "OK" /\ pc' = "loop" /\ EnterCommand(op) /\ ApiOnly
    BY <1>1, <2>2, EnterCommandSession
  <2>3. CASE Finish(op, rc, result) /\ ApiOnly
    BY <1>1, <2>3, ReturnSession
  <2> QED BY <1>2, <2>1, <2>2, <2>3 DEF ConnectReturns
<1>3. CASE CommandReturns
  <2> DEFINE code == IF rc = "PAUSE" THEN "OK" ELSE rc
             left == IF code \in {"OK", "IO_WAIT", "ERROR_CODE"} THEN result ELSE EmptyResult
             r == IF op = "init_db" THEN Free(left) ELSE left
  <2>1. Finish(op, code, r) /\ ApiOnly
    BY <1>3 DEF CommandReturns
  <2>2. code \in {"OK", "ERROR_CODE", "NOT_READY", "IO_WAIT"} \/ Clean
    BY <1>1
  <2> HIDE DEF code, r
  <2> QED BY <1>1, <2>1, <2>2, ReturnSession
<1>4. CASE QuitReturns
  BY <1>4, CloseStep DEF QuitReturns
<1>5. CASE ColumnsReturn
  <2>1. CASE EnterColumn /\ Start(op) /\ ApiOnly
    BY <1>1, <2>1, EnterReaderSession DEF EnterColumn, Start
  <2>2. CASE /\ ApiOnly
             /\ Finish(op, rc, IF rc = "OK"
                               THEN [result EXCEPT !.column_current = 0, !.buffered = TRUE]
                               ELSE result)
    BY <1>1, <2>2, ReturnSession
  <2> QED BY <1>5, <2>1, <2>2 DEF ColumnsReturn
<1>6. CASE SkipReturns
  <2>1. CASE EnterSkip /\ Start(op) /\ ApiOnly
    BY <1>1, <2>1, EnterReaderSession DEF EnterSkip, Start
  <2>2. CASE Finish(op, rc, [result EXCEPT !.skip = FALSE]) /\ ApiOnly
    BY <1>1, <2>2, ReturnSession
  <2> QED BY <1>6, <2>1, <2>2 DEF SkipReturns
<1>7. CASE RowReturns
  <2>1. CASE rc = "OK" /\ Push(<<"field_read">>) /\ Start("fields") /\ ApiOnly
    <3>1. stack = <<>>
      BY <1>1, <2>1 DEF StackInvariant, LoopOutcome
    <3>2. stack' = <<"field_read">> /\ pc' = "loop"
      BY <2>1, <3>1, OnEmpty DEF Push, Start, Handlers
    <3> QED BY <1>1, <2>1, <3>1, <3>2, PushSession
  <2>2. CASE Finish("row", rc, result) /\ ApiOnly
    BY <1>1, <2>2, ReturnSession
  <2> QED BY <1>7, <2>1, <2>2 DEF RowReturns
<1> QED BY <1>2, <1>3, <1>4, <1>5, <1>6, <1>7

(* The calls of the application.                                           *)
LEMMA CallSession ==
  ASSUME SessionInvariant, Call
  PROVE  SessionInvariant'
<1>1. CASE CallConnect
  <2>1. pc \in {"app", "again"} /\ ApiOnly
    BY <1>1 DEF CallConnect, May, AppRuns
  <2>2. CASE Finish("connect", "OK", result)
    BY <2>1, <2>2, ReturnSession
  <2>3. CASE ~ ready /\ EnterConnect /\ Start("connect")
    BY <2>1, <2>3, EnterConnectSession DEF Start
  <2> QED BY <1>1, <2>2, <2>3 DEF CallConnect
<1>2. ASSUME NEW name \in Commands, CallCommand(name)
      PROVE  SessionInvariant'
  <2>1. /\ pc \in {"app", "again"} /\ ApiOnly /\ pc' = "loop"
        /\ \/ ready /\ EnterCommand(name)
           \/ ~ ready /\ EnterConnect
    BY <1>2 DEF CallCommand, May, AppRuns, Start
  <2> QED BY <2>1, EnterCommandSession, EnterConnectSession
<1>3. CASE CallColumns
  <2>1. pc \in {"app", "again"} /\ ApiOnly
    BY <1>3 DEF CallColumns, May, AppRuns
  <2>2. CASE Finish("columns", "OK", [result EXCEPT !.buffered = TRUE])
    BY <2>1, <2>2, ReturnSession
  <2>3. CASE EnterColumn /\ Start("columns")
    BY <2>1, <2>3, EnterReaderSession DEF EnterColumn, Start
  <2> QED BY <1>3, <2>2, <2>3 DEF CallColumns
<1>4. CASE CallSkip
  <2>1. pc \in {"app", "again"} /\ ApiOnly
    BY <1>4 DEF CallSkip, May, AppRuns
  <2>2. CASE Finish("skip", "OK", result)
    BY <2>1, <2>2, ReturnSession
  <2>3. CASE EnterSkip /\ Start("skip")
    BY <2>1, <2>3, EnterReaderSession DEF EnterSkip, Start
  <2> QED BY <1>4, <2>2, <2>3 DEF CallSkip
<1>5. CASE CallRow
  <2>1. pc \in {"app", "again"} /\ ApiOnly
    BY <1>5 DEF CallRow, May, AppRuns
  <2>2. CASE Finish("row", "NOT_READY", result)
    BY <2>1, <2>2, ReturnSession
  <2>3. CASE EnterRow /\ Start("row")
    BY <2>1, <2>3, EnterReaderSession DEF EnterRow, Start
  <2> QED BY <1>5, <2>2, <2>3 DEF CallRow
<1> QED BY <1>1, <1>2, <1>3, <1>4, <1>5 DEF Call

(* drizzle_result_free and drizzle_close.                                  *)
LEMMA FreeSession ==
  ASSUME SessionInvariant, CallResultFree \/ CallClose
  PROVE  SessionInvariant'
<1>1. CASE CallResultFree
  <2>1. UNCHANGED <<stack, sock, s2c, server, ready, packet_number, revents, buf, pc, rc>>
    BY <1>1 DEF CallResultFree, ApiOnly, ioVars, conVars, pollVars, dataVars
  <2>2. CodesMean' /\ (Closing => Closing') /\ (sock = "pending" => revents' = {})
    BY <2>1 DEF SessionInvariant, CodesMean, Closing, PendingAwaited, Clean
  <2> QED BY <2>1, <2>2, Unmoved
<1>2. CASE CallClose
  BY <1>2, CloseStep DEF CallClose
<1> QED BY <1>1, <1>2

(* drizzle_wait and the event loop between two calls: poll() has nothing   *)
(* to say of a connect() that is pending.                                  *)
LEMMA LoopSession ==
  ASSUME SessionInvariant, LoopNext
  PROVE  SessionInvariant'
<1>1. /\ pc \in {"app", "again"} /\ UNCHANGED <<pc, rc>>
      /\ \/ sock # "pending" /\ \E r, w : SetRevents(r, w)
         \/ drizzle_close
  <2>1. CASE AppWait
    BY <2>1 DEF AppWait, AroundCalls, Reported
  <2>2. CASE AppEventLoop
    BY <2>2 DEF AppEventLoop, AppRuns, AroundCalls, Reported
  <2>3. CASE AppLoopStale
    BY <2>3 DEF AppLoopStale, AppRuns, AroundCalls
  <2> QED BY <2>1, <2>2, <2>3 DEF LoopNext
<1>2. CASE drizzle_close
  <2>1. pc = "app" => rc # "IO_WAIT"
    BY DEF SessionInvariant, CodesMean
  <2> QED BY <1>1, <1>2, <2>1, CloseStep
<1>3. ASSUME sock # "pending", NEW r, NEW w, SetRevents(r, w)
      PROVE  SessionInvariant'
  <2>1. UNCHANGED <<stack, sock, s2c, server, ready, packet_number, buf>>
    BY <1>3 DEF SetRevents, conVars
  <2>2. CodesMean' /\ (Closing => Closing')
    BY <1>1, <2>1 DEF SessionInvariant, CodesMean, Closing, Clean
  <2> QED BY <1>3, <2>1, <2>2, Unmoved
<1> QED BY <1>1, <1>2, <1>3

----------------------------------------------------------------------------
(* The peer.                                                               *)

(* The units of a list of packets are about these packets.                 *)
LEMMA StreamKinds ==
  ASSUME NEW kinds \in Seq(ServerKinds), NEW seq \in Nat, NEW k \in Nat,
         NEW columns \in Nat
  PROVE  /\ Kinds(Stream(kinds, seq, k, columns)) \subseteq {kinds[p] : p \in 1..Len(kinds)}
         /\ DOMAIN Stream(kinds, seq, k, columns) = 1..(2 * Len(kinds))
<1>1. Len(kinds) \in Nat /\ DOMAIN Stream(kinds, seq, k, columns) = 1..(2 * Len(kinds))
  BY DEF Stream
<1>2. ASSUME NEW j \in 1..(2 * Len(kinds))
      PROVE  \E p \in 1..Len(kinds) : Stream(kinds, seq, k, columns)[j].kind = kinds[p]
  <2> DEFINE p == (j + 1) \div 2
  <2>1. p \in 1..Len(kinds)
    BY <1>1
  <2>2. Stream(kinds, seq, k, columns)[j] =
          Unit(IF j % 2 = 1 THEN "head" ELSE "body", kinds[p],
               (seq + p - 1) % PacketMod, k,
               IF kinds[p] = "count" THEN columns ELSE 0)
    BY DEF Stream
  <2> HIDE DEF p
  <2>3. Stream(kinds, seq, k, columns)[j].kind = kinds[p]
    BY <2>2 DEF Unit
  <2> QED BY <2>1, <2>3
<1> QED BY <1>1, <1>2 DEF Kinds

(* What a step of the server leaves alone.                                 *)
LEMMA LibraryRests ==
  ASSUME SessionInvariant, Library, sock = "connected", sock' = sock, server' # "none"
  PROVE  /\ CleanApart' /\ PendingAwaited' /\ StackTellsReady' /\ CodesMean'
         /\ UNCHANGED <<stack, ready, buf>>
<1> USE DEF SessionInvariant
<1>1. UNCHANGED <<stack, ready, packet_number, buf, revents, pc, rc>>
  BY DEF Library, conVars, pollVars, dataVars
<1>2. CleanApart' /\ PendingAwaited'
  BY <1>1 DEF CleanApart, PendingAwaited, Clean, Top, Closing
<1>3. StackTellsReady' /\ CodesMean'
  BY <1>1 DEF StackTellsReady, CodesMean, Closing, Clean
<1> QED BY <1>1, <1>2, <1>3

(* A server that is past its greeting says something, or nothing at all.   *)
LEMMA SaidSession ==
  ASSUME StackInvariant, SessionInvariant, UNCHANGED <<stack, ready, buf>>,
         NEW t \in Seq(Units), s2c' = s2c \/ s2c' = s2c \o t,
         Kinds(t) \subseteq ServerKinds, Kinds(t) \cap Greetings = {},
         Kinds(t) \cap Replies # {} => server' \in {"idle", "closed"},
         server' # "greet",
         server \in {"idle", "closed"} => server' \in {"idle", "closed"}
  PROVE  RepliesFollow' /\ GreetingFirst'
<1> USE DEF SessionInvariant
<1>1. s2c \in Seq(Units) /\ buf \in Seq(Units)
  BY DEF StackInvariant, TypeOK, ConnectionTypeOK, PeerTypeOK
<1>2. Kinds(s2c') \subseteq Kinds(s2c) \cup Kinds(t)
  BY <1>1, ConcatKinds
<1>3. \A i \in DOMAIN s2c' :
        \/ i \in DOMAIN s2c /\ s2c'[i] = s2c[i]
        \/ s2c'[i].kind \notin Greetings
  <2>1. \A i \in DOMAIN t : t[i].kind \in Kinds(t)
    BY DEF Kinds
  <2>2. CASE s2c' = s2c
    BY <2>2
  <2>3. CASE s2c' = s2c \o t
    <3>1. \A i \in DOMAIN (s2c \o t) :
            \/ i \in DOMAIN s2c /\ (s2c \o t)[i] = s2c[i]
            \/ i - Len(s2c) \in DOMAIN t /\ (s2c \o t)[i] = t[i - Len(s2c)]
      BY <1>1, ConcatKinds
    <3> QED BY <2>1, <2>3, <3>1
  <2> QED BY <2>2, <2>3
<1>4. RepliesFollow'
  BY <1>2 DEF RepliesFollow
<1>5. GreetingFirst'
  <2>1. stack' \in ConnectStates =>
          /\ \A i \in DOMAIN buf' : buf'[i].kind \in Greetings => i <= GreetingLength'
          /\ \A i \in DOMAIN s2c' :
               s2c'[i].kind \in Greetings => Len(buf') + i <= GreetingLength'
    BY <1>3 DEF GreetingFirst, GreetingLength
  <2>2. stack' \in HandshakeStates =>
          server' # "greet" /\ (Kinds(buf') \cup Kinds(s2c')) \cap Greetings = {}
    BY <1>2 DEF GreetingFirst
  <2>3. stack' \in ReaderStates("handshake_result_read") => Kinds(buf') \subseteq ServerKinds
    BY DEF GreetingFirst
  <2> QED BY <2>1, <2>2, <2>3 DEF GreetingFirst
<1> QED BY <1>4, <1>5

(* One packet more.                                                        *)
LEMMA OneKind ==
  ASSUME NEW kind \in ServerKinds, NEW seq \in Nat, NEW k \in Nat
  PROVE  /\ Stream(<<kind>>, seq, k, 0) \in Seq(Units)
         /\ Kinds(Stream(<<kind>>, seq, k, 0)) \subseteq {kind}
         /\ DOMAIN Stream(<<kind>>, seq, k, 0) = 1..2
<1>1. <<kind>> \in Seq(ServerKinds) /\ Len(<<kind>>) = 1 /\ <<kind>>[1] = kind
  OBVIOUS
<1>2. {<<kind>>[p] : p \in 1..Len(<<kind>>)} \subseteq {kind}
  BY <1>1
<1>3. 2 * Len(<<kind>>) = 2
  BY <1>1
<1> QED BY <1>1, <1>2, <1>3, StreamTyped, StreamKinds

(* A result set holds no greeting.                                         *)
LEMMA ResultSetKinds ==
  ASSUME NEW c \in Nat, NEW r \in Nat, NEW last \in {"eof", "err"},
         NEW k \in Nat
  PROVE  /\ Stream(ResultSet(c, r, last), 1, k, c) \in Seq(Units)
         /\ Kinds(Stream(ResultSet(c, r, last), 1, k, c))
              \subseteq {"count", "column", "row", "eof", "err"}
<1>1. ResultSet(c, r, last) \in Seq(ServerKinds)
  BY ResultSetTyped
<1>2. /\ Stream(ResultSet(c, r, last), 1, k, c) \in Seq(Units)
      /\ Kinds(Stream(ResultSet(c, r, last), 1, k, c))
           \subseteq {ResultSet(c, r, last)[p] : p \in 1..Len(ResultSet(c, r, last))}
  BY <1>1, StreamTyped, StreamKinds
<1>3. Len(ResultSet(c, r, last)) = c + r + 3
  <2>1. c + r + 3 \in Nat /\ DOMAIN ResultSet(c, r, last) = 1..(c + r + 3)
    BY DEF ResultSet
  <2> QED BY <1>1, <2>1, LenProperties
<1>4. \A p \in 1..(c + r + 3) :
        ResultSet(c, r, last)[p] \in {"count", "column", "row", "eof", "err"}
  BY DEF ResultSet
<1> QED BY <1>2, <1>3, <1>4

(* The kernel finishes a connect() that drizzle_state_connecting awaits.   *)
LEMMA KernelEffect ==
  ASSUME StackInvariant, SessionInvariant, KernelConnects
  PROVE  /\ UNCHANGED <<stack, ready, packet_number, buf, s2c, revents, pc, rc>>
         /\ stack = <<"connecting", "packet_read", "handshake_server_read">>
         /\ Clean /\ s2c = <<>> /\ sock = "pending" /\ sock' # "pending"
         /\ \/ sock' = "connected" /\ server' = "greet"
            \/ sock' = "failed" /\ server' = "none"
<1> USE DEF SessionInvariant
<1>1. sock = "pending" /\ Library /\ s2c' = s2c
  BY DEF KernelConnects
<1>2. UNCHANGED <<stack, ready, packet_number, buf, revents, pc, rc>>
  BY <1>1 DEF Library, conVars, pollVars, dataVars
<1>3. Clean /\ server = "none" /\ s2c = <<>> /\ Top({"connecting"})
  BY <1>1 DEF CleanApart, PendingAwaited, Top
<1>4. stack = <<"connecting", "packet_read", "handshake_server_read">>
  <2>1. stack # <<>> /\ Head(stack) = "connecting"
    BY <1>3 DEF Top
  <2>2. \A s \in RefusedStates : Head(s) = "connect"
    BY DEF RefusedStates
  <2>3. stack \in StackStates
    BY <2>1, <2>2 DEF StackInvariant, WellFormedStack
  <2> QED BY <2>1, <2>3, Shapes DEF StackTellsReady
<1> QED BY <1>1, <1>2, <1>3, <1>4 DEF KernelConnects

(* The conversation it opens is empty on both sides.                       *)
LEMMA KernelSession ==
  ASSUME StackInvariant, SessionInvariant, KernelConnects
  PROVE  SessionInvariant'
<1> USE DEF SessionInvariant
<1>1. /\ UNCHANGED <<stack, ready, packet_number, buf, s2c, revents, pc, rc>>
      /\ stack = <<"connecting", "packet_read", "handshake_server_read">>
      /\ Clean /\ s2c = <<>> /\ sock = "pending" /\ sock' # "pending"
      /\ \/ sock' = "connected" /\ server' = "greet"
         \/ sock' = "failed" /\ server' = "none"
  BY KernelEffect
<1>2. stack \in ConnectStates /\ stack # <<"handshake_server_read">>
  BY <1>1 DEF ConnectStates
<1>3. stack \notin HandshakeStates \cup CommandStates
      /\ stack \notin ReaderStates("handshake_result_read") /\ stack # <<>>
  BY <1>2, ConnectClasses
<1>4. Clean' /\ ready' = FALSE /\ buf' = <<>>
  BY <1>1 DEF Clean
<1>5. CleanApart' /\ PendingAwaited'
  BY <1>1, <1>3, <1>4 DEF CleanApart, PendingAwaited
<1>6. StackTellsReady'
  BY <1>1, <1>2, <1>3, <1>4 DEF StackTellsReady
<1>7. CodesMean'
  BY <1>1, <1>3, <1>4 DEF CodesMean
<1>8. Kinds(buf') = {} /\ Kinds(s2c') = {} /\ DOMAIN (buf') = {} /\ DOMAIN (s2c') = {}
  BY <1>1, <1>4, NoKinds
<1>9. RepliesFollow' /\ GreetingFirst'
  BY <1>1, <1>2, <1>3, <1>4, <1>8 DEF RepliesFollow, GreetingFirst
<1> QED BY <1>5, <1>6, <1>7, <1>9

(* The server greets: two units, in front of which there are none.         *)
LEMMA ServerGreetsSession ==
  ASSUME StackInvariant, SessionInvariant, ServerGreets
  PROVE  SessionInvariant'
<1> USE DEF SessionInvariant
<1>1. server = "greet" /\ Library /\ sock' = sock /\ sock = "connected"
  BY DEF ServerGreets, CleanApart
<1>2. server' \in {"auth", "refused"}
  BY DEF ServerGreets
<1>3. PICK kind \in {"greeting", "err", "refusal"} :
        s2c' = s2c \o Stream(<<kind>>, 0, 0, 0)
  BY DEF ServerGreets, Say
<1> DEFINE t == Stream(<<kind>>, 0, 0, 0)
<1>4. t \in Seq(Units) /\ Kinds(t) \subseteq {kind} /\ DOMAIN t = 1..2
  BY OneKind DEF ServerKinds
<1>5. /\ CleanApart' /\ PendingAwaited' /\ StackTellsReady' /\ CodesMean'
      /\ UNCHANGED <<stack, ready, buf>>
  BY <1>1, <1>2, LibraryRests
<1>6. /\ buf = <<>> /\ s2c = <<>> /\ stack # <<"handshake_server_read">>
      /\ ~ ready /\ stack \notin HandshakeStates
  BY <1>1 DEF RepliesFollow, GreetingFirst, StackInvariant, TypeOK, ConnectionTypeOK
<1> HIDE DEF t
<1>7. s2c' = t
  BY <1>3, <1>4, <1>6, ConcatProperties DEF t
<1>8. Kinds(buf') = {} /\ DOMAIN (buf') = {} /\ Len(buf') = 0 /\ ready' = FALSE
  BY <1>5, <1>6, NoKinds DEF StackInvariant, TypeOK, ConnectionTypeOK
<1>9. Kinds(s2c') \subseteq ServerKinds /\ Kinds(s2c') \cap Replies = {}
  BY <1>4, <1>7 DEF ServerKinds, Replies
<1>10. RepliesFollow'
  BY <1>2, <1>8, <1>9 DEF RepliesFollow
<1>11. GreetingFirst'
  <2>1. GreetingLength' = 2 /\ \A i \in DOMAIN s2c' : i <= 2 /\ Len(buf') + i = i
    BY <1>4, <1>5, <1>6, <1>7, <1>8 DEF GreetingLength
  <2>2. stack' \notin HandshakeStates /\ stack' \notin ReaderStates("handshake_result_read")
    BY <1>5, <1>6 DEF HandshakeStates
  <2> QED BY <1>8, <2>1, <2>2 DEF GreetingFirst
<1> QED BY <1>5, <1>10, <1>11

(* The server takes the client's answer.                                   *)
LEMMA ServerAuthenticatesSession ==
  ASSUME StackInvariant, SessionInvariant, ServerAuthenticates
  PROVE  SessionInvariant'
<1> USE DEF SessionInvariant
<1>1. /\ server = "auth" /\ Library /\ sock' = sock /\ sock = "connected"
      /\ server' \in {"idle", "refused"}
  BY DEF ServerAuthenticates, CleanApart
<1>2. (Head(c2s).seq + 1) % PacketMod \in Nat
  <2>1. c2s \in Seq(Units) /\ c2s # <<>>
    BY DEF ServerAuthenticates, StackInvariant, TypeOK, PeerTypeOK
  <2>2. Head(c2s) \in Units
    BY <2>1, HeadTailProperties
  <2> QED BY <2>2, ConfigAssumption DEF Units, ConfigAssumption
<1> DEFINE seq == (Head(c2s).seq + 1) % PacketMod
<1>3. \/ s2c' = s2c
      \/ s2c' = s2c \o Stream(<<"ok">>, seq, 0, 0) /\ server' = "idle"
      \/ \E kind \in {"err", "eof"} : s2c' = s2c \o Stream(<<kind>>, seq, 0, 0)
  BY DEF ServerAuthenticates, Say
<1> HIDE DEF seq
<1>4. /\ CleanApart' /\ PendingAwaited' /\ StackTellsReady' /\ CodesMean'
      /\ UNCHANGED <<stack, ready, buf>>
  BY <1>1, LibraryRests
<1>5. \E t \in Seq(Units) :
        /\ s2c' = s2c \/ s2c' = s2c \o t
        /\ Kinds(t) \subseteq {"ok", "err", "eof"}
        /\ "ok" \in Kinds(t) => server' = "idle"
  <2>1. CASE s2c' = s2c
    BY <2>1, NoKinds, <<>> \in Seq(Units)
  <2>2. ASSUME NEW kind \in {"ok", "err", "eof"},
               s2c' = s2c \o Stream(<<kind>>, seq, 0, 0), kind = "ok" => server' = "idle"
        PROVE  \E t \in Seq(Units) :
                 /\ s2c' = s2c \o t
                 /\ Kinds(t) \subseteq {"ok", "err", "eof"}
                 /\ "ok" \in Kinds(t) => server' = "idle"
    <3>1. /\ Stream(<<kind>>, seq, 0, 0) \in Seq(Units)
          /\ Kinds(Stream(<<kind>>, seq, 0, 0)) \subseteq {kind}
      BY <1>2, OneKind DEF ServerKinds, seq
    <3> QED BY <2>2, <3>1
  <2> QED BY <1>3, <2>1, <2>2
<1>6. RepliesFollow' /\ GreetingFirst'
  BY <1>1, <1>4, <1>5, SaidSession DEF ServerKinds, Greetings, Replies
<1> QED BY <1>4, <1>6

(* The server answers a command.                                           *)
LEMMA ServerAnswersSession ==
  ASSUME StackInvariant, SessionInvariant, ServerAnswers
  PROVE  SessionInvariant'
<1> USE DEF SessionInvariant
<1>1. /\ server = "idle" /\ Library /\ sock' = sock /\ sock = "connected"
      /\ server' \in {"idle", "closed"}
  BY DEF ServerAnswers, CleanApart
<1>2. Head(c2s).k \in Nat
  <2>1. c2s \in Seq(Units) /\ c2s # <<>>
    BY DEF ServerAnswers, StackInvariant, TypeOK, PeerTypeOK
  <2>2. Head(c2s) \in Units
    BY <2>1, HeadTailProperties
  <2> QED BY <2>2 DEF Units
<1> DEFINE k == Head(c2s).k
<1>3. \/ s2c' = s2c
      \/ \E kind \in {"ok", "err"} : s2c' = s2c \o Stream(<<kind>>, 1, k, 0)
      \/ \E c \in 1..MaxColumns, r \in 0..MaxRows, last \in {"eof", "err"} :
           s2c' = s2c \o Stream(ResultSet(c, r, last), 1, k, c)
  BY DEF ServerAnswers, Say
<1>4. k \in Nat
  BY <1>2
<1> HIDE DEF k
<1>5. /\ CleanApart' /\ PendingAwaited' /\ StackTellsReady' /\ CodesMean'
      /\ UNCHANGED <<stack, ready, buf>>
  BY <1>1, LibraryRests
<1>6. \E t \in Seq(Units) :
        /\ s2c' = s2c \/ s2c' = s2c \o t
        /\ Kinds(t) \subseteq {"ok", "count", "column", "row", "eof", "err"}
  <2>1. CASE s2c' = s2c
    BY <2>1, NoKinds, <<>> \in Seq(Units)
  <2>2. ASSUME NEW kind \in {"ok", "err"}, s2c' = s2c \o Stream(<<kind>>, 1, k, 0)
        PROVE  \E t \in Seq(Units) :
                 /\ s2c' = s2c \o t
                 /\ Kinds(t) \subseteq {"ok", "count", "column", "row", "eof", "err"}
    <3>1. /\ Stream(<<kind>>, 1, k, 0) \in Seq(Units)
          /\ Kinds(Stream(<<kind>>, 1, k, 0)) \subseteq {kind}
      BY <1>4, OneKind DEF ServerKinds
    <3> QED BY <2>2, <3>1
  <2>3. ASSUME NEW c \in 1..MaxColumns, NEW r \in 0..MaxRows, NEW last \in {"eof", "err"},
               s2c' = s2c \o Stream(ResultSet(c, r, last), 1, k, c)
        PROVE  \E t \in Seq(Units) :
                 /\ s2c' = s2c \o t
                 /\ Kinds(t) \subseteq {"ok", "count", "column", "row", "eof", "err"}
    <3>1. c \in Nat /\ r \in Nat
      BY ProtocolAssumption DEF ProtocolAssumption
    <3>2. /\ Stream(ResultSet(c, r, last), 1, k, c) \in Seq(Units)
          /\ Kinds(Stream(ResultSet(c, r, last), 1, k, c))
               \subseteq {"count", "column", "row", "eof", "err"}
      BY <1>4, <3>1, ResultSetKinds
    <3> QED BY <2>3, <3>2
  <2> QED BY <1>3, <2>1, <2>2, <2>3
<1>7. RepliesFollow' /\ GreetingFirst'
  BY <1>1, <1>5, <1>6, SaidSession DEF ServerKinds, Greetings
<1> QED BY <1>5, <1>7

(* The server hangs up.                                                    *)
LEMMA ServerFailsSession ==
  ASSUME StackInvariant, SessionInvariant, ServerFails
  PROVE  SessionInvariant'
<1> USE DEF SessionInvariant
<1>1. /\ server \in {"greet", "auth", "idle"} /\ Library /\ sock' = sock /\ sock = "connected"
      /\ server' \in {"closed", "refused"} /\ (server = "idle" => server' = "closed")
      /\ s2c' = s2c \/ s2c' = s2c \o Stream(<<"err">>, 0, 0, 0)
  BY DEF ServerFails, CleanApart, Say
<1>2. /\ CleanApart' /\ PendingAwaited' /\ StackTellsReady' /\ CodesMean'
      /\ UNCHANGED <<stack, ready, buf>>
  BY <1>1, LibraryRests
<1>3. /\ Stream(<<"err">>, 0, 0, 0) \in Seq(Units)
      /\ Kinds(Stream(<<"err">>, 0, 0, 0)) \subseteq {"err"}
  BY OneKind DEF ServerKinds
<1>4. RepliesFollow' /\ GreetingFirst'
  BY <1>1, <1>2, <1>3, SaidSession DEF ServerKinds, Greetings, Replies
<1> QED BY <1>2, <1>4

(* A step of the peer.                                                     *)
LEMMA PeerSession ==
  ASSUME StackInvariant, SessionInvariant, PeerNext
  PROVE  SessionInvariant'
BY KernelSession, ServerGreetsSession, ServerAuthenticatesSession, ServerAnswersSession,
   ServerFailsSession DEF PeerNext

----------------------------------------------------------------------------
(* The theorems.                                                           *)

(* A step that changes nothing.                                            *)
LEMMA RestSession ==
  ASSUME SessionInvariant, UNCHANGED vars
  PROVE  SessionInvariant'
<1>1. UNCHANGED <<stack, sock, s2c, server, ready, packet_number, revents, buf, pc, rc>>
  BY DEF vars, ioVars, conVars, pollVars, dataVars
<1>2. CodesMean' /\ (Closing => Closing') /\ (sock = "pending" => revents' = {})
  BY <1>1 DEF SessionInvariant, CodesMean, Closing, PendingAwaited, Clean
<1> QED BY <1>1, <1>2, Unmoved

(* A connection object is created with nothing of any connection.          *)
LEMMA SessionStarts == Init => SessionInvariant
<1> SUFFICES ASSUME Init PROVE SessionInvariant
  OBVIOUS
<1>1. /\ stack = <<>> /\ sock = "invalid" /\ ready = FALSE /\ packet_number = 0
      /\ buf = <<>> /\ s2c = <<>> /\ server = "none" /\ pc = "app" /\ rc = "OK"
  BY DEF Init
<1>2. <<>> \notin ConnectStates \cup HandshakeStates \cup CommandStates
  BY ConnectClasses
<1>3. CleanApart /\ PendingAwaited /\ CodesMean
  BY <1>1, <1>2 DEF CleanApart, PendingAwaited, CodesMean, Clean, Top
<1>4. StackTellsReady
  BY <1>1, <1>2 DEF StackTellsReady
<1>5. RepliesFollow
  BY <1>1, NoKinds DEF RepliesFollow
<1>6. GreetingFirst
  BY <1>1, <1>2, NoKinds DEF GreetingFirst, HandshakeStates
<1> QED BY <1>3, <1>4, <1>5, <1>6 DEF SessionInvariant

(* Every step preserves the invariant: one lemma for each action.          *)
LEMMA SessionNext ==
  ASSUME CallbackAccepts, StackInvariant, SessionInvariant, [Next]_vars
  PROVE  SessionInvariant'
<1>1. CASE Handler
  BY <1>1, AddrinfoSession, ConnectSession, ConnectingSession, ReadSession, WriteSession,
     PacketReadSession, GreetingSession, ClientWriteSession, HandshakeResultSession,
     CommandWriteSession, ResultReadSession, ColumnReadSession, RowReadSession,
     FieldReadSession DEF Handler
<1>2. CASE drizzle_wait \/ StateLoopStops \/ StateLoopEnds
  BY <1>2, DrizzleWaitSession, StateLoopStopsSession, StateLoopEndsSession
<1>3. CASE \/ ConnectReturns \/ CommandReturns \/ QuitReturns
           \/ ColumnsReturn \/ SkipReturns \/ RowReturns
  BY <1>3, ReturnsSession
<1>4. CASE Call
  BY <1>4, CallSession
<1>5. CASE CallResultFree \/ CallClose
  BY <1>5, FreeSession
<1>6. CASE LoopNext
  BY <1>6, LoopSession
<1>7. CASE PeerNext
  BY <1>7, PeerSession
<1>8. CASE AppRests \/ UNCHANGED vars
  BY <1>8, RestSession DEF AppRests
<1> QED
  BY <1>1, <1>2, <1>3, <1>4, <1>5, <1>6, <1>7, <1>8 DEF Next, LibraryNext, AppNext

(* Whatever is called in whatever order, with any peer and any failure: a  *)
(* socket that is not connected has left nothing in drizzle_st, the stack  *)
(* says whether the client is authenticated, a code says what became of    *)
(* the connection, and the server has authenticated the client before it   *)
(* says a word of a reply.                                                 *)
THEOREM SessionIsInvariant ==
  ASSUME CallbackAccepts
  PROVE  Spec => []SessionInvariant
<1>1. Init => SessionInvariant
  BY SessionStarts
<1>2. StackInvariant /\ SessionInvariant /\ [Next]_vars => SessionInvariant'
  BY SessionNext
<1> QED BY <1>1, <1>2, StackIsInvariant, PTL DEF Spec

(* drizzle_connect returns OK only on an authenticated connection, and no  *)
(* command is put in the buffer before that.                               *)
THEOREM AlwaysReadyWhenConnected ==
  ASSUME CallbackAccepts
  PROVE  Spec => []ReadyWhenConnected
<1>1. StackInvariant /\ SessionInvariant => ReadyWhenConnected
  <2> SUFFICES ASSUME StackInvariant, SessionInvariant PROVE ReadyWhenConnected
    OBVIOUS
  <2>1. ready => sock = "connected" /\ server \in {"idle", "closed"}
    BY DEF SessionInvariant, CleanApart, Clean, RepliesFollow
  <2>2. pc = "leave" /\ rc = "OK" => ready
    BY DEF SessionInvariant, CodesMean
  <2>3. Running("command_write") => ready
    <3> SUFFICES ASSUME Running("command_write") PROVE ready
      OBVIOUS
    <3>1. stack = <<"command_write">>
      BY Shapes DEF Running, StackInvariant, WellFormedStack
    <3> QED BY <3>1 DEF SessionInvariant, StackTellsReady, CommandStates
  <2> QED BY <2>1, <2>2, <2>3 DEF ReadyWhenConnected
<1> QED BY <1>1, StackIsInvariant, SessionIsInvariant, PTL

(* A call that failed leaves nothing of the connection it failed on: the   *)
(* next one has to connect again, and counts the packets from 0 in an      *)
(* empty buffer.                                                           *)
THEOREM FailuresAlwaysReset ==
  ASSUME CallbackAccepts
  PROVE  Spec => []FailureResets
<1>1. SessionInvariant => FailureResets
  BY DEF SessionInvariant, CodesMean, Clean, FailureResets
<1> QED BY <1>1, SessionIsInvariant, PTL

(* A handler waits without another connection.                             *)
LEMMA WaitKeepsServer ==
  ASSUME NEW ev, NEW rev, NEW leave, WaitFor(ev, rev, leave)
  PROVE  server' \in {server, "none"}
BY DEF WaitFor, drizzle_close, Hangup, ioVars

(* Only the two that finish a connect() make the server greet.             *)
LEMMA GreetedOnConnect ==
  ASSUME Next, server # "greet", server' = "greet"
  PROVE  drizzle_state_connect \/ KernelConnects
<1>1. CASE Handler
  <2> SUFFICES ASSUME ~ drizzle_state_connect
               PROVE  server' \in {server, "none"}
    OBVIOUS
  <2>1. drizzle_state_addrinfo => server' = server
    BY DEF drizzle_state_addrinfo, ioVars
  <2>2. drizzle_state_connecting => server' \in {server, "none"}
    BY WaitKeepsServer DEF drizzle_state_connecting, ioVars
  <2>3. drizzle_state_read => server' \in {server, "none"}
    BY WaitKeepsServer DEF drizzle_state_read, ReadWaitsForPoll, ReadSome, ReadWouldBlock,
       ReadRefused, ReadFails, ioVars
  <2>4. drizzle_state_write => server' \in {server, "none"}
    BY WaitKeepsServer DEF drizzle_state_write, WriteSome, WriteWouldBlock, WriteFails, ioVars
  <2>5. drizzle_state_packet_read => server' = server
    BY DEF drizzle_state_packet_read, ioVars
  <2>6. Quiet => server' = server
    BY DEF Quiet, ioVars
  <2>7. \/ drizzle_state_handshake_server_read \/ drizzle_state_handshake_client_write
        \/ drizzle_state_handshake_result_read \/ drizzle_state_command_write
        \/ drizzle_state_result_read \/ drizzle_state_column_read
        \/ drizzle_state_row_read \/ drizzle_state_field_read
        => Quiet
    BY DEF drizzle_state_handshake_server_read, drizzle_state_handshake_client_write,
       drizzle_state_handshake_result_read, drizzle_state_command_write,
       drizzle_state_result_read, drizzle_state_column_read, drizzle_state_row_read,
       drizzle_state_field_read
  <2> QED BY <1>1, <2>1, <2>2, <2>3, <2>4, <2>5, <2>6, <2>7 DEF Handler
<1>2. drizzle_close => server' \in {server, "none"}
  BY DEF drizzle_close, Hangup, ioVars
<1>3. CASE drizzle_wait \/ StateLoopStops \/ StateLoopEnds
  BY <1>2, <1>3 DEF drizzle_wait, WaitFails, SetRevents, StateLoopStops, StateLoopEnds, ioVars
<1>4. ApiOnly => server' = server
  BY DEF ApiOnly, ioVars
<1>5. CASE \/ ConnectReturns \/ CommandReturns \/ QuitReturns
           \/ ColumnsReturn \/ SkipReturns \/ RowReturns
  BY <1>2, <1>4, <1>5 DEF ConnectReturns, CommandReturns, QuitReturns, ColumnsReturn,
     SkipReturns, RowReturns
<1>6. CASE AppNext
  <2>1. Call => ApiOnly
    BY DEF Call, CallConnect, CallCommand, CallColumns, CallSkip, CallRow
  <2>2. AppRests => server' = server
    BY DEF AppRests, vars, ioVars
  <2> QED BY <1>2, <1>4, <1>6, <2>1, <2>2 DEF AppNext, CallResultFree, CallClose
<1>7. CASE LoopNext
  BY <1>2, <1>7 DEF LoopNext, AppWait, AppEventLoop, AppLoopStale, SetRevents
<1>8. CASE PeerNext
  <2>1. ServerGreets => server' # "greet"
    BY DEF ServerGreets
  <2>2. ServerAuthenticates => server' # "greet"
    BY DEF ServerAuthenticates
  <2>3. ServerAnswers => server' # "greet"
    BY DEF ServerAnswers
  <2>4. ServerFails => server' # "greet"
    BY DEF ServerFails
  <2> QED BY <1>8, <2>1, <2>2, <2>3, <2>4 DEF PeerNext
<1> QED BY <1>1, <1>3, <1>5, <1>6, <1>7, <1>8 DEF Next, LibraryNext

(* A connection is made for a handshake that starts from nothing: nothing  *)
(* of the connection before it is in the buffer, and no handler of a       *)
(* command or of another handshake is on the stack.                        *)
THEOREM ConnectionsStartFresh ==
  ASSUME CallbackAccepts
  PROVE  Spec => FreshConnection
<1> DEFINE Fresh == /\ ~ ready /\ packet_number = 0 /\ buf = <<>>
                    /\ stack # <<>> /\ stack[Len(stack)] = "handshake_server_read"
           Opens == server' = "greet" /\ server # "greet"
<1>1. StackInvariant /\ SessionInvariant /\ [Next]_vars => [Opens => Fresh]_vars
  <2> SUFFICES ASSUME StackInvariant, SessionInvariant, Next, Opens
               PROVE  Fresh
    OBVIOUS
  <2>1. /\ Clean
        /\ stack \in {<<"connecting", "packet_read", "handshake_server_read">>,
                      <<"connect", "packet_read", "handshake_server_read">>}
    BY GreetedOnConnect, ConnectEffect, KernelEffect
  <2>2. stack # <<>> /\ stack[Len(stack)] = "handshake_server_read"
    BY <2>1
  <2> QED BY <2>1, <2>2 DEF Clean
<1>2. FreshConnection <=> [][Opens => Fresh]_vars
  BY PTL DEF FreshConnection
<1> QED BY <1>1, <1>2, StackIsInvariant, SessionIsInvariant, PTL DEF Spec

================================================================================
