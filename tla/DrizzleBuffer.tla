---------------------------- MODULE DrizzleBuffer ----------------------------
(***************************************************************************)
(* The buffer of a connection: where buffer_ptr and buffer_size are in the *)
(* memory that drizzle_state_read moves and doubles, how much of it there  *)
(* is and how much buffer_allocation says, while packets of any size come  *)
(* in pieces of any size, connections are lost and commands go out through *)
(* the same memory.  Indices start at 0 as in the code.                    *)
(*                                                                         *)
(* A byte from the server is its position in all that servers ever sent;   *)
(* the positions of a new connection come after those of the old ones, so  *)
(* that nothing left in the memory passes for new.  What the handlers do   *)
(* with their packets is in the other modules: here they use them up in    *)
(* steps of any size.                                                      *)
(***************************************************************************)
EXTENDS Integers

CONSTANTS
  HeaderSize,   \* 4: the size of a packet in 3 bytes, and its number
  MaxPayload,   \* 2^24 - 1, what 3 bytes can say
  DefaultSize,  \* DRIZZLE_DEFAULT_BUFFER_SIZE
  MaxSize,      \* DRIZZLE_MAX_BUFFER_SIZE
  MaxCommand,   \* bound on the bytes of a command
  MaxStream     \* bound on the bytes the servers send

ASSUME BufferAssumption ==
  /\ HeaderSize \in Nat \ {0} /\ MaxPayload \in Nat /\ MaxCommand \in Nat
  /\ DefaultSize \in Nat /\ DefaultSize > HeaderSize
  /\ MaxSize \in Nat /\ MaxStream \in Nat

VARIABLES
  con,      \* buffer, buffer_ptr, buffer_size, buffer_allocation, packet_size
  handler,  \* on top of the stack
  left,     \* bytes of the packet that its handler has not used
  command,  \* bytes of the command still with the caller
  frame,    \* external: the packet the server sends at `consumed'
  consumed, \* position of the next byte for a handler
  received, \* position of the next byte from the socket
  starved   \* a realloc() failed

vars == <<con, handler, left, command, frame, consumed, received, starved>>

Handlers == {"idle", "packet_read", "read", "packet", "command", "write"}

Junk == -1       \* memory nobody wrote
Outbound == -2   \* a byte of a command

(* con->buffer has `memory' bytes, whatever buffer_allocation says.  With  *)
(* `caller', buffer_ptr is in the memory of the command's caller.          *)
Available(c) == c.allocation - (c.ptr + c.size)

----------------------------------------------------------------------------
(* The steps of drizzle_state_read on the buffer.                          *)

(* memmove() to the start of the buffer.                                   *)
Moved(c) ==
  [c EXCEPT !.buffer = [i \in 0..(c.memory - 1) |->
              IF i < c.size THEN c.buffer[c.ptr + i] ELSE c.buffer[i]],
            !.ptr = 0]

(* Mutant of Compacted: what is at the end of the buffer stays there.      *)
CompactedWhenEmpty(c) == IF c.size = 0 THEN [c EXCEPT !.ptr = 0] ELSE c

Compacted(c) ==
  IF c.size = 0 THEN [c EXCEPT !.ptr = 0]
  ELSE IF c.ptr > c.allocation \div 2 THEN Moved(c)
  ELSE c

(* Mutant of Doubled: the data stays where it was.                         *)
DoubledInPlace(c) ==
  [c EXCEPT !.allocation = 2 * c.allocation, !.memory = 2 * c.allocation, !.ptr = 0,
            !.buffer = [i \in 0..(2 * c.allocation - 1) |->
               IF i < c.memory THEN c.buffer[i] ELSE Junk]]

Doubled(c) ==
  LET m == Moved(c) IN
  [m EXCEPT !.allocation = 2 * c.allocation,
            !.memory = 2 * c.allocation,
            !.buffer = [i \in 0..(2 * c.allocation - 1) |->
               IF i < c.memory THEN m.buffer[i] ELSE Junk]]

(* realloc() failed after buffer_allocation was doubled.                   *)
NotDoubled(c) == [Moved(c) EXCEPT !.allocation = 2 * c.allocation,
                                  !.ptr = c.ptr]

(* n bytes from the position `from' of the stream on, at index first.      *)
Written(bytes, memory, first, n, from) ==
  [i \in 0..(memory - 1) |->
     IF first <= i /\ i < first + n THEN from + (i - first) ELSE bytes[i]]

Received(c, n) ==
  [c EXCEPT !.buffer = Written(c.buffer, c.memory, c.ptr + c.size, n, received),
            !.size = c.size + n]

Used(c, n) == [c EXCEPT !.ptr = c.ptr + n, !.size = c.size - n]

Closed(c) == [c EXCEPT !.ptr = 0, !.size = 0, !.caller = FALSE]

----------------------------------------------------------------------------
(* The server: a packet of any size, or nothing for now when nothing of it *)
(* is in the buffer.                                                       *)
Silence == -1
Frames(from, size) ==
  {n \in 0..MaxPayload : from + HeaderSize + n <= MaxStream} \cup
  {n \in {Silence} : size = 0}

(* A new connection, after drizzle_close.                                  *)
Again(c) ==
  /\ con' = Closed(c)
  /\ handler' = "idle" /\ left' = 0 /\ command' = 0
  /\ received' = received + 1 /\ consumed' = received + 1
  /\ frame' \in Frames(received + 1, 0)

Init ==
  /\ con = [buffer |-> [i \in 0..(DefaultSize - 1) |-> Junk], memory |-> DefaultSize,
            allocation |-> DefaultSize, ptr |-> 0, size |-> 0,
            packet_size |-> 0, caller |-> FALSE]
  /\ handler = "idle" /\ left = 0 /\ command = 0
  /\ consumed = 0 /\ received = 0 /\ frame \in Frames(0, 0)
  /\ starved = FALSE

----------------------------------------------------------------------------
(* drizzle_state_packet_read.                                              *)

ReadPacket ==
  /\ handler = "idle" /\ frame # Silence
  /\ handler' = "packet_read"
  /\ UNCHANGED <<con, left, command, frame, consumed, received, starved>>

(* drizzle_get_byte3: the size the server sent, if that is what is there.  *)
Byte3(c) ==
  {n \in 0..MaxPayload : c.buffer[c.ptr] = consumed => n = frame}

HeaderMissing ==
  /\ handler = "packet_read" /\ con.size < HeaderSize
  /\ handler' = "read"
  /\ UNCHANGED <<con, left, command, frame, consumed, received, starved>>

BodyMissing ==
  /\ handler = "packet_read" /\ con.size >= HeaderSize
  /\ \E n \in Byte3(con) :
       /\ con.size < n + HeaderSize
       /\ con' = [con EXCEPT !.packet_size = n]
  /\ handler' = "read"
  /\ UNCHANGED <<left, command, frame, consumed, received, starved>>

(* Mutant of PacketFound: it does not wait for the whole packet.           *)
PacketFoundEarly ==
  /\ handler = "packet_read" /\ con.size >= HeaderSize
  /\ \E n \in Byte3(con) :
       con' = Used([con EXCEPT !.packet_size = n], HeaderSize) /\ left' = n
  /\ consumed' = consumed + HeaderSize
  /\ handler' = "packet"
  /\ UNCHANGED <<command, frame, received, starved>>

PacketFound ==
  /\ handler = "packet_read" /\ con.size >= HeaderSize
  /\ \E n \in Byte3(con) :
       /\ con.size >= n + HeaderSize
       /\ con' = Used([con EXCEPT !.packet_size = n], HeaderSize) /\ left' = n
  /\ consumed' = consumed + HeaderSize
  /\ handler' = "packet"
  /\ UNCHANGED <<command, frame, received, starved>>

(* The handler of the packet takes some of it, in the end all of it.       *)
UsePacket ==
  /\ handler = "packet" /\ left > 0
  /\ \E n \in 1..left :
       /\ con' = Used(con, n) /\ left' = left - n
       /\ consumed' = consumed + n
  /\ UNCHANGED <<handler, command, frame, received, starved>>

PacketUsed ==
  /\ handler = "packet" /\ left = 0
  /\ handler' = "idle" /\ frame' \in Frames(consumed, con.size)
  /\ UNCHANGED <<con, left, command, consumed, received, starved>>

----------------------------------------------------------------------------
(* drizzle_state_read.                                                     *)

(* It leaves, without the report that there is something to read.          *)
ReadWaits ==
  /\ handler = "read"
  /\ con' = Compacted(con)
  /\ UNCHANGED <<handler, left, command, frame, consumed, received, starved>>

(* n bytes come, or none yet, in the room there is.                        *)
Receive(c, n) ==
  /\ n <= Available(c) /\ received + n <= MaxStream
  /\ con' = Received(c, n)
  /\ received' = received + n
  /\ handler' = IF n = 0 THEN "read" ELSE "packet_read"
  /\ UNCHANGED <<left, command, frame, consumed, starved>>

ReadInRoom(n) ==
  /\ handler = "read" /\ Available(Compacted(con)) > 0
  /\ Receive(Compacted(con), n)

(* Mutant of ReadInMore: the limit is on what there would be.              *)
ReadInMoreWithin(n) ==
  /\ handler = "read" /\ Available(Compacted(con)) = 0
  /\ 2 * con.allocation < MaxSize
  /\ Receive(Doubled(Compacted(con)), n)

ReadInMore(n) ==
  /\ handler = "read" /\ Available(Compacted(con)) = 0
  /\ con.allocation < MaxSize
  /\ Receive(Doubled(Compacted(con)), n)

(* "realloc failure" and "buffer too small" close the connection.          *)
NoMoreRoom ==
  /\ handler = "read" /\ Available(Compacted(con)) = 0
  /\ received < MaxStream
  /\ starved' = (starved \/ con.allocation < MaxSize)
  /\ Again(IF con.allocation < MaxSize THEN NotDoubled(Compacted(con))
           ELSE Compacted(con))

Lose ==
  /\ received < MaxStream
  /\ Again(con) /\ UNCHANGED starved

----------------------------------------------------------------------------
(* drizzle_state_command_write and drizzle_state_write, for a command when *)
(* everything from the server has been read.                               *)

Head == HeaderSize + 1

(* Mutant of Fitting: the head is forgotten.                               *)
FittingWithoutHead(total) ==
  IF total <= con.allocation THEN total ELSE con.allocation

(* The bytes of a command that are copied behind its head.                 *)
Fitting(total) ==
  IF total <= con.allocation - Head THEN total ELSE con.allocation - Head

(* The head and as much of the command as there is room for: the buffer is *)
(* empty and has more than enough for the largest head, so that nothing is *)
(* flushed first.                                                          *)
StartCommand ==
  /\ handler = "idle" /\ con.size = 0
  /\ \E total \in 0..MaxCommand :
       /\ con' = [con EXCEPT !.ptr = 0, !.size = Head + Fitting(total),
            !.packet_size = 1 + total,
            !.buffer = [i \in 0..(con.memory - 1) |->
               IF i < Head + Fitting(total) THEN Outbound ELSE con.buffer[i]]]
       /\ command' = total - Fitting(total)
  /\ handler' = "write"
  /\ UNCHANGED <<left, frame, consumed, received, starved>>

(* The rest is written from where it is.                                   *)
ContinueCommand ==
  /\ handler = "command"
  /\ con' = [con EXCEPT !.ptr = 0, !.size = command, !.caller = TRUE]
  /\ command' = 0 /\ handler' = "write"
  /\ UNCHANGED <<left, frame, consumed, received, starved>>

Sent(c) == [c EXCEPT !.ptr = 0, !.caller = FALSE]

Write ==
  /\ handler = "write"
  /\ \E n \in 1..con.size :
       IF n < con.size
       THEN con' = Used(con, n) /\ UNCHANGED <<handler, frame>>
       ELSE /\ con' = Sent(Used(con, n))
            /\ IF command > 0 THEN handler' = "command" /\ UNCHANGED frame
               ELSE handler' = "idle" /\ frame' \in Frames(consumed, 0)
  /\ UNCHANGED <<left, command, consumed, received, starved>>

----------------------------------------------------------------------------
(* What is past the memory is not the buffer's: nothing is said of what    *)
(* follows.                                                                *)
InsideMemory == con.caller \/ con.ptr + con.size <= con.memory

Arrives == \E n \in 1..MaxStream : ReadInRoom(n) \/ ReadInMore(n)
Idles == ReadWaits \/ ReadInRoom(0) \/ ReadInMore(0)
Packets == ReadPacket \/ HeaderMissing \/ BodyMissing \/ PacketFound
           \/ UsePacket \/ PacketUsed
Commands == StartCommand \/ ContinueCommand \/ Write
Fails == NoMoreRoom \/ Lose

Next == InsideMemory /\ (Packets \/ Idles \/ Arrives \/ Commands \/ Fails)

(* What a server has begun to send arrives; the loop of handlers goes on.  *)
Fairness ==
  /\ WF_vars(InsideMemory /\ Arrives)
  /\ WF_vars(InsideMemory /\ (HeaderMissing \/ BodyMissing \/ PacketFound))

Spec == Init /\ [][Next]_vars /\ Fairness

----------------------------------------------------------------------------
Cells == {Junk, Outbound} \cup 0..MaxStream
Fields == {"buffer", "memory", "allocation", "ptr", "size", "packet_size", "caller"}
IsBuffer(c) ==
  /\ DOMAIN c = Fields
  /\ c.memory \in Nat \ {0} /\ c.allocation \in Nat \ {0}
  /\ c.buffer \in [0..(c.memory - 1) -> Cells]
  /\ c.ptr \in Nat /\ c.size \in Nat /\ c.packet_size \in Nat
  /\ c.caller \in BOOLEAN

(* Every variable has its type.                                            *)
BufferTypeOK ==
  /\ IsBuffer(con)
  /\ handler \in Handlers /\ left \in 0..MaxPayload /\ command \in 0..MaxCommand
  /\ frame \in 0..MaxPayload \cup {Silence}
  /\ consumed \in 0..MaxStream /\ received \in 0..MaxStream
  /\ starved \in BOOLEAN

(* buffer_ptr and buffer_size stay within buffer_allocation, wherever the  *)
(* data was moved to, and unless realloc() failed (starved) that is the    *)
(* memory there is.  (Available in the code is an unsigned difference.)    *)
WithinAllocation ==
  /\ ~ con.caller => con.ptr + con.size <= con.allocation
  /\ starved \/ con.allocation = con.memory

Holds(c, from) ==
  \A i \in 0..(c.size - 1) : c.buffer[c.ptr + i] = from + i

(* What a handler finds at buffer_ptr is the next thing the server sent,   *)
(* byte after byte up to the last one received, over every move, growth,   *)
(* command and lost connection; and a handler that has a packet has all    *)
(* of it.                                                                  *)
BytesInOrder ==
  /\ handler \in {"idle", "packet_read", "read", "packet"} =>
       /\ consumed + con.size = received
       /\ InsideMemory => Holds(con, consumed)
  /\ handler = "packet" => left <= con.size

(* The buffer grows for a packet that does not fit and not for what is     *)
(* left at its start: only while it is smaller than twice the largest      *)
(* packet, that is to 64 MB at the most, so that "buffer too small" is     *)
(* never said.                                                             *)
GrowthBounded ==
  handler = "read" /\ Available(Compacted(con)) = 0
    => con.allocation < 2 * (HeaderSize + MaxPayload)

(* A packet that the server sends is read, unless the connection ends:     *)
(* reading never waits for room that does not come.                        *)
PacketsArrive ==
  handler = "packet_read" ~> handler \in {"packet", "idle"} \/ ~ InsideMemory

(* The bytes of the packet that its handler finds at buffer_ptr.           *)
Visible ==
  [i \in 0..((IF handler = "packet" THEN left ELSE 0) - 1) |-> con.buffer[con.ptr + i]]

Reader ==
  IF handler \in {"packet_read", "read"} THEN "waiting"
  ELSE IF handler \in {"command", "write"} THEN "command"
  ELSE handler

Stream == INSTANCE DrizzleStream
            WITH reader <- Reader, position <- consumed, visible <- Visible

(* The buffer that moves, grows, is reused for commands and is filled in   *)
(* pieces implements the stream of packets that the handlers see, a whole  *)
(* packet at a time.                                                       *)
PacketStream == Stream!Spec
=============================================================================
