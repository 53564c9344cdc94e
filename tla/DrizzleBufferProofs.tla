------------------------- MODULE DrizzleBufferProofs -------------------------
(***************************************************************************)
(* Proofs about the buffer of a connection, for every size of header,      *)
(* packet, command, buffer and stream.  The inductive invariant adds to    *)
(* the properties which handlers find buffer_ptr in the buffer, and that   *)
(* drizzle_state_read is only entered with less than a packet.             *)
(* From it follows that the buffer implements the stream of packets,       *)
(* DrizzleStream.                                                          *)
(***************************************************************************)
EXTENDS DrizzleBuffer, TLAPS

Phases ==
  /\ handler # "write" => ~ con.caller
  /\ handler \in {"command", "write"} => consumed = received
  /\ handler = "command" => con.size = 0
  /\ handler = "read" => con.size < HeaderSize + MaxPayload

(* The buffer never gets larger than four times the largest packet.        *)
AllocationBounded ==
  /\ con.allocation >= DefaultSize
  /\ \/ con.allocation = DefaultSize
     \/ con.allocation < 4 * (HeaderSize + MaxPayload)

BufferInvariant ==
  /\ BufferTypeOK /\ WithinAllocation /\ BytesInOrder
  /\ Phases /\ AllocationBounded

----------------------------------------------------------------------------
(* What the steps of drizzle_state_read do to a buffer that holds the      *)
(* stream from the position `from' on.                                     *)

Sound(c, from) ==
  /\ IsBuffer(c)
  /\ c.ptr + c.size <= c.allocation /\ c.ptr + c.size <= c.memory
  /\ Holds(c, from)

Has(d, buffer, memory, allocation, ptr, size, packet_size, caller) ==
  /\ DOMAIN d = Fields
  /\ d.buffer = buffer /\ d.memory = memory /\ d.allocation = allocation
  /\ d.ptr = ptr /\ d.size = size /\ d.packet_size = packet_size
  /\ d.caller = caller

HoldsInside(c, from) == c.ptr + c.size <= c.memory => Holds(c, from)

(* The next n bytes of the stream, and the room for them.                  *)
Coming(c, from, n) ==
  /\ n <= Available(c)
  /\ received \in Nat /\ received = from + c.size
  /\ MaxStream \in Nat /\ received + n <= MaxStream

SameData(c, d) ==
  /\ d.size = c.size /\ d.packet_size = c.packet_size /\ d.caller = c.caller

(* Moving the data keeps it.                                               *)
LEMMA MovedSound ==
  ASSUME NEW c, NEW from \in Nat, Sound(c, from)
  PROVE  /\ Sound(Moved(c), from) /\ SameData(c, Moved(c))
         /\ Moved(c).allocation = c.allocation /\ Moved(c).memory = c.memory
         /\ Moved(c).ptr = 0
<1> DEFINE m == Moved(c)
           f == [i \in 0..(c.memory - 1) |->
                   IF i < c.size THEN c.buffer[c.ptr + i] ELSE c.buffer[i]]
<1>1. Has(m, f, c.memory, c.allocation, 0, c.size, c.packet_size, c.caller)
  BY DEF Moved, Sound, IsBuffer, Has, Fields
<1>2. f \in [0..(c.memory - 1) -> Cells]
  <2> SUFFICES ASSUME NEW i \in 0..(c.memory - 1)
               PROVE  (IF i < c.size THEN c.buffer[c.ptr + i] ELSE c.buffer[i]) \in Cells
    OBVIOUS
  <2>1. i < c.size => c.ptr + i \in 0..(c.memory - 1)
    BY DEF Sound, IsBuffer
  <2> QED BY <2>1 DEF Sound, IsBuffer
<1>3. IsBuffer(m)
  BY <1>1, <1>2 DEF Sound, IsBuffer, Has
<1>4. Holds(m, from)
  <2> SUFFICES ASSUME NEW i \in 0..(c.size - 1)
               PROVE  f[i] = from + i
    BY <1>1 DEF Holds, Has
  <2>1. i \in 0..(c.memory - 1) /\ i < c.size
    BY DEF Sound, IsBuffer
  <2>2. f[i] = c.buffer[c.ptr + i]
    BY <2>1
  <2> QED BY <2>2 DEF Sound, Holds
<1> HIDE DEF m
<1> QED
  <2>1. Sound(m, from) /\ SameData(c, m)
    BY <1>1, <1>3, <1>4 DEF Sound, SameData, IsBuffer, Has
  <2> QED BY <1>1, <2>1 DEF m, Has

(* So does drizzle_state_read's preparation.                               *)
LEMMA CompactedSound ==
  ASSUME NEW c, NEW from \in Nat, Sound(c, from)
  PROVE  /\ Sound(Compacted(c), from) /\ SameData(c, Compacted(c))
         /\ Compacted(c).allocation = c.allocation
         /\ Compacted(c).memory = c.memory
         /\ Compacted(c).ptr <= c.allocation \div 2
<1> DEFINE e == [c EXCEPT !.ptr = 0]
<1>1. CASE c.size = 0
  <2>1. Compacted(c) = e
    BY <1>1 DEF Compacted
  <2>2. Has(e, c.buffer, c.memory, c.allocation, 0, 0, c.packet_size, c.caller)
    BY <1>1 DEF Sound, IsBuffer, Has, Fields
  <2>3. IsBuffer(e)
    BY <2>2 DEF Sound, IsBuffer, Has
  <2>4. Holds(e, from)
    BY <2>2 DEF Holds, Has
  <2> QED BY <1>1, <2>1, <2>2, <2>3, <2>4 DEF Sound, SameData, IsBuffer, Has
<1>2. CASE c.size # 0 /\ c.ptr > c.allocation \div 2
  <2>1. Compacted(c) = Moved(c)
    BY <1>2 DEF Compacted
  <2>2. 0 <= c.allocation \div 2
    BY DEF Sound, IsBuffer
  <2> QED BY <2>1, <2>2, MovedSound
<1>3. CASE c.size # 0 /\ ~ (c.ptr > c.allocation \div 2)
  <2>1. Compacted(c) = c
    BY <1>3 DEF Compacted
  <2> QED BY <1>3, <2>1 DEF Sound, SameData, IsBuffer
<1> QED BY <1>1, <1>2, <1>3

(* And doubling, after which the memory is what buffer_allocation says.    *)
LEMMA DoubledSound ==
  ASSUME NEW c, NEW from \in Nat, Sound(c, from)
  PROVE  /\ Sound(Doubled(c), from) /\ SameData(c, Doubled(c))
         /\ Doubled(c).allocation = 2 * c.allocation
         /\ Doubled(c).memory = 2 * c.allocation
<1> DEFINE m == Moved(c)
           f == [i \in 0..(2 * c.allocation - 1) |->
                   IF i < c.memory THEN m.buffer[i] ELSE Junk]
           d == Doubled(c)
<1>1. /\ Sound(m, from) /\ SameData(c, m) /\ m.memory = c.memory /\ m.ptr = 0
      /\ m.allocation = c.allocation
  BY MovedSound
<1>2. Has(d, f, 2 * c.allocation, 2 * c.allocation, 0, c.size, c.packet_size,
          c.caller)
  BY <1>1 DEF Doubled, Sound, IsBuffer, SameData, Has, Fields
<1>3. f \in [0..(2 * c.allocation - 1) -> Cells]
  <2> SUFFICES ASSUME NEW i \in 0..(2 * c.allocation - 1)
               PROVE  (IF i < c.memory THEN m.buffer[i] ELSE Junk) \in Cells
    OBVIOUS
  <2>1. i < c.memory => i \in 0..(m.memory - 1)
    BY <1>1 DEF Sound, IsBuffer
  <2>2. m.buffer \in [0..(m.memory - 1) -> Cells]
    BY <1>1 DEF Sound, IsBuffer
  <2> QED BY <2>1, <2>2 DEF Cells
<1>4. IsBuffer(d)
  BY <1>2, <1>3 DEF Sound, IsBuffer, Has
<1>5. Holds(d, from)
  <2> SUFFICES ASSUME NEW i \in 0..(c.size - 1)
               PROVE  f[0 + i] = from + i
    BY <1>2 DEF Holds, Has
  <2>1. i \in 0..(2 * c.allocation - 1) /\ i < c.memory /\ i \in 0..(m.size - 1)
    BY <1>1 DEF Sound, IsBuffer, SameData
  <2>2. f[i] = m.buffer[i]
    BY <2>1
  <2>3. m.buffer[m.ptr + i] = from + i
    BY <1>1, <2>1 DEF Sound, Holds
  <2> QED BY <1>1, <2>1, <2>2, <2>3
<1> QED BY <1>2, <1>4, <1>5 DEF Sound, SameData, IsBuffer, Has

(* What recv() writes, and what it leaves.                                 *)
LEMMA WrittenCells ==
  ASSUME NEW memory \in Nat, NEW bytes \in [0..(memory - 1) -> Cells],
         NEW first \in Nat, NEW n \in Nat, NEW from \in Nat,
         MaxStream \in Nat, from + n <= MaxStream
  PROVE  /\ Written(bytes, memory, first, n, from) \in [0..(memory - 1) -> Cells]
         /\ \A i \in 0..(memory - 1) :
              Written(bytes, memory, first, n, from)[i] =
                IF first <= i /\ i < first + n THEN from + (i - first) ELSE bytes[i]
<1>1. ASSUME NEW i \in 0..(memory - 1)
      PROVE  (IF first <= i /\ i < first + n THEN from + (i - first) ELSE bytes[i])
               \in Cells
  <2>1. CASE first <= i /\ i < first + n
    <3>1. from + (i - first) \in 0..MaxStream
      BY <2>1
    <3> QED BY <2>1, <3>1 DEF Cells
  <2>2. CASE ~ (first <= i /\ i < first + n)
    BY <2>2
  <2> QED BY <2>1, <2>2
<1> QED BY <1>1 DEF Written

(* Receiving puts the next bytes behind the others.                        *)
LEMMA ReceivedSound ==
  ASSUME NEW c, NEW from \in Nat, NEW n \in Nat, IsBuffer(c),
         HoldsInside(c, from), Coming(c, from, n)
  PROVE  /\ IsBuffer(Received(c, n))
         /\ Received(c, n).ptr = c.ptr /\ Received(c, n).size = c.size + n
         /\ Received(c, n).allocation = c.allocation
         /\ Received(c, n).memory = c.memory
         /\ Received(c, n).caller = c.caller
         /\ Received(c, n).ptr + Received(c, n).size <= c.allocation
         /\ HoldsInside(Received(c, n), from)
<1> DEFINE f == Written(c.buffer, c.memory, c.ptr + c.size, n, received)
           d == Received(c, n)
<1>1. Has(d, f, c.memory, c.allocation, c.ptr, c.size + n, c.packet_size, c.caller)
  BY DEF Received, IsBuffer, Has, Fields
<1>2. /\ c.ptr \in Nat /\ c.size \in Nat /\ c.memory \in Nat
      /\ c.buffer \in [0..(c.memory - 1) -> Cells]
  BY DEF IsBuffer
<1>3. received \in Nat /\ received + n <= MaxStream /\ MaxStream \in Nat
  BY DEF Coming
<1>4. c.ptr + c.size \in Nat
  BY <1>2
<1>5. f \in [0..(c.memory - 1) -> Cells]
  BY <1>2, <1>3, <1>4, WrittenCells
<1> HIDE DEF f, d
<1>6. IsBuffer(d)
  BY <1>1, <1>2, <1>5 DEF IsBuffer, Has
<1>7. ASSUME c.ptr + c.size + n <= c.memory
      PROVE  Holds(d, from)
  <2>1. c.ptr + c.size <= c.memory
    BY <1>2, <1>7
  <2>2. \A i \in 0..(c.size - 1) : c.buffer[c.ptr + i] = from + i
    BY <2>1 DEF HoldsInside, Holds
  <2>3. \A i \in 0..(c.size + n - 1) :
          Written(c.buffer, c.memory, c.ptr + c.size, n, from + c.size)[c.ptr + i]
            = from + i
    <3> DEFINE bytes == c.buffer memory == c.memory ptr == c.ptr size == c.size
    <3>1. /\ memory \in Nat /\ bytes \in [0..(memory - 1) -> Cells]
          /\ ptr \in Nat /\ size \in Nat /\ ptr + size + n <= memory
          /\ \A i \in 0..(size - 1) : bytes[ptr + i] = from + i
      BY <1>2, <1>7, <2>2
    <3> HIDE DEF bytes, memory, ptr, size
    <3>2. \A i \in 0..(size + n - 1) :
            Written(bytes, memory, ptr + size, n, from + size)[ptr + i] = from + i
      <4> TAKE i \in 0..(size + n - 1)
      <4>1. ptr + i \in 0..(memory - 1)
        BY <3>1
      <4>2. Written(bytes, memory, ptr + size, n, from + size)[ptr + i] =
              IF ptr + size <= ptr + i /\ ptr + i < ptr + size + n
              THEN from + size + ((ptr + i) - (ptr + size)) ELSE bytes[ptr + i]
        BY <4>1 DEF Written
      <4>3. CASE i < size
        <5>1. i \in 0..(size - 1) /\ ~ (ptr + size <= ptr + i)
          BY <3>1, <4>3
        <5> QED BY <3>1, <4>2, <5>1
      <4>4. CASE ~ (i < size)
        <5>1. ptr + size <= ptr + i /\ ptr + i < ptr + size + n
          BY <3>1, <4>4
        <5>2. from + size + ((ptr + i) - (ptr + size)) = from + i
          BY <3>1
        <5> QED BY <4>2, <5>1, <5>2
      <4> QED BY <4>3, <4>4
    <3> QED BY <3>2 DEF bytes, memory, ptr, size
  <2>4. received = from + c.size
    BY DEF Coming
  <2>5. \A i \in 0..(c.size + n - 1) : f[c.ptr + i] = from + i
    BY <2>3, <2>4 DEF f
  <2>6. d.size = c.size + n /\ d.ptr = c.ptr /\ d.buffer = f
    BY <1>1 DEF Has
  <2> QED BY ONLY <1>2, n \in Nat, from \in Nat, <2>5, <2>6, SMT DEF Holds
<1>8. c.ptr + (c.size + n) <= c.allocation
  BY <1>2 DEF Available, IsBuffer, Coming
<1>9. HoldsInside(d, from)
  <2>1. d.ptr + d.size <= d.memory => c.ptr + c.size + n <= c.memory
    BY <1>1, <1>2 DEF Has
  <2> QED BY <1>7, <2>1 DEF HoldsInside
<1> QED BY <1>1, <1>2, <1>6, <1>8, <1>9 DEF Has, d

(* Using bytes up leaves the rest in place.                                *)
LEMMA UsedSound ==
  ASSUME NEW c, NEW from \in Nat, NEW n \in Nat, IsBuffer(c), n <= c.size
  PROVE  /\ IsBuffer(Used(c, n))
         /\ Used(c, n).ptr = c.ptr + n /\ Used(c, n).size = c.size - n
         /\ Used(c, n).allocation = c.allocation
         /\ Used(c, n).memory = c.memory
         /\ Used(c, n).caller = c.caller
         /\ Holds(c, from) => Holds(Used(c, n), from + n)
<1> DEFINE d == Used(c, n)
<1>1. Has(d, c.buffer, c.memory, c.allocation, c.ptr + n, c.size - n,
          c.packet_size, c.caller)
  BY DEF Used, IsBuffer, Has, Fields
<1>2. IsBuffer(d)
  BY <1>1 DEF IsBuffer, Has
<1>3. ASSUME Holds(c, from) PROVE Holds(d, from + n)
  <2> SUFFICES ASSUME NEW i \in 0..(c.size - n - 1)
               PROVE  c.buffer[(c.ptr + n) + i] = (from + n) + i
    BY <1>1 DEF Holds, Has
  <2>1. n + i \in 0..(c.size - 1)
    BY DEF IsBuffer
  <2>2. c.buffer[c.ptr + (n + i)] = from + (n + i)
    BY <1>3, <2>1 DEF Holds
  <2> QED BY <2>2 DEF IsBuffer
<1> QED BY <1>1, <1>2, <1>3 DEF Has

(* The size of the packet is kept beside the buffer.                       *)
LEMMA PacketSizeSound ==
  ASSUME NEW c, IsBuffer(c), NEW n \in Nat
  PROVE  LET d == [c EXCEPT !.packet_size = n] IN
         /\ IsBuffer(d)
         /\ d.ptr = c.ptr /\ d.size = c.size /\ d.caller = c.caller
         /\ d.allocation = c.allocation /\ d.memory = c.memory
         /\ d.buffer = c.buffer
BY DEF IsBuffer, Fields

(* After drizzle_close.                                                    *)
LEMMA ClosedSound ==
  ASSUME NEW c, IsBuffer(c)
  PROVE  /\ IsBuffer(Closed(c))
         /\ Closed(c).ptr = 0 /\ Closed(c).size = 0 /\ ~ Closed(c).caller
         /\ Closed(c).allocation = c.allocation /\ Closed(c).memory = c.memory
BY DEF IsBuffer, Fields, Closed

(* And when realloc() fails, the memory is as before, and buffer_allocation *)
(* is not.                                                                 *)
LEMMA NotDoubledSound ==
  ASSUME NEW c, NEW from \in Nat, Sound(c, from)
  PROVE  /\ IsBuffer(NotDoubled(c))
         /\ NotDoubled(c).allocation = 2 * c.allocation
         /\ NotDoubled(c).memory = c.memory
<1>1. IsBuffer(Moved(c)) /\ Moved(c).memory = c.memory
  BY MovedSound DEF Sound
<1>2. c.ptr \in Nat /\ 2 * c.allocation \in Nat \ {0}
  BY DEF Sound, IsBuffer
<1> HIDE DEF Moved
<1> QED BY <1>1, <1>2 DEF NotDoubled, IsBuffer, Fields

----------------------------------------------------------------------------
(* The invariant, in the form its steps show it.                           *)

LEMMA InvariantParts ==
  ASSUME BufferInvariant
  PROVE  /\ IsBuffer(con) /\ con.ptr \in Nat /\ con.size \in Nat
         /\ con.allocation \in Nat \ {0} /\ con.memory \in Nat \ {0}
         /\ consumed \in Nat /\ received \in Nat /\ left \in Nat
         /\ handler # "write" => /\ ~ con.caller
                                 /\ con.ptr + con.size <= con.allocation
         /\ InsideMemory /\ handler \in {"idle", "packet_read", "read", "packet"}
              => Sound(con, consumed) /\ received = consumed + con.size
BY DEF BufferInvariant, BufferTypeOK, IsBuffer, WithinAllocation, BytesInOrder,
       Phases, Sound, InsideMemory

LEMMA InitInvariant ==
  ASSUME Init
  PROVE  BufferInvariant
<1> USE BufferAssumption
<1>1. /\ con.ptr = 0 /\ con.size = 0 /\ con.allocation = DefaultSize
      /\ con.memory = DefaultSize /\ ~ con.caller
  BY DEF Init
<1>2. con.buffer = [i \in 0..(DefaultSize - 1) |-> Junk]
  BY DEF Init
<1>3. IsBuffer(con)
  <2>1. DOMAIN con = Fields
    BY DEF Init, Fields
  <2>2. con.packet_size = 0 /\ con.caller \in BOOLEAN
    BY DEF Init
  <2> QED BY <1>1, <1>2, <2>1, <2>2 DEF IsBuffer, Cells
<1>4. BufferTypeOK
  <2>1. frame \in 0..MaxPayload \cup {Silence}
    BY DEF Init, Frames
  <2>2. /\ handler \in Handlers /\ starved \in BOOLEAN
        /\ left = 0 /\ command = 0 /\ consumed = 0 /\ received = 0
    BY DEF Init, Handlers
  <2> QED BY <1>3, <2>1, <2>2 DEF BufferTypeOK
<1> QED BY <1>1, <1>4 DEF BufferInvariant, WithinAllocation, BytesInOrder, Phases,
              AllocationBounded, Init, Holds

(* A step that leaves the buffer and the stream alone.                     *)
LEMMA SameBuffer ==
  ASSUME BufferInvariant, InsideMemory, UNCHANGED <<con, left, command, consumed, received, starved>>,
         \/ handler = "idle" /\ handler' = "packet_read" /\ frame' = frame
         \/ handler = "packet_read" /\ handler' = "read" /\ con.size < HeaderSize
            /\ frame' = frame
         \/ handler = "packet" /\ handler' = "idle"
            /\ frame' \in Frames(consumed, con.size)
  PROVE  BufferInvariant'
<1> USE BufferAssumption
<1>1. BufferTypeOK'
  BY DEF BufferInvariant, BufferTypeOK, Frames, Silence, Handlers
<1>2. WithinAllocation' /\ AllocationBounded'
  BY DEF BufferInvariant, WithinAllocation, AllocationBounded
<1>3. BytesInOrder'
  BY DEF BufferInvariant, BytesInOrder, InsideMemory
<1>4. Phases'
  BY DEF BufferInvariant, Phases, BufferTypeOK, IsBuffer
<1> QED BY <1>1, <1>2, <1>3, <1>4 DEF BufferInvariant
LEMMA BodyMissingKeeps ==
  ASSUME BufferInvariant, InsideMemory, BodyMissing
  PROVE  BufferInvariant'
<1> USE BufferAssumption
<1>1. PICK n \in Byte3(con) : /\ con.size < n + HeaderSize
                              /\ con' = [con EXCEPT !.packet_size = n]
  BY DEF BodyMissing
<1>2. n \in 0..MaxPayload
  BY DEF Byte3
<1>3. /\ IsBuffer(con')
      /\ con'.ptr = con.ptr /\ con'.size = con.size /\ con'.caller = con.caller
      /\ con'.allocation = con.allocation /\ con'.memory = con.memory
      /\ con'.buffer = con.buffer
  BY <1>1, <1>2, PacketSizeSound DEF BufferInvariant, BufferTypeOK
<1>4. /\ handler = "packet_read" /\ handler' = "read"
      /\ UNCHANGED <<left, command, frame, consumed, received, starved>>
  BY DEF BodyMissing
<1>5. BufferTypeOK'
  BY <1>3, <1>4 DEF BufferInvariant, BufferTypeOK, Handlers
<1>6. WithinAllocation' /\ AllocationBounded'
  BY <1>3 , <1>4 DEF BufferInvariant, WithinAllocation, AllocationBounded
<1>7. BytesInOrder'
  BY <1>3, <1>4 DEF BufferInvariant, BytesInOrder, InsideMemory, Holds
<1>8. Phases'
  BY <1>1, <1>2, <1>3, <1>4 DEF BufferInvariant, Phases, BufferTypeOK, IsBuffer
<1> QED BY <1>5, <1>6, <1>7, <1>8 DEF BufferInvariant

(* A handler that takes n bytes off the buffer.                            *)
LEMMA UsedKeeps ==
  ASSUME BufferInvariant, InsideMemory, NEW c, IsBuffer(c),
         c.ptr = con.ptr, c.size = con.size, c.caller = con.caller,
         c.allocation = con.allocation, c.memory = con.memory,
         c.buffer = con.buffer,
         NEW n \in Nat, n <= con.size, con' = Used(c, n),
         handler \in {"packet_read", "packet"}, handler' = "packet",
         left' \in 0..MaxPayload, left' + n <= con.size,
         consumed' = consumed + n,
         UNCHANGED <<command, frame, received, starved>>
  PROVE  BufferInvariant'
<1> USE BufferAssumption
<1>1. Sound(con, consumed) /\ received = consumed + con.size /\ consumed \in Nat
      /\ con.size \in Nat /\ received \in 0..MaxStream
  BY InvariantParts DEF BufferInvariant, BufferTypeOK
<1>2. Holds(c, consumed)
  BY <1>1 DEF Sound, Holds
<1>3. /\ IsBuffer(con')
      /\ con'.ptr = con.ptr + n /\ con'.size = con.size - n
      /\ con'.allocation = con.allocation /\ con'.memory = con.memory
      /\ con'.caller = con.caller /\ Holds(con', consumed')
  BY <1>1, <1>2, UsedSound
<1>4. BufferTypeOK'
  <2>1. consumed' \in 0..MaxStream
    BY <1>1
  <2> QED BY <1>3, <2>1 DEF BufferInvariant, BufferTypeOK, Handlers
<1>5. WithinAllocation' /\ AllocationBounded'
  <2>1. con.ptr \in Nat /\ con.ptr + con.size <= con.allocation
    BY <1>1 DEF Sound, IsBuffer
  <2>2. con'.ptr + con'.size = con.ptr + con.size
    BY <1>1, <1>3, <2>1
  <2>3. WithinAllocation'
    BY <1>3, <2>1, <2>2 DEF BufferInvariant, WithinAllocation
  <2>4. AllocationBounded'
    BY <1>3 DEF BufferInvariant, AllocationBounded
  <2> QED BY <2>3, <2>4
<1>6. BytesInOrder'
  <2>1. consumed' + con'.size = received'
    BY <1>1, <1>3
  <2>2. left' <= con'.size
    BY <1>1, <1>3
  <2> QED BY <1>3, <2>1, <2>2 DEF BytesInOrder, Holds
<1>7. Phases'
  BY <1>3 DEF BufferInvariant, Phases
<1> QED BY <1>4, <1>5, <1>6, <1>7 DEF BufferInvariant

LEMMA PacketFoundKeeps ==
  ASSUME BufferInvariant, InsideMemory, PacketFound
  PROVE  BufferInvariant'
<1> USE BufferAssumption
<1>1. PICK n \in Byte3(con) :
        /\ con.size >= n + HeaderSize
        /\ con' = Used([con EXCEPT !.packet_size = n], HeaderSize) /\ left' = n
  BY DEF PacketFound
<1> DEFINE c == [con EXCEPT !.packet_size = n]
<1>2. n \in 0..MaxPayload /\ n \in Nat
  BY DEF Byte3
<1>3. IsBuffer(con) /\ con.size \in Nat
  BY InvariantParts
<1>4. /\ IsBuffer(c)
      /\ c.ptr = con.ptr /\ c.size = con.size /\ c.caller = con.caller
      /\ c.allocation = con.allocation /\ c.memory = con.memory
      /\ c.buffer = con.buffer
  BY <1>2, <1>3, PacketSizeSound
<1> HIDE DEF c
<1>5. con' = Used(c, HeaderSize)
  BY <1>1 DEF c
<1>6. HeaderSize <= con.size /\ left' + HeaderSize <= con.size /\ left' \in 0..MaxPayload
  BY <1>1, <1>2, <1>3
<1> QED BY <1>4, <1>5, <1>6, UsedKeeps DEF PacketFound

LEMMA UsePacketKeeps ==
  ASSUME BufferInvariant, InsideMemory, UsePacket
  PROVE  BufferInvariant'
<1>1. PICK n \in 1..left : /\ con' = Used(con, n) /\ left' = left - n
                           /\ consumed' = consumed + n
  BY DEF UsePacket
<1>2. IsBuffer(con) /\ con.size \in Nat /\ left \in 0..MaxPayload /\ left <= con.size
  BY InvariantParts DEF BufferInvariant, BufferTypeOK, BytesInOrder, UsePacket
<1>3. n \in Nat /\ n <= con.size /\ left' \in 0..MaxPayload /\ left' + n <= con.size
  BY <1>1, <1>2, BufferAssumption
<1> QED BY <1>1, <1>2, <1>3, UsedKeeps DEF UsePacket
----------------------------------------------------------------------------
(* drizzle_state_read.                                                     *)

(* It is entered with less than a packet in the buffer: when there is no   *)
(* room left, twice a packet is as much as there can be.                   *)
LEMMA NoRoomMeansSmall ==
  ASSUME NEW c, IsBuffer(c), NEW bound \in Nat,
         c.size < bound, Available(Compacted(c)) = 0
  PROVE  c.allocation < 2 * bound
<1> DEFINE d == Compacted(c)
<1>1. /\ d.size = c.size /\ d.allocation = c.allocation
      /\ d.ptr \in Nat /\ d.ptr <= c.allocation \div 2
  <2>1. c.ptr \in Nat /\ 0 <= c.allocation \div 2 /\ c.allocation \div 2 \in Nat
    BY DEF IsBuffer
  <2>2. CASE c.size = 0
    BY <2>1, <2>2 DEF Compacted, IsBuffer, Fields
  <2>3. CASE c.size # 0 /\ c.ptr > c.allocation \div 2
    <3>1. d = Moved(c)
      BY <2>3 DEF Compacted
    <3>2. Moved(c).size = c.size /\ Moved(c).allocation = c.allocation
          /\ Moved(c).ptr = 0
      BY DEF Moved, IsBuffer, Fields
    <3> QED BY <2>1, <3>1, <3>2
  <2>4. CASE c.size # 0 /\ ~ (c.ptr > c.allocation \div 2)
    <3>1. d = c
      BY <2>4 DEF Compacted
    <3> QED BY <2>1, <2>4, <3>1
  <2> QED BY <2>2, <2>3, <2>4
<1> HIDE DEF d
<1>2. d.ptr \in Nat /\ c.size \in Nat /\ c.allocation \in Nat
  BY <1>1 DEF IsBuffer
<1>3. c.allocation = d.ptr + c.size
  BY <1>1, <1>2 DEF Available, d
<1>4. 2 * (c.allocation \div 2) <= c.allocation
  BY <1>2
<1> QED BY <1>1, <1>2, <1>3, <1>4

(* The buffer after a piece of a packet came.                              *)
LEMMA ReceiveKeeps ==
  ASSUME BufferInvariant, InsideMemory, handler = "read",
         NEW c, Sound(c, consumed), c.size = con.size, ~ c.caller,
         c.allocation >= con.allocation,
         \/ c.allocation = con.allocation
         \/ c.allocation < 4 * (HeaderSize + MaxPayload),
         starved \/ c.allocation = c.memory,
         NEW n \in Nat, Receive(c, n)
  PROVE  BufferInvariant'
<1> USE BufferAssumption
<1>1. /\ received = consumed + con.size /\ consumed \in Nat /\ con.size \in Nat
      /\ received \in 0..MaxStream /\ IsBuffer(c)
  BY InvariantParts DEF BufferInvariant, BufferTypeOK, Sound
<1>2. /\ n <= Available(c) /\ received + n <= MaxStream
      /\ con' = Received(c, n) /\ received' = received + n
      /\ handler' = IF n = 0 THEN "read" ELSE "packet_read"
      /\ UNCHANGED <<left, command, frame, consumed, starved>>
  BY DEF Receive
<1>3. Coming(c, consumed, n) /\ HoldsInside(c, consumed)
  BY <1>1, <1>2 DEF Coming, HoldsInside, Sound
<1>4. /\ IsBuffer(con')
      /\ con'.ptr = c.ptr /\ con'.size = c.size + n
      /\ con'.allocation = c.allocation /\ con'.memory = c.memory
      /\ con'.caller = c.caller /\ con'.ptr + con'.size <= c.allocation
      /\ HoldsInside(con', consumed)
  BY <1>1, <1>2, <1>3, ReceivedSound
<1>5. BufferTypeOK'
  <2>1. received' \in 0..MaxStream
    BY <1>1, <1>2
  <2> QED BY <1>2, <1>4, <2>1 DEF BufferInvariant, BufferTypeOK, Handlers
<1>6. WithinAllocation'
  BY <1>2, <1>4 DEF WithinAllocation
<1>7. AllocationBounded'
  <2>1. c.allocation \in Nat /\ con.allocation \in Nat
    BY <1>1, InvariantParts DEF IsBuffer
  <2> QED BY <1>4, <2>1 DEF BufferInvariant, AllocationBounded
<1>8. BytesInOrder'
  <2>1. consumed' + con'.size = received'
    BY <1>1, <1>2, <1>4
  <2>2. InsideMemory' => Holds(con', consumed')
    BY <1>2, <1>4 DEF InsideMemory, HoldsInside
  <2>3. handler' # "packet"
    BY <1>2
  <2> QED BY <2>1, <2>2, <2>3 DEF BytesInOrder, Holds
<1>9. Phases'
  <2>1. n = 0 => con'.size < HeaderSize + MaxPayload
    BY <1>1, <1>4 DEF BufferInvariant, Phases
  <2> QED BY <1>2, <1>4, <2>1 DEF Phases
<1> QED BY <1>5, <1>6, <1>7, <1>8, <1>9 DEF BufferInvariant

LEMMA ReadKeeps ==
  ASSUME BufferInvariant, InsideMemory, NEW n \in Nat, ReadInRoom(n) \/ ReadInMore(n)
  PROVE  BufferInvariant'
<1> USE BufferAssumption
<1> DEFINE c == Compacted(con)
<1>1. handler = "read" /\ Sound(con, consumed) /\ consumed \in Nat /\ ~ con.caller
  BY InvariantParts DEF ReadInRoom, ReadInMore
<1>2. /\ Sound(c, consumed) /\ c.size = con.size /\ c.caller = con.caller
      /\ c.allocation = con.allocation /\ c.memory = con.memory
  BY <1>1, CompactedSound DEF SameData
<1>3. starved \/ con.allocation = con.memory
  BY DEF BufferInvariant, WithinAllocation
<1> HIDE DEF c
<1>4. CASE ReadInRoom(n)
  <2>1. Receive(c, n)
    BY <1>4 DEF ReadInRoom, c
  <2>2. c.allocation >= con.allocation /\ ~ c.caller
    BY <1>1, <1>2 DEF Sound, IsBuffer
  <2> QED BY <1>1, <1>2, <1>3, <2>1, <2>2, ReceiveKeeps
<1>5. CASE ReadInMore(n)
  <2> DEFINE d == Doubled(c)
  <2>1. /\ Sound(d, consumed) /\ d.size = c.size /\ d.caller = c.caller
        /\ d.allocation = 2 * c.allocation /\ d.memory = 2 * c.allocation
    BY <1>1, <1>2, DoubledSound DEF SameData
  <2> HIDE DEF d
  <2>2. con.size < HeaderSize + MaxPayload /\ Available(Compacted(con)) = 0
    BY <1>1, <1>5 DEF BufferInvariant, Phases, ReadInMore
  <2>3. HeaderSize + MaxPayload \in Nat
    OBVIOUS
  <2>4. con.allocation < 2 * (HeaderSize + MaxPayload)
    BY <1>1, <2>2, <2>3, NoRoomMeansSmall DEF Sound
  <2>5. con.allocation \in Nat
    BY <1>1 DEF Sound, IsBuffer
  <2>6. d.allocation < 4 * (HeaderSize + MaxPayload)
    BY <1>2, <2>1, <2>4, <2>5
  <2>7. Receive(d, n)
    BY <1>5 DEF ReadInMore, c, d
  <2>8. d.allocation >= con.allocation
    BY <1>2, <2>1, <2>5
  <2> QED BY <1>1, <1>2, <2>1, <2>6, <2>7, <2>8, ReceiveKeeps
<1> QED BY <1>4, <1>5

LEMMA ReadWaitsKeeps ==
  ASSUME BufferInvariant, InsideMemory, ReadWaits
  PROVE  BufferInvariant'
<1> USE BufferAssumption
<1>1. /\ handler = "read" /\ con' = Compacted(con)
      /\ UNCHANGED <<handler, left, command, frame, consumed, received, starved>>
  BY DEF ReadWaits
<1>2. Sound(con, consumed) /\ consumed \in Nat /\ ~ con.caller
  BY <1>1, InvariantParts
<1>3. /\ Sound(con', consumed) /\ con'.size = con.size /\ con'.caller = con.caller
      /\ con'.allocation = con.allocation /\ con'.memory = con.memory
  BY <1>1, <1>2, CompactedSound DEF SameData
<1>4. BufferTypeOK'
  BY <1>1, <1>3 DEF BufferInvariant, BufferTypeOK, Sound
<1>5. WithinAllocation' /\ AllocationBounded'
  BY <1>1, <1>3 DEF BufferInvariant, WithinAllocation, AllocationBounded, Sound
<1>6. BytesInOrder'
  BY <1>1, <1>3 DEF BufferInvariant, BytesInOrder, Sound, Holds
<1>7. Phases'
  BY <1>1, <1>3 DEF BufferInvariant, Phases
<1> QED BY <1>4, <1>5, <1>6, <1>7 DEF BufferInvariant
----------------------------------------------------------------------------
(* The end of a connection, and commands.                                  *)

LEMMA AgainKeeps ==
  ASSUME BufferInvariant, NEW c, IsBuffer(c), c.memory = con.memory,
         c.allocation >= con.allocation,
         c.allocation = con.allocation \/ c.allocation < 4 * (HeaderSize + MaxPayload),
         received < MaxStream, Again(c),
         starved' \in BOOLEAN, starved' \/ c.allocation = c.memory
  PROVE  BufferInvariant'
<1> USE BufferAssumption
<1>1. /\ con' = Closed(c) /\ handler' = "idle" /\ left' = 0 /\ command' = 0
      /\ received' = received + 1 /\ consumed' = received + 1
      /\ frame' \in Frames(received + 1, 0)
  BY DEF Again
<1>2. /\ IsBuffer(con')
      /\ con'.ptr = 0 /\ con'.size = 0 /\ ~ con'.caller
      /\ con'.allocation = c.allocation /\ con'.memory = c.memory
  BY <1>1, ClosedSound
<1>3. BufferTypeOK'
  <2>1. frame' \in 0..MaxPayload \cup {Silence}
    BY <1>1 DEF Frames
  <2>2. received + 1 \in 0..MaxStream
    BY DEF BufferInvariant, BufferTypeOK
  <2> QED BY <1>1, <1>2, <2>1, <2>2 DEF BufferTypeOK, Handlers
<1>4. WithinAllocation' /\ AllocationBounded'
  <2>1. c.allocation \in Nat /\ con.allocation \in Nat
    BY InvariantParts DEF IsBuffer
  <2> QED BY <1>2, <2>1 DEF BufferInvariant, WithinAllocation, AllocationBounded
<1>5. BytesInOrder'
  <2>1. consumed' + con'.size = received'
    BY <1>1, <1>2 DEF BufferInvariant, BufferTypeOK
  <2>2. Holds(con, consumed)'
    BY <1>2 DEF Holds
  <2> QED BY <1>1, <2>1, <2>2 DEF BytesInOrder
<1>6. Phases'
  BY <1>1, <1>2 DEF Phases
<1> QED BY <1>3, <1>4, <1>5, <1>6 DEF BufferInvariant

LEMMA NoMoreRoomKeeps ==
  ASSUME BufferInvariant, InsideMemory, NoMoreRoom
  PROVE  BufferInvariant'
<1> USE BufferAssumption
<1> DEFINE c == Compacted(con)
<1>1. handler = "read" /\ Sound(con, consumed) /\ consumed \in Nat
  BY InvariantParts DEF NoMoreRoom
<1>2. Sound(c, consumed) /\ c.allocation = con.allocation /\ c.memory = con.memory
  BY <1>1, CompactedSound DEF SameData
<1>3. /\ con.allocation \in Nat /\ starved \in BOOLEAN
      /\ starved \/ con.allocation = con.memory
  BY <1>1 DEF BufferInvariant, WithinAllocation, BufferTypeOK, Sound, IsBuffer
<1>4. received < MaxStream /\ starved' = (starved \/ con.allocation < MaxSize)
  BY DEF NoMoreRoom
<1> HIDE DEF c
<1>5. CASE con.allocation < MaxSize
  <2> DEFINE d == NotDoubled(c)
  <2>1. IsBuffer(d) /\ d.allocation = 2 * c.allocation /\ d.memory = c.memory
    BY <1>1, <1>2, NotDoubledSound
  <2> HIDE DEF d
  <2>2. con.size < HeaderSize + MaxPayload /\ Available(Compacted(con)) = 0
    BY <1>1 DEF BufferInvariant, Phases, NoMoreRoom
  <2>3. HeaderSize + MaxPayload \in Nat
    OBVIOUS
  <2>4. con.allocation < 2 * (HeaderSize + MaxPayload)
    BY <1>1, <2>2, <2>3, NoRoomMeansSmall DEF Sound
  <2>5. d.allocation < 4 * (HeaderSize + MaxPayload)
    BY <1>2, <1>3, <2>1, <2>4
  <2>6. Again(d)
    BY <1>5 DEF NoMoreRoom, c, d
  <2>7. starved' = TRUE
    BY <1>3, <1>4, <1>5
  <2>8. d.allocation >= con.allocation
    BY <1>2, <1>3, <2>1
  <2> QED BY <1>2, <1>4, <2>1, <2>5, <2>6, <2>7, <2>8, AgainKeeps
<1>6. CASE ~ (con.allocation < MaxSize)
  <2>1. Again(c)
    BY <1>6 DEF NoMoreRoom, c
  <2>2. starved' = starved
    BY <1>3, <1>4, <1>6
  <2>3. IsBuffer(c) /\ c.allocation >= con.allocation
    BY <1>2, <1>3 DEF Sound
  <2> QED BY <1>2, <1>3, <1>4, <2>1, <2>2, <2>3, AgainKeeps
<1> QED BY <1>5, <1>6

LEMMA LoseKeeps ==
  ASSUME BufferInvariant, Lose
  PROVE  BufferInvariant'
<1>1. /\ IsBuffer(con) /\ starved \in BOOLEAN
      /\ starved \/ con.allocation = con.memory
      /\ con.allocation >= con.allocation
  BY DEF BufferInvariant, BufferTypeOK, WithinAllocation, IsBuffer
<1> QED BY <1>1, AgainKeeps DEF Lose

LEMMA StartCommandKeeps ==
  ASSUME BufferInvariant, InsideMemory, StartCommand
  PROVE  BufferInvariant'
<1> USE BufferAssumption
<1>1. PICK total \in 0..MaxCommand :
        /\ con' = [con EXCEPT !.ptr = 0, !.size = Head + Fitting(total),
             !.packet_size = 1 + total,
             !.buffer = [i \in 0..(con.memory - 1) |->
                IF i < Head + Fitting(total) THEN Outbound ELSE con.buffer[i]]]
        /\ command' = total - Fitting(total)
  BY DEF StartCommand
<1>2. /\ handler = "idle" /\ con.size = 0 /\ handler' = "write"
      /\ UNCHANGED <<left, frame, consumed, received, starved>>
  BY DEF StartCommand
<1>3. IsBuffer(con) /\ con.allocation \in Nat /\ ~ con.caller
  BY <1>2, InvariantParts
<1>4. con.allocation >= Head
  BY <1>3 DEF BufferInvariant, AllocationBounded, Head
<1> DEFINE filled == Head + Fitting(total)
           f == [i \in 0..(con.memory - 1) |->
                   IF i < filled THEN Outbound ELSE con.buffer[i]]
<1>5. /\ Fitting(total) \in Nat /\ Fitting(total) <= total
      /\ filled \in Nat /\ filled <= con.allocation
  BY <1>3, <1>4 DEF Fitting, Head
<1>6. con.buffer \in [0..(con.memory - 1) -> Cells] /\ con.memory \in Nat \ {0}
  BY <1>3 DEF IsBuffer
<1>7. f \in [0..(con.memory - 1) -> Cells]
  BY <1>6 DEF Cells
<1> HIDE DEF f, filled
<1>8. Has(con', f, con.memory, con.allocation, 0, filled, 1 + total, con.caller)
  BY <1>1, <1>3 DEF IsBuffer, Has, Fields, f, filled
<1>9. IsBuffer(con')
  BY <1>3, <1>5, <1>7, <1>8 DEF IsBuffer, Has
<1>10. BufferTypeOK'
  <2>1. command' \in 0..MaxCommand
    BY <1>1, <1>5
  <2> QED BY <1>2, <1>9, <2>1 DEF BufferInvariant, BufferTypeOK, Handlers
<1>11. WithinAllocation' /\ AllocationBounded'
  BY <1>2, <1>3, <1>5, <1>8
  DEF BufferInvariant, WithinAllocation, AllocationBounded, Has
<1>12. BytesInOrder'
  BY <1>2 DEF BytesInOrder
<1>13. Phases'
  <2>1. consumed' = received'
    BY <1>2 DEF BufferInvariant, BytesInOrder, BufferTypeOK
  <2> QED BY <1>2, <2>1 DEF Phases
<1> QED BY <1>10, <1>11, <1>12, <1>13 DEF BufferInvariant

LEMMA ContinueCommandKeeps ==
  ASSUME BufferInvariant, ContinueCommand
  PROVE  BufferInvariant'
<1> USE BufferAssumption
<1>1. /\ handler = "command" /\ handler' = "write" /\ command' = 0
      /\ con' = [con EXCEPT !.ptr = 0, !.size = command, !.caller = TRUE]
      /\ UNCHANGED <<left, frame, consumed, received, starved>>
  BY DEF ContinueCommand
<1>2. IsBuffer(con) /\ command \in 0..MaxCommand
  BY DEF BufferInvariant, BufferTypeOK
<1>3. /\ IsBuffer(con') /\ con'.caller
      /\ con'.allocation = con.allocation /\ con'.memory = con.memory
  BY <1>1, <1>2 DEF IsBuffer, Fields
<1>4. BufferTypeOK'
  BY <1>1, <1>3 DEF BufferInvariant, BufferTypeOK, Handlers
<1>5. WithinAllocation' /\ AllocationBounded'
  BY <1>1, <1>3 DEF BufferInvariant, WithinAllocation, AllocationBounded
<1>6. BytesInOrder'
  BY <1>1 DEF BytesInOrder
<1>7. Phases'
  BY <1>1 DEF BufferInvariant, Phases
<1> QED BY <1>4, <1>5, <1>6, <1>7 DEF BufferInvariant

LEMMA WriteKeeps ==
  ASSUME BufferInvariant, Write
  PROVE  BufferInvariant'
<1> USE BufferAssumption
<1>1. /\ handler = "write"
      /\ UNCHANGED <<left, command, consumed, received, starved>>
  BY DEF Write
<1>2. PICK n \in 1..con.size :
        IF n < con.size
        THEN con' = Used(con, n) /\ UNCHANGED <<handler, frame>>
        ELSE /\ con' = Sent(Used(con, n))
             /\ IF command > 0 THEN handler' = "command" /\ UNCHANGED frame
                ELSE handler' = "idle" /\ frame' \in Frames(consumed, 0)
  BY DEF Write
<1> DEFINE u == Used(con, n)
<1>3. /\ IsBuffer(con) /\ con.size \in Nat /\ con.ptr \in Nat /\ n \in Nat
      /\ n <= con.size /\ consumed \in Nat /\ consumed = received
  BY <1>1, InvariantParts DEF BufferInvariant, Phases
<1>4. /\ IsBuffer(u) /\ u.ptr = con.ptr + n /\ u.size = con.size - n
      /\ u.allocation = con.allocation /\ u.memory = con.memory
      /\ u.caller = con.caller
  BY <1>3, UsedSound
<1> HIDE DEF u
<1>5. CASE n < con.size
  <2>1. con' = u /\ UNCHANGED <<handler, frame>>
    BY <1>2, <1>5 DEF u
  <2>2. BufferTypeOK'
    BY <1>1, <1>4, <2>1 DEF BufferInvariant, BufferTypeOK
  <2>3. u.ptr + u.size = con.ptr + con.size
    BY <1>3, <1>4
  <2>4. WithinAllocation' /\ AllocationBounded'
    BY <1>1, <1>4, <2>1, <2>3 DEF BufferInvariant, WithinAllocation, AllocationBounded
  <2>5. BytesInOrder'
    BY <1>1, <2>1 DEF BytesInOrder
  <2>6. Phases'
    BY <1>1, <2>1 DEF BufferInvariant, Phases
  <2> QED BY <2>2, <2>4, <2>5, <2>6 DEF BufferInvariant
<1>6. CASE ~ (n < con.size)
  <2>1. /\ con' = Sent(u)
        /\ IF command > 0 THEN handler' = "command" /\ UNCHANGED frame
           ELSE handler' = "idle" /\ frame' \in Frames(consumed, 0)
    BY <1>2, <1>6 DEF u
  <2>2. u.size = 0
    BY <1>3, <1>4, <1>6
  <2>3. /\ IsBuffer(con') /\ con'.ptr = 0 /\ con'.size = 0 /\ ~ con'.caller
        /\ con'.allocation = con.allocation /\ con'.memory = con.memory
    BY <1>4, <2>1, <2>2 DEF Sent, IsBuffer, Fields
  <2>4. frame' \in 0..MaxPayload \cup {Silence}
    BY <2>1 DEF BufferInvariant, BufferTypeOK, Frames
  <2>5. BufferTypeOK'
    BY <1>1, <2>1, <2>3, <2>4 DEF BufferInvariant, BufferTypeOK, Handlers
  <2>6. WithinAllocation' /\ AllocationBounded'
    BY <1>1, <2>3 DEF BufferInvariant, WithinAllocation, AllocationBounded, IsBuffer
  <2>7. BytesInOrder'
    <3>1. consumed' + con'.size = received'
      BY <1>1, <1>3, <2>3
    <3>2. handler' # "packet"
      BY <2>1
    <3>3. Holds(con, consumed)'
      BY <2>3 DEF Holds
    <3> QED BY <3>1, <3>2, <3>3 DEF BytesInOrder
  <2>8. Phases'
    BY <1>1, <1>3, <2>1, <2>3 DEF Phases
  <2> QED BY <2>5, <2>6, <2>7, <2>8 DEF BufferInvariant
<1> QED BY <1>5, <1>6

----------------------------------------------------------------------------
(* BufferInvariant is an invariant.                                        *)

LEMMA NextInvariant ==
  ASSUME BufferInvariant, [Next]_vars
  PROVE  BufferInvariant'
<1> USE BufferAssumption
<1>1. CASE UNCHANGED vars
  BY <1>1 DEF vars, BufferInvariant, BufferTypeOK, WithinAllocation, BytesInOrder,
    Phases, AllocationBounded, Holds, InsideMemory
<1>2. CASE Next
  <2>1. InsideMemory
    BY <1>2 DEF Next
  <2>2. CASE Packets
    <3>1. CASE ReadPacket \/ HeaderMissing \/ PacketUsed
      BY <2>1, <3>1, SameBuffer DEF ReadPacket, HeaderMissing, PacketUsed
    <3> QED BY <2>1, <2>2, <3>1, BodyMissingKeeps, PacketFoundKeeps, UsePacketKeeps
            DEF Packets
  <2>3. CASE Idles
    <3>1. 0 \in Nat
      OBVIOUS
    <3> QED BY <2>1, <2>3, <3>1, ReadKeeps, ReadWaitsKeeps DEF Idles
  <2>4. CASE Arrives
    <3>1. PICK n \in 1..MaxStream : ReadInRoom(n) \/ ReadInMore(n)
      BY <2>4 DEF Arrives
    <3>2. n \in Nat
      OBVIOUS
    <3> QED BY <2>1, <3>1, <3>2, ReadKeeps
  <2>5. CASE Commands
    BY <2>1, <2>5, StartCommandKeeps, ContinueCommandKeeps, WriteKeeps DEF Commands
  <2>6. CASE Fails
    BY <2>1, <2>6, NoMoreRoomKeeps, LoseKeeps DEF Fails
  <2> QED BY <1>2, <2>2, <2>3, <2>4, <2>5, <2>6 DEF Next
<1> QED BY <1>1, <1>2

(* The buffer always is as drizzle_state_read needs it.                    *)
THEOREM BufferIsInvariant == Spec => []BufferInvariant
BY InitInvariant, NextInvariant, PTL DEF Spec

(* The types of what a connection keeps of its buffer.                     *)
THEOREM BufferTypeCorrect == Spec => []BufferTypeOK
<1>1. BufferInvariant => BufferTypeOK
  BY DEF BufferInvariant
<1> QED BY <1>1, BufferIsInvariant, PTL

(* buffer_ptr + buffer_size never passes buffer_allocation, which is the   *)
(* memory there is unless realloc() failed.                                *)
THEOREM BufferStaysWithin == Spec => []WithinAllocation
<1>1. BufferInvariant => WithinAllocation
  BY DEF BufferInvariant
<1> QED BY <1>1, BufferIsInvariant, PTL

(* What handlers read is what the server sent, in order, over every move,  *)
(* growth, command and connection.                                         *)
THEOREM BytesStayInOrder == Spec => []BytesInOrder
<1>1. BufferInvariant => BytesInOrder
  BY DEF BufferInvariant
<1> QED BY <1>1, BufferIsInvariant, PTL

(* The buffer doubles only while it is smaller than two packets.           *)
THEOREM GrowthStaysBounded == Spec => []GrowthBounded
<1>1. BufferInvariant => GrowthBounded
  <2> SUFFICES ASSUME BufferInvariant, handler = "read",
                      Available(Compacted(con)) = 0
               PROVE  con.allocation < 2 * (HeaderSize + MaxPayload)
    BY DEF GrowthBounded
  <2>1. con.size < HeaderSize + MaxPayload /\ HeaderSize + MaxPayload \in Nat
    BY BufferAssumption DEF BufferInvariant, Phases
  <2> QED BY <2>1, InvariantParts, NoRoomMeansSmall
<1> QED BY <1>1, BufferIsInvariant, PTL

----------------------------------------------------------------------------
(* The buffer implements the stream of packets that the handlers are       *)
(* written against: every step of DrizzleBuffer is a step of DrizzleStream *)
(* or leaves it as it is.                                                  *)

(* Whoever does not have a packet sees nothing.                            *)
LEMMA NothingVisible ==
  /\ handler # "packet" => Visible = [i \in {} |-> con.buffer[con.ptr + i]]
  /\ handler # "packet" => DOMAIN Visible = {}
<1>1. 0..(0 - 1) = {}
  OBVIOUS
<1> QED BY <1>1 DEF Visible

LEMMA NothingVisibleNext ==
  ASSUME handler' # "packet"
  PROVE  DOMAIN Visible' = {}
<1>1. 0..(0 - 1) = {}
  OBVIOUS
<1> QED BY <1>1 DEF Visible

LEMMA StillNothing ==
  ASSUME handler # "packet", handler' # "packet"
  PROVE  Visible' = Visible
<1>1. 0..(0 - 1) = {}
  OBVIOUS
<1> QED BY <1>1 DEF Visible

LEMMA InitImplements == Init => Stream!Init
<1> SUFFICES ASSUME Init
             PROVE  Stream!Init
  OBVIOUS
<1>1. handler = "idle" /\ consumed = 0
  BY DEF Init
<1>2. Visible = [i \in {} |-> consumed]
  <2>1. 0..(0 - 1) = {}
    OBVIOUS
  <2> QED BY <1>1, <2>1 DEF Visible
<1> QED BY <1>1, <1>2 DEF Stream!Init, Stream!Nothing, Reader

(* The whole packet is there, as it was sent.                              *)
LEMMA DeliverImplements ==
  ASSUME BufferInvariant, InsideMemory, PacketFound
  PROVE  Stream!Deliver
<1> USE BufferAssumption
<1>1. PICK n \in Byte3(con) :
        /\ con.size >= n + HeaderSize
        /\ con' = Used([con EXCEPT !.packet_size = n], HeaderSize) /\ left' = n
  BY DEF PacketFound
<1>2. n \in 0..MaxPayload /\ n \in Nat
  BY DEF Byte3
<1>3. IsBuffer(con) /\ con.size \in Nat /\ con.ptr \in Nat /\ consumed \in Nat
      /\ Holds(con, consumed)
  BY InvariantParts DEF PacketFound, Sound
<1>4. con'.buffer = con.buffer /\ con'.ptr = con.ptr + HeaderSize
  <2>1. DOMAIN con = Fields
    BY <1>3 DEF IsBuffer
  <2> QED BY <1>1, <2>1 DEF Used, Fields
<1>5. handler' = "packet" /\ consumed' = consumed + HeaderSize /\ Reader = "waiting"
      /\ Reader' = "packet"
  BY DEF PacketFound, Reader
<1>6. Visible' = [i \in 0..(n - 1) |-> consumed + HeaderSize + i]
  <2>1. Visible' = [i \in 0..(n - 1) |-> con.buffer[con.ptr + HeaderSize + i]]
    BY <1>1, <1>4, <1>5 DEF Visible
  <2>2. \A i \in 0..(n - 1) :
          con.buffer[con.ptr + HeaderSize + i] = consumed + HeaderSize + i
    <3> TAKE i \in 0..(n - 1)
    <3>1. HeaderSize + i \in 0..(con.size - 1)
      BY <1>1, <1>2, <1>3
    <3>2. con.buffer[con.ptr + (HeaderSize + i)] = consumed + (HeaderSize + i)
      BY <1>3, <3>1 DEF Holds
    <3>3. con.ptr + (HeaderSize + i) = con.ptr + HeaderSize + i
          /\ consumed + (HeaderSize + i) = consumed + HeaderSize + i
      BY <1>3
    <3> QED BY <3>2, <3>3
  <2> QED BY <2>1, <2>2
<1> QED BY <1>2, <1>5, <1>6 DEF Stream!Deliver, Stream!Rest

(* Its handler takes it from the front.                                    *)
LEMMA UseImplements ==
  ASSUME BufferInvariant, InsideMemory, UsePacket
  PROVE  Stream!Use
<1>1. PICK n \in 1..left : /\ con' = Used(con, n) /\ left' = left - n
                           /\ consumed' = consumed + n
  BY DEF UsePacket
<1>2. IsBuffer(con) /\ con.ptr \in Nat /\ left \in 1..MaxPayload
  BY InvariantParts DEF BufferInvariant, BufferTypeOK, UsePacket
<1>3. con'.buffer = con.buffer /\ con'.ptr = con.ptr + n
  <2>1. DOMAIN con = Fields
    BY <1>2 DEF IsBuffer
  <2> QED BY <1>1, <2>1 DEF Used, Fields
<1>4. handler = "packet" /\ handler' = "packet"
  BY DEF UsePacket
<1>5. Visible = [i \in 0..(left - 1) |-> con.buffer[con.ptr + i]]
  BY <1>4 DEF Visible
<1>6. Visible' = [i \in 0..(left - n - 1) |-> Visible[i + n]]
  <2>1. Visible' = [i \in 0..(left - n - 1) |-> con.buffer[con.ptr + n + i]]
    BY <1>1, <1>3, <1>4 DEF Visible
  <2>2. \A i \in 0..(left - n - 1) : Visible[i + n] = con.buffer[con.ptr + n + i]
    <3> TAKE i \in 0..(left - n - 1)
    <3>1. i + n \in 0..(left - 1) /\ con.ptr + (i + n) = con.ptr + n + i
      BY <1>1, <1>2
    <3> QED BY <1>5, <3>1
  <2> QED BY <2>1, <2>2
<1>7. DOMAIN Visible = 0..(left - 1)
  BY <1>5
<1> QED BY <1>1, <1>2, <1>4, <1>6, <1>7 DEF Stream!Use, Stream!Take, Reader

LEMMA FinishImplements ==
  ASSUME BufferInvariant, PacketUsed
  PROVE  Stream!Finish
<1>1. handler = "packet" /\ left = 0 /\ handler' = "idle" /\ consumed' = consumed
      /\ con' = con
  BY DEF PacketUsed
<1>2. 0..(0 - 1) = {}
  OBVIOUS
<1>3. Visible = [i \in {} |-> con.buffer[con.ptr + i]]
  BY <1>1, <1>2 DEF Visible
<1>4. Visible' = [i \in {} |-> con.buffer[con.ptr + i]]
  BY <1>1, <1>2 DEF Visible
<1> QED BY <1>1, <1>3, <1>4 DEF Stream!Finish, Reader

(* Commands leave the stream where it is.                                  *)
LEMMA CommandsImplement ==
  ASSUME BufferInvariant, Commands
  PROVE  Stream!Command \/ Stream!CommandSent \/ UNCHANGED Stream!streamVars
<1>1. CASE StartCommand
  <2>1. handler = "idle" /\ handler' = "write" /\ consumed' = consumed
    BY <1>1 DEF StartCommand
  <2> QED BY <2>1, StillNothing DEF Stream!Command, Reader
<1>2. CASE ContinueCommand
  <2>1. handler = "command" /\ handler' = "write" /\ consumed' = consumed
    BY <1>2 DEF ContinueCommand
  <2> QED BY <2>1, StillNothing DEF Stream!streamVars, Reader
<1>3. CASE Write
  <2>1. handler = "write" /\ consumed' = consumed
        /\ handler' \in {"write", "command", "idle"}
    BY <1>3 DEF Write
  <2> QED BY <2>1, StillNothing DEF Stream!CommandSent, Stream!streamVars, Reader
<1> QED BY <1>1, <1>2, <1>3 DEF Commands

(* A lost connection loses what was not read of it.                        *)
LEMMA AgainImplements ==
  ASSUME BufferInvariant, NEW c, Again(c)
  PROVE  Stream!Lose
<1>1. consumed \in Nat /\ received \in Nat /\ consumed <= received
  <2>1. consumed \in Nat /\ received \in Nat /\ con.size \in Nat
    BY InvariantParts
  <2>2. CASE handler \in {"command", "write"}
    BY <2>1, <2>2 DEF BufferInvariant, Phases
  <2>3. CASE handler \in {"idle", "packet_read", "read", "packet"}
    BY <2>1, <2>3 DEF BufferInvariant, BytesInOrder
  <2> QED BY <2>2, <2>3 DEF BufferInvariant, BufferTypeOK, Handlers
<1>2. handler' = "idle" /\ consumed' = received + 1
  BY DEF Again
<1> QED BY <1>1, <1>2, NothingVisibleNext DEF Stream!Lose, Reader

(* What arrives in the buffer is not seen by a handler.                    *)
LEMMA ReadsImplement ==
  ASSUME BufferInvariant, NEW n, ReadWaits \/ ReadInRoom(n) \/ ReadInMore(n)
  PROVE  UNCHANGED Stream!streamVars
<1>1. handler = "read" /\ consumed' = consumed /\ handler' \in {"read", "packet_read"}
  BY DEF ReadWaits, ReadInRoom, ReadInMore, Receive
<1> QED BY <1>1, StillNothing DEF Stream!streamVars, Reader

LEMMA PacketsImplement ==
  ASSUME BufferInvariant, InsideMemory, Packets
  PROVE  Stream!Next \/ UNCHANGED Stream!streamVars
<1>1. CASE ReadPacket
  <2>1. handler = "idle" /\ handler' = "packet_read" /\ consumed' = consumed
    BY <1>1 DEF ReadPacket
  <2> QED BY <2>1, StillNothing DEF Stream!Ask, Stream!Next, Reader
<1>2. CASE HeaderMissing \/ BodyMissing
  <2>1. handler = "packet_read" /\ handler' = "read" /\ consumed' = consumed
    BY <1>2 DEF HeaderMissing, BodyMissing
  <2> QED BY <2>1, StillNothing DEF Stream!streamVars, Reader
<1>3. CASE PacketFound
  BY <1>3, DeliverImplements DEF Stream!Next
<1>4. CASE UsePacket
  BY <1>4, UseImplements DEF Stream!Next
<1>5. CASE PacketUsed
  BY <1>5, FinishImplements DEF Stream!Next
<1> QED BY <1>1, <1>2, <1>3, <1>4, <1>5 DEF Packets

LEMMA NextImplements ==
  BufferInvariant /\ [Next]_vars => [Stream!Next]_(Stream!streamVars)
<1> SUFFICES ASSUME BufferInvariant, [Next]_vars
             PROVE  Stream!Next \/ UNCHANGED Stream!streamVars
  OBVIOUS
<1>1. CASE UNCHANGED vars
  BY <1>1 DEF vars, Stream!streamVars, Visible, Reader
<1>2. CASE Next
  <2>1. InsideMemory
    BY <1>2 DEF Next
  <2>2. CASE Packets
    BY <2>1, <2>2, PacketsImplement
  <2>3. CASE Idles
    BY <2>3, ReadsImplement DEF Idles
  <2>4. CASE Arrives
    BY <2>4, ReadsImplement DEF Arrives
  <2>5. CASE Commands
    BY <2>5, CommandsImplement DEF Stream!Next
  <2>6. CASE Fails
    BY <2>6, AgainImplements DEF Fails, NoMoreRoom, Lose, Stream!Next
  <2> QED BY <1>2, <2>2, <2>3, <2>4, <2>5, <2>6 DEF Next
<1> QED BY <1>1, <1>2

(* For every size of packets and of the buffer: whoever reads a connection *)
(* through its buffer sees whole packets, in order, byte after byte.       *)
THEOREM BufferImplementsStream == Spec => PacketStream
<1>1. BufferInvariant /\ [Next]_vars => [Stream!Next]_(Stream!streamVars)
  BY NextImplements
<1> QED BY <1>1, InitImplements, BufferIsInvariant, PTL DEF Spec, PacketStream, Stream!Spec
=============================================================================
