----------------------------- MODULE DrizzleStream -----------------------------
(***************************************************************************)
(* What the handlers of the library are promised of a connection, without  *)
(* its buffer: the server's bytes, numbered from 0, are a stream of        *)
(* packets, and whoever asks for a packet gets all of it at once, byte     *)
(* after byte, or loses the connection.  After a loss the stream goes on   *)
(* at some later byte, the first of another connection.                    *)
(*                                                                         *)
(* DrizzleBuffer implements it (PacketStream there).                       *)
(***************************************************************************)
EXTENDS Integers

CONSTANTS
  HeaderSize,   \* bytes before the payload of a packet
  MaxPayload    \* the largest payload

VARIABLES
  reader,       \* what the library does
  position,     \* of the next byte in the stream
  visible       \* what is left of the packet, as its handler finds it

streamVars == <<reader, position, visible>>

Nothing == [i \in {} |-> position]

(* The first byte of visible has the index 0.                              *)
Rest(n) == [i \in 0..(n - 1) |-> position + HeaderSize + i]

Init == reader = "idle" /\ position = 0 /\ visible = Nothing

Ask ==
  /\ reader = "idle" /\ reader' = "waiting"
  /\ UNCHANGED <<position, visible>>

Deliver ==
  /\ reader = "waiting" /\ reader' = "packet"
  /\ \E n \in 0..MaxPayload : visible' = Rest(n)
  /\ position' = position + HeaderSize

Take(size) ==
  \E n \in 1..size :
    /\ visible' = [i \in 0..(size - n - 1) |-> visible[i + n]]
    /\ position' = position + n

Use ==
  /\ reader = "packet" /\ UNCHANGED reader
  /\ \E size \in 1..MaxPayload : DOMAIN visible = 0..(size - 1) /\ Take(size)

Finish ==
  /\ reader = "packet" /\ DOMAIN visible = {}
  /\ reader' = "idle" /\ UNCHANGED <<position, visible>>

(* Commands go the other way, only between packets.                        *)
Command ==
  /\ reader = "idle" /\ reader' = "command"
  /\ UNCHANGED <<position, visible>>

CommandSent ==
  /\ reader = "command" /\ reader' = "idle"
  /\ UNCHANGED <<position, visible>>

Lose ==
  /\ reader' = "idle" /\ DOMAIN visible' = {}
  /\ position' \in Nat /\ position' > position

Next == Ask \/ Deliver \/ Use \/ Finish \/ Command \/ CommandSent \/ Lose

Spec == Init /\ [][Next]_streamVars
=============================================================================
