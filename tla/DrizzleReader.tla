----------------------------- MODULE DrizzleReader -----------------------------
(***************************************************************************)
(* A connection that receives packets made of packed values, while their   *)
(* bytes arrive in any pieces, and unpacks them (pack.cc).                 *)
(***************************************************************************)
EXTENDS DrizzlePack

CONSTANTS
  MaxLength,     \* max_length of drizzle_unpack_string: the size of an array
  Fields         \* the values in the packets of the server

VARIABLES
  con,      \* buffer: what is from buffer_ptr on; packet_size; packet_number
  phase,    \* "packet_read", or "fields": inside a packet
  packets,  \* external: the packets, each a sequence of values
  wire,     \* external: the bytes that have not arrived
  got       \* what was unpacked of each packet

vars == <<con, phase, packets, wire, got>>

----------------------------------------------------------------------------
(* External: the server packs as the client does, and numbers its packets. *)
Packed(field) ==
  CASE field.type = "length" -> drizzle_pack_length(field.value)
    [] field.type = "null" -> <<Null>>
    [] field.type = "string" -> PackString(field.value)
    [] field.type = "time" -> drizzle_pack_time(field.value)
    [] field.type = "datetime" -> drizzle_pack_datetime(field.value)
    [] field.type = "error" ->
         <<ErrorByte>> \o SetBytes(field.value.code, 2) \o <<0>>
           \o field.value.sqlstate \o field.value.text

Body(packet) == FlattenSeq([i \in 1..Len(packet) |-> Packed(packet[i])])

Framed(number, packet) ==
  SetBytes(Len(Body(packet)), 3) \o <<number % Base>> \o Body(packet)

Alone == {field \in Fields : field.type = "error"}

Init ==
  /\ packets \in {<<p, q>> : p, q \in {<<f>> : f \in Fields}}
       \cup {<<<<f, g>>>> : f, g \in Fields \ Alone}
  /\ wire = FlattenSeq([i \in 1..Len(packets) |-> Framed(i - 1, packets[i])])
  /\ con = [buffer |-> <<>>, packet_size |-> 0, packet_number |-> 0]
  /\ phase = "packet_read" /\ got = <<>>

(* drizzle_state_read: some of what the server sent.                       *)
Arrive ==
  \E n \in 1..Len(wire) :
    /\ con' = [con EXCEPT !.buffer = @ \o SubSeq(wire, 1, n)]
    /\ wire' = After(wire, n)
    /\ UNCHANGED <<phase, packets, got>>

PacketSize == GetBytes(con.buffer, 3)

PacketThere == Len(con.buffer) >= 4 /\ Len(con.buffer) >= PacketSize + 4

PacketRead ==
  /\ phase = "packet_read" /\ PacketThere
  /\ con.packet_number = con.buffer[4]
  /\ con' = [con EXCEPT !.packet_size = PacketSize, !.buffer = After(@, 4),
                        !.packet_number = (@ + 1) % Base]
  /\ phase' = "fields" /\ got' = Append(got, <<>>)
  /\ UNCHANGED <<packets, wire>>

Expected == packets[Len(got)][Len(Last(got)) + 1]

(* What the handler of the packet calls for the next of its fields.        *)
Unpacked ==
  IF Last(got) = <<>> /\ Head(con.buffer) = ErrorByte
  THEN drizzle_check_unpack_error(con)
  ELSE CASE Expected.type = "string" -> drizzle_unpack_string(con, MaxLength)
         [] Expected.type = "time" -> UnpackField(con, drizzle_unpack_time)
         [] Expected.type = "datetime" -> UnpackField(con, drizzle_unpack_datetime)
         [] OTHER -> drizzle_unpack_length(con)

UnpackNext ==
  /\ phase = "fields" /\ Len(Last(got)) < Len(packets[Len(got)])
  /\ con.buffer # <<>>
  /\ con' = Unpacked.con
  /\ got' = [got EXCEPT ![Len(got)] =
               Append(@, [ret |-> Unpacked.ret, value |-> Unpacked.value])]
  /\ UNCHANGED <<phase, packets, wire>>

Finish ==
  /\ phase = "fields" /\ Len(Last(got)) = Len(packets[Len(got)])
  /\ phase' = "packet_read" /\ UNCHANGED <<con, packets, wire, got>>

Next == Arrive \/ PacketRead \/ UnpackNext \/ Finish

Spec == Init /\ [][Next]_vars

----------------------------------------------------------------------------
(* What a client can know of a field: a string as long as its array holds, *)
(* a time without the sign of zero, a datetime without a sign.             *)
Known(field) ==
  LET t == field.value IN
  CASE field.type = "null" -> [ret |-> "NULL_SIZE", value |-> 0]
    [] field.type = "error" -> [ret |-> "ERROR_CODE", value |-> t]
    [] field.type = "string" ->
         [ret |-> "OK", value |-> IF Len(t) < MaxLength THEN t
                                  ELSE SubSeq(t, 1, MaxLength - 1)]
    [] field.type = "time" ->
         [ret |-> "OK", value |->
            IF t.day = 0 /\ ~HasTime(t) /\ t.microsecond = 0 THEN Midnight
            ELSE [t EXCEPT !.year = 0, !.month = 0, !.show = TRUE]]
    [] field.type = "datetime" ->
         [ret |-> "OK", value |->
            IF t = [Midnight EXCEPT !.negative = t.negative] THEN Midnight
            ELSE [t EXCEPT !.negative = FALSE, !.show = TRUE]]
    [] OTHER -> [ret |-> "OK", value |-> t]

(* drizzle_unpack_length, drizzle_unpack_string, drizzle_unpack_time and   *)
(* drizzle_unpack_datetime return what was packed, for any value, also at  *)
(* the borders of the widths and for values that do not fit the array, and *)
(* however the bytes of the packet arrived.                                *)
UnpackedAsPacked ==
  \A i \in 1..Len(got) : \A j \in 1..Len(got[i]) :
    got[i][j] = Known(packets[i][j])

(* buffer_ptr, buffer_size and packet_size stay in step: what is left of   *)
(* the packet is what its other fields need, so that the next packet       *)
(* starts where its header is.                                             *)
PacketAccounted ==
  phase = "fields" =>
    con.packet_size = Len(Body(After(packets[Len(got)], Len(Last(got)))))
=============================================================================
