----------------------------- MODULE DrizzlePack -----------------------------
(***************************************************************************)
(* How values are packed into bytes and unpacked again (pack.cc and the    *)
(* macros of constants.h), as operators.                                   *)
(*                                                                         *)
(* A byte is a number below Base, which is 256 in the program; the length  *)
(* 12 of a time has to be below its byte for NULL.  What the code writes   *)
(* at a pointer that it moves is a sequence here, and a pointer into a     *)
(* packet is what is left of the sequence.                                 *)
(***************************************************************************)
EXTENDS Integers, Sequences, SequencesExt

CONSTANTS
  Base,          \* 256
  SqlStateSize   \* DRIZZLE_MAX_SQLSTATE_SIZE

ASSUME PackAssumption ==
  Base \in Nat /\ Base > 17 /\ SqlStateSize \in Nat

----------------------------------------------------------------------------
(* drizzle_set_byte2 and its like: the lowest byte first.                  *)
SetBytes(n, width) == [i \in 1..width |-> (n \div Base^(i - 1)) % Base]

(* drizzle_get_byte2 and its like.                                         *)
GetBytes(bytes, width) ==
  FoldRight(LAMBDA byte, n : byte + Base * n, SubSeq(bytes, 1, width), 0)

After(bytes, n) == SubSeq(bytes, n + 1, Len(bytes))

(* The first byte of a length: one below Null is the length itself.        *)
Null == Base - 5
Short == Base - 4
Medium == Base - 3
Long == Base - 2
ErrorByte == Base - 1

drizzle_pack_length(n) ==
  IF n < Null THEN <<n>>
  ELSE IF n < Base^2 THEN <<Short>> \o SetBytes(n, 2)
  ELSE IF n < Base^3 THEN <<Medium>> \o SetBytes(n, 3)
  ELSE <<Long>> \o SetBytes(n, 8)

(* drizzle_pack_string, and drizzle_pack_binary.                           *)
PackString(string) == drizzle_pack_length(Len(string)) \o string

Bit(flag) == IF flag THEN 1 ELSE 0

HasDay(t) == t.year # 0 \/ t.month # 0 \/ t.day # 0
HasTime(t) == t.hour # 0 \/ t.minute # 0 \/ t.second # 0

(* Without microseconds 8 bytes, without any value none.                   *)
drizzle_pack_time(t) ==
  LET whole == <<Bit(t.negative)>> \o SetBytes(t.day, 4)
                 \o <<t.hour, t.minute, t.second>>
  IN IF t.microsecond # 0 THEN <<12>> \o whole \o SetBytes(t.microsecond, 4)
     ELSE IF t.day # 0 \/ HasTime(t) THEN <<8>> \o whole
     ELSE <<0>>

drizzle_pack_datetime(t) ==
  LET date == SetBytes(t.year, 2) \o <<t.month, t.day>>
      time == <<t.hour, t.minute, t.second>>
  IN IF t.microsecond # 0
     THEN <<11>> \o date \o time \o SetBytes(t.microsecond, 4)
     ELSE IF HasTime(t) THEN <<7>> \o date \o time
     ELSE IF HasDay(t) THEN <<4>> \o date
     ELSE <<0>>

Midnight == [negative |-> FALSE, year |-> 0, month |-> 0, day |-> 0, hour |-> 0,
             minute |-> 0, second |-> 0, microsecond |-> 0, show |-> FALSE]

Microseconds(field, from) ==
  IF Len(field) > from THEN GetBytes(After(field, from), 4) ELSE 0

drizzle_unpack_time(field, decimals) ==
  IF field = <<>> THEN Midnight
  ELSE [Midnight EXCEPT !.negative = field[1] # 0,
          !.day = GetBytes(Tail(field), 4),
          !.hour = field[6], !.minute = field[7], !.second = field[8],
          !.microsecond = Microseconds(field, 8), !.show = decimals # 0]

(* Mutant of drizzle_unpack_datetime: only a full datetime has a time.     *)
UnpackDatetimeFull(field, decimals) ==
  LET time == Len(field) > 7 IN
  IF field = <<>> THEN Midnight
  ELSE [Midnight EXCEPT !.year = GetBytes(field, 2),
          !.month = field[3], !.day = field[4],
          !.hour = IF time THEN field[5] ELSE 0,
          !.minute = IF time THEN field[6] ELSE 0,
          !.second = IF time THEN field[7] ELSE 0,
          !.microsecond = Microseconds(field, 7), !.show = decimals # 0]

drizzle_unpack_datetime(field, decimals) ==
  LET time == Len(field) > 4 IN
  IF field = <<>> THEN Midnight
  ELSE [Midnight EXCEPT !.year = GetBytes(field, 2),
          !.month = field[3], !.day = field[4],
          !.hour = IF time THEN field[5] ELSE 0,
          !.minute = IF time THEN field[6] ELSE 0,
          !.second = IF time THEN field[7] ELSE 0,
          !.microsecond = Microseconds(field, 7), !.show = decimals # 0]

----------------------------------------------------------------------------
(* buffer_ptr, buffer_size and packet_size always move together.           *)
Used(c, n) == [c EXCEPT !.buffer = After(@, n), !.packet_size = @ - n]

Answer(ret, value, c) == [ret |-> ret, value |-> value, con |-> c]

(* Mutant of drizzle_unpack_length: the three bytes, not the first.        *)
UnpackLengthShort(c) ==
  LET first == Head(c.buffer)
      Wide(width) == Answer("OK", GetBytes(Tail(c.buffer), width),
                            Used(c, IF width = 3 THEN 3 ELSE width + 1))
  IN IF first < Null THEN Answer("OK", first, Used(c, 1))
     ELSE IF first = Null THEN Answer("NULL_SIZE", 0, Used(c, 1))
     ELSE IF first = Short /\ Len(c.buffer) > 2 THEN Wide(2)
     ELSE IF first = Medium /\ Len(c.buffer) > 3 THEN Wide(3)
     ELSE IF Len(c.buffer) > 8 THEN Wide(8)
     ELSE Answer("IO_WAIT", 0, c)

drizzle_unpack_length(c) ==
  LET first == Head(c.buffer)
      Wide(width) == Answer("OK", GetBytes(Tail(c.buffer), width),
                            Used(c, width + 1))
  IN IF first < Null THEN Answer("OK", first, Used(c, 1))
     ELSE IF first = Null THEN Answer("NULL_SIZE", 0, Used(c, 1))
     ELSE IF first = Short /\ Len(c.buffer) > 2 THEN Wide(2)
     ELSE IF first = Medium /\ Len(c.buffer) > 3 THEN Wide(3)
     ELSE IF Len(c.buffer) > 8 THEN Wide(8)
     ELSE Answer("IO_WAIT", 0, c)

(* The length is used up also when the string is not there yet.            *)
drizzle_unpack_string(c, max_length) ==
  LET length == drizzle_unpack_length(c)
      at == length.con
      kept == IF length.value < max_length THEN length.value ELSE max_length - 1
  IN IF length.ret # "OK" THEN length
     ELSE IF length.value > at.packet_size THEN Answer("UNEXPECTED_DATA", 0, at)
     ELSE IF length.value > Len(at.buffer) THEN Answer("IO_WAIT", 0, at)
     ELSE Answer("OK", SubSeq(at.buffer, 1, kept), Used(at, length.value))

(* A time of a binary row: drizzle_state_field_read makes a field of it,   *)
(* as for any value with a length, and drizzle_stmt_fetch unpacks it.      *)
UnpackField(c, Unpack(_, _)) ==
  LET length == drizzle_unpack_length(c)
      field == SubSeq(length.con.buffer, 1, length.value)
  IN IF length.ret # "OK" THEN length
     ELSE Answer("OK", Unpack(field, 1), Used(length.con, length.value))

(* The error code, '#', the SQL state, and the rest is the text.           *)
drizzle_check_unpack_error(c) ==
  Answer("ERROR_CODE",
         [code |-> GetBytes(Tail(c.buffer), 2),
          sqlstate |-> SubSeq(c.buffer, 5, 4 + SqlStateSize),
          text |-> SubSeq(c.buffer, 5 + SqlStateSize, c.packet_size)],
         Used(c, c.packet_size))
=============================================================================
