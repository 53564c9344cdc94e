------------------------------ MODULE DrizzleRows ------------------------------
(***************************************************************************)
(* The rows of one result: drizzle_row_read, drizzle_field_read,           *)
(* drizzle_field_buffer, drizzle_row_buffer, drizzle_result_buffer and the *)
(* cursor over buffered rows, for the text rows of a query and the binary  *)
(* rows of a prepared statement.                                           *)
(*                                                                         *)
(* The columns have been read.  drizzle_state_packet_read lets a handler   *)
(* run only when its whole packet is in the buffer, so what matters of I/O *)
(* is that a row may not be there yet (IO_WAIT) or may never come;         *)
(* DrizzleClient has the rest.  The stream is a sequence of units: the     *)
(* head of a packet, a length, the NULL marker, the NULL bitmap of a       *)
(* binary row (with the byte before it), a byte of a value.                *)
(***************************************************************************)
EXTENDS Integers, Sequences, FiniteSets, SequencesExt

CONSTANTS
  Columns,      \* result->column_count
  MaxRows,      \* bound on the rows the server sends
  Sizes,        \* sizes of a value
  FixedColumns, \* columns of a type that has one size in a binary row
  FixedSize,    \* that size
  MaxPayload,   \* the longest packet: 0xFFFFFF
  GrowSize,     \* DRIZZLE_ROW_GROW_SIZE
  Formats,      \* which of "text" and "binary"
  NonBlocking,
  BufferLate,   \* whether the rest of a result is buffered after rows were read
  Null, Junk    \* a NULL pointer; memory nobody has written to

ASSUME RowsAssumption ==
  /\ Columns \in Nat \ {0} /\ MaxRows \in Nat
  /\ Sizes \subseteq Nat /\ FixedSize \in Sizes \ {0}
  /\ FixedColumns \subseteq 1..Columns
  /\ MaxPayload \in Nat \ {0} /\ GrowSize \in Nat \ {0}
  /\ Formats \subseteq {"text", "binary"} /\ {NonBlocking, BufferLate} \subseteq BOOLEAN

VARIABLES
  rows, ending, binary_rows,                   \* what the server sends
  wire, packet_size,                           \* not parsed yet
  row_count, row_current,
  field_current, field_current_read, null_bitmap, null_bitcount,
  field_offset, field_size, field_total, field,
  row, field_sizes, field_buffer,              \* the row being buffered
  row_list, field_sizes_list, null_bitmap_list, row_list_size, buffered,
  call, at, rc, pending,   \* the call in progress; what IO_WAIT interrupted
  given, part, in_row, over, shown, \* the application's side
  skipped                  \* the rows it had read before it began to buffer

serverVars == <<rows, ending, binary_rows>>
wireVars == <<wire, packet_size>>
cursorVars == <<row_count, row_current>>
fieldVars == <<field_current, field_current_read, null_bitmap, null_bitcount,
               field_offset, field_size, field_total, field>>
rowVars == <<row, field_sizes, field_buffer>>
listVars == <<row_list, field_sizes_list, null_bitmap_list, row_list_size,
              buffered>>
callVars == <<call, at, rc, pending>>
appVars == <<given, part, in_row, over, shown, skipped>>
vars == <<serverVars, wireVars, cursorVars, fieldVars, rowVars, listVars,
          callVars, appVars>>

Cols == 1..Columns
Smaller(a, b) == IF a < b THEN a ELSE b

----------------------------------------------------------------------------
(* The server: a row gives the size of each value, or Null.                *)

Unit(what, r, c, i) == [what |-> what, row |-> r, col |-> c, i |-> i]
Units == [what : {"head", "bitmap", "null", "length", "data", "eof", "err"},
          row : Nat, col : Nat, i : Nat]

(* A NULL pointer is told from a value and from an index, junk from both.  *)
ASSUME PointersAssumption ==
  Null # Junk /\ {Null, Junk} \cap Nat = {} /\ Null \notin Seq(Units)

Nulls(r) == {c \in Cols : rows[r][c] = Null}
Value(r, c) ==
  IF rows[r][c] = Null THEN Null
  ELSE [i \in 1..rows[r][c] |-> Unit("data", r, c, i)]

Encoded(s, binary, r, c) ==
  LET data == [i \in 1..s[r][c] |-> Unit("data", r, c, i)]
  IN CASE s[r][c] = Null -> IF binary THEN <<>> ELSE <<Unit("null", r, c, 0)>>
       [] s[r][c] # Null /\ binary /\ c \in FixedColumns -> data
       [] OTHER -> <<Unit("length", r, c, s[r][c])>> \o data

RowPayload(s, binary, r) ==
  (IF binary THEN <<Unit("bitmap", r, 0, 0)>> ELSE <<>>)
    \o FlattenSeq([c \in Cols |-> Encoded(s, binary, r, c)])

(* A payload of MaxPayload and more is continued in the next packet.       *)
Packets(payload) ==
  FlattenSeq([k \in 1..(Len(payload) \div MaxPayload + 1) |->
    LET piece == SubSeq(payload, (k - 1) * MaxPayload + 1,
                        Smaller(k * MaxPayload, Len(payload)))
    IN <<Unit("head", 0, 0, Len(piece))>> \o piece])

Stream(s, binary, last) ==
  FlattenSeq([r \in DOMAIN s |-> Packets(RowPayload(s, binary, r))])
    \o Packets(<<Unit(last, 0, 0, 0)>>)

Row(binary) ==
  {f \in [Cols -> Sizes \cup {Null}] :
     binary => \A c \in FixedColumns : f[c] \in {FixedSize, Null}}

Init ==
  /\ \E format \in Formats : binary_rows = (format = "binary")
  /\ \E n \in 0..MaxRows : rows \in [1..n -> Row(binary_rows)]
  /\ ending \in {"eof", "err"}
  /\ wire = Stream(rows, binary_rows, ending) /\ packet_size = 0
  /\ row_count = 0 /\ row_current = 0
  /\ field_current = 0 /\ field_current_read = 0
  /\ null_bitmap = Null /\ null_bitcount = 0
  /\ field_offset = 0 /\ field_size = 0 /\ field_total = 0 /\ field = Null
  /\ row = Null /\ field_sizes = Null /\ field_buffer = [c \in Cols |-> <<>>]
  /\ row_list = <<>> /\ field_sizes_list = <<>> /\ null_bitmap_list = <<>>
  /\ row_list_size = 0 /\ buffered = FALSE
  /\ call = "none" /\ at = "app" /\ rc = "OK" /\ pending = "none"
  /\ given = <<>> /\ part = <<>> /\ in_row = FALSE /\ over = FALSE
  /\ shown = 0 /\ skipped = 0

----------------------------------------------------------------------------
(* The calls.  The application repeats a call that returned IO_WAIT, reads *)
(* a row to its end before it asks for the next, stops at the first call   *)
(* that fails, and buffers all of the rows or none, unless BufferLate: all *)
(* that are left.                                                          *)

Enter(name, step) ==
  /\ call = "none" /\ pending \in {"none", name}
  /\ call' = name /\ at' = step /\ pending' = "none"
  /\ UNCHANGED <<rc, serverVars, wireVars, cursorVars, fieldVars, listVars,
                 field_sizes, field_buffer>>

CallRowRead ==
  /\ ~ in_row /\ ~ over /\ ~ buffered
  /\ Enter("row_read", "row") /\ given' = <<>>
  /\ UNCHANGED <<row, part, in_row, over, shown, skipped>>

CallFieldRead ==
  /\ in_row /\ Enter("field_read", "field")
  /\ UNCHANGED <<row, appVars>>

CallFieldBuffer ==
  /\ in_row /\ part = <<>> /\ Enter("field_buffer", "field")
  /\ UNCHANGED <<row, appVars>>

CallRowBuffer ==
  /\ ~ in_row /\ ~ over /\ ~ buffered
  /\ Enter("row_buffer", "row") /\ row' = Null /\ given' = <<>>
  /\ UNCHANGED <<part, in_row, over, shown, skipped>>

(* Frees the NULL bitmap and the sizes along with the row, those of a      *)
(* later row if there is one: the application frees a row before it reads  *)
(* the next by its fields.                                                 *)
drizzle_row_free ==
  /\ call = "none" /\ row # Null /\ ~ buffered /\ ~ in_row
  /\ row' = Null /\ field_sizes' = Null /\ null_bitmap' = Null
  /\ UNCHANGED <<serverVars, wireVars, cursorVars, field_current,
                 field_current_read, null_bitcount, field_offset, field_size,
                 field_total, field, field_buffer, listVars, callVars, appVars>>

CallResultBuffer ==
  /\ ~ over /\ ~ buffered
  /\ row_current = 0 \/ pending = "result_buffer" \/ (BufferLate /\ ~ in_row)
  /\ Enter("result_buffer", "row") /\ row' = Null
  /\ skipped' = IF pending = "result_buffer" THEN skipped ELSE row_current
  /\ given' = <<>>
  /\ UNCHANGED <<part, in_row, over, shown>>

----------------------------------------------------------------------------
(* drizzle_row_read, down to the return from drizzle_state_loop.           *)

RowReadSees(code) ==
  /\ rc' = code /\ at' = "row_done"
  /\ UNCHANGED <<call, serverVars, rowVars, listVars, appVars>>

RowNotThere ==
  /\ NonBlocking
  /\ pending' = call
  /\ RowReadSees("IO_WAIT")
  /\ UNCHANGED <<wireVars, cursorVars, fieldVars>>

ConnectionLost ==
  /\ RowReadSees("LOST_CONNECTION")
  /\ UNCHANGED <<pending, wireVars, cursorVars, fieldVars>>

(* drizzle_state_row_read.                                                 *)
RowEof ==
  /\ wire[2].what = "eof" /\ Head(wire).i = 1
  /\ wire' = SubSeq(wire, 3, Len(wire)) /\ packet_size' = Head(wire).i
  /\ row_current' = 0
  /\ RowReadSees("OK")
  /\ UNCHANGED <<pending, row_count, fieldVars>>

(* drizzle_state_result_read takes over: row_current keeps its value.      *)
RowError ==
  /\ wire[2].what = "err"
  /\ wire' = SubSeq(wire, 3, Len(wire)) /\ packet_size' = 0
  /\ RowReadSees("ERROR_CODE")
  /\ UNCHANGED <<pending, cursorVars, fieldVars>>

(* Mutant of RowFound: does not go back to the first field.                *)
RowFoundKeepsField ==
  /\ wire[2].what \notin {"eof", "err"}
  /\ wire' = Tail(wire) /\ packet_size' = Head(wire).i
  /\ row_count' = row_count + 1 /\ row_current' = row_current + 1
  /\ field_current_read' = 0
  /\ RowReadSees("OK")
  /\ UNCHANGED <<pending, field_current, null_bitmap, null_bitcount,
                 field_offset, field_size, field_total, field>>

RowFound ==
  /\ wire[2].what \notin {"eof", "err"}
  /\ wire' = Tail(wire) /\ packet_size' = Head(wire).i
  /\ row_count' = row_count + 1 /\ row_current' = row_current + 1
  /\ field_current' = 0 /\ field_current_read' = 0
  /\ RowReadSees("OK")
  /\ UNCHANGED <<pending, null_bitmap, null_bitcount, field_offset,
                 field_size, field_total, field>>

drizzle_row_read ==
  /\ at = "row"
  /\ \/ RowNotThere \/ ConnectionLost
     \/ Head(wire).what = "head" /\ (RowEof \/ RowError \/ RowFound)

----------------------------------------------------------------------------
(* drizzle_field_read.                                                     *)

(* drizzle_state_binary_null_read, run before the first field of a binary  *)
(* row.                                                                    *)
BitmapAhead == binary_rows /\ field_current = 0
Bitmap == IF BitmapAhead THEN Nulls(Head(wire).row) ELSE null_bitmap
BitCount == IF BitmapAhead THEN Cardinality(Bitmap) ELSE null_bitcount
AfterBitmap == IF BitmapAhead THEN Tail(wire) ELSE wire
SizeAfterBitmap == packet_size - (IF BitmapAhead THEN 1 ELSE 0)

(* drizzle_state_field_read: a field that was read to its end is followed  *)
(* by the next one's length; one that was not is gone on with, as far as   *)
(* the packet goes.  The field may not be longer than that: the request    *)
(* for the next packet behind that test is never made.                     *)
TextField ==
  LET done == field_offset + field_size
      fresh == done = field_total
      offset == IF fresh THEN 0 ELSE done
      total == IF fresh THEN Head(wire).i ELSE field_total
      bytes == IF fresh THEN Tail(wire) ELSE wire
      left == IF fresh THEN packet_size - 1 ELSE packet_size
      size == Smaller(total - offset, left)
      null == fresh /\ Head(wire).what = "null"
  IN /\ field_offset' = offset /\ field_size' = size /\ field_total' = total
     /\ field' = IF null THEN Null ELSE SubSeq(bytes, 1, size)
     /\ wire' = SubSeq(bytes, size + 1, Len(bytes))
     /\ packet_size' = left - size
     /\ field_current' =
          IF offset + size = total THEN field_current + 1 ELSE field_current
     /\ UNCHANGED field_current_read

(* Mutant of NextRead: takes the columns in order.                         *)
NextReadInOrder == field_current_read + 1

(* drizzle_state_binary_field_read: skips the NULL columns; the type of    *)
(* the column says how the value is encoded.                               *)
NextRead == CHOOSE c \in field_current_read + 1..Columns :
              /\ c \notin Bitmap
              /\ \A d \in field_current_read + 1..c - 1 : d \in Bitmap

BinaryField ==
  LET fixed == NextRead \in FixedColumns
      size == IF fixed THEN FixedSize ELSE Head(AfterBitmap).i
      bytes == IF fixed THEN AfterBitmap ELSE Tail(AfterBitmap)
  IN /\ field_size' = size /\ field_total' = size
     /\ field' = SubSeq(bytes, 1, size)
     /\ wire' = SubSeq(bytes, size + 1, Len(bytes))
     /\ packet_size' = SizeAfterBitmap - size - (IF fixed THEN 0 ELSE 1)
     /\ field_current' = field_current + 1
     /\ field_current_read' = NextRead
     /\ UNCHANGED field_offset

FieldsLeft == Columns - BitCount - field_current

drizzle_field_read ==
  /\ at = "field"
  /\ null_bitmap' = Bitmap /\ null_bitcount' = BitCount
  /\ \/ /\ FieldsLeft = 0
        /\ rc' = "ROW_END"
        /\ wire' = AfterBitmap /\ packet_size' = SizeAfterBitmap
        /\ UNCHANGED <<field_current, field_current_read, field_offset,
                       field_size, field_total, field>>
     \/ /\ FieldsLeft # 0
        /\ rc' = "OK"
        /\ \/ ~ binary_rows /\ TextField
           \/ binary_rows /\ BinaryField
  /\ at' = "field_done"
  /\ UNCHANGED <<call, pending, serverVars, cursorVars, rowVars, listVars,
                 appVars>>

----------------------------------------------------------------------------
(* What the callers make of it.                                            *)

Return(code) == call' = "none" /\ at' = "app" /\ rc' = code
OnwardTo(step) == at' = step /\ UNCHANGED <<call, rc>>

(* The application's part: a code other than OK and IO_WAIT, or no row,    *)
(* ends the reading.                                                       *)
Gone(code) == code \notin {"OK", "IO_WAIT", "ROW_END"}

(* The value of drizzle_row_read, whatever the loop returned.              *)
RowReadGives == row_current

(* drizzle_row_read, called by the application itself.                     *)
RowReadReturns ==
  /\ at = "row_done" /\ call = "row_read"
  /\ Return(rc)
  /\ in_row' = (rc = "OK" /\ RowReadGives # 0)
  /\ over' = (Gone(rc) \/ (rc = "OK" /\ RowReadGives = 0))
  /\ UNCHANGED <<pending, serverVars, wireVars, cursorVars, fieldVars, rowVars,
                 listVars, given, part, shown, skipped>>

(* drizzle_row_buffer: allocates the row, or has none to return.           *)
RowBufferBegins ==
  /\ at = "row_done" /\ call \in {"row_buffer", "result_buffer"}
  /\ rc = "OK" /\ row_current # 0
  /\ row' = [c \in Cols |-> Junk] /\ field_sizes' = [c \in Cols |-> 0]
  /\ OnwardTo("field")
  /\ UNCHANGED <<pending, serverVars, wireVars, cursorVars, fieldVars,
                 field_buffer, listVars, appVars>>

RowBufferEnds ==
  /\ at = "row_done" /\ call = "row_buffer"
  /\ rc # "OK" \/ row_current = 0
  /\ Return(rc)
  /\ over' = (rc # "IO_WAIT")
  /\ UNCHANGED <<pending, serverVars, wireVars, cursorVars, fieldVars, rowVars,
                 listVars, given, part, in_row, shown, skipped>>

(* Mutant of ResultBufferEnds: takes any answer without a row for the end. *)
ResultBufferEndsAnyhow ==
  /\ at = "row_done" /\ call = "result_buffer"
  /\ rc # "OK" \/ row_current = 0
  /\ Return(IF rc = "IO_WAIT" THEN rc ELSE "OK")
  /\ buffered' = (rc # "IO_WAIT")
  /\ over' = Gone(rc)
  /\ UNCHANGED <<pending, serverVars, wireVars, cursorVars, fieldVars, rowVars,
                 row_list, field_sizes_list, null_bitmap_list, row_list_size,
                 given, part, in_row, shown, skipped>>

(* drizzle_result_buffer, when drizzle_row_buffer has no row for it.       *)
ResultBufferEnds ==
  /\ at = "row_done" /\ call = "result_buffer"
  /\ rc # "OK" \/ row_current = 0
  /\ Return(rc)
  /\ buffered' = (rc = "OK")
  /\ over' = Gone(rc)
  /\ UNCHANGED <<pending, serverVars, wireVars, cursorVars, fieldVars, rowVars,
                 row_list, field_sizes_list, null_bitmap_list, row_list_size,
                 given, part, in_row, shown, skipped>>

(* drizzle_field_read, called by the application, which puts the parts of  *)
(* a value together.                                                       *)
FieldReadReturns ==
  /\ at = "field_done" /\ call = "field_read"
  /\ Return(rc)
  /\ LET whole == field_offset + field_size = field_total
         value == part \o field
     IN CASE rc = "ROW_END" -> in_row' = FALSE /\ UNCHANGED <<given, part>>
          [] rc = "OK" /\ field = Null ->
               given' = Append(given, Null) /\ UNCHANGED <<part, in_row>>
          [] rc = "OK" /\ field # Null ->
               /\ given' = IF whole THEN Append(given, value) ELSE given
               /\ part' = IF whole THEN <<>> ELSE value
               /\ UNCHANGED in_row
  /\ UNCHANGED <<pending, serverVars, wireVars, cursorVars, fieldVars, rowVars,
                 listVars, over, shown, skipped>>

(* drizzle_field_buffer: the copy of one part to where the field is kept,  *)
(* grown to the size of the value; and another drizzle_field_read, or the  *)
(* end of the value.                                                       *)
Whole == field_offset + field_size = field_total
Current == IF Whole THEN field_current ELSE field_current + 1

FieldBufferCopies ==
  /\ at = "field_done" /\ call # "field_read" /\ rc = "OK" /\ field # Null
  /\ field_buffer' =
       [field_buffer EXCEPT ![Current] =
          SubSeq(@, 1, field_offset) \o field
            \o SubSeq(@, field_offset + field_size + 1, Len(@))]
  /\ OnwardTo(IF Whole THEN "buffered" ELSE "field")
  /\ UNCHANGED <<pending, serverVars, wireVars, cursorVars, fieldVars, row,
                 field_sizes, listVars, appVars>>

Kept(c) == SubSeq(field_buffer[c], 1, field_total)

FieldBufferReturns ==
  /\ call = "field_buffer"
  /\ \/ /\ at = "field_done" /\ rc = "ROW_END"
        /\ in_row' = FALSE /\ UNCHANGED given
     \/ /\ at = "field_done" /\ rc = "OK" /\ field = Null
        /\ given' = Append(given, Null) /\ UNCHANGED in_row
     \/ /\ at = "buffered"
        /\ given' = Append(given, Kept(field_current)) /\ UNCHANGED in_row
  /\ Return(rc)
  /\ UNCHANGED <<pending, serverVars, wireVars, cursorVars, fieldVars, rowVars,
                 listVars, part, over, shown, skipped>>

(* The loop of drizzle_row_buffer: the field goes to its place in the row. *)
RowBufferStores ==
  /\ call \in {"row_buffer", "result_buffer"}
  /\ \/ /\ at = "buffered"
        /\ row' = [row EXCEPT ![field_current] = field_current]
        /\ field_sizes' = [field_sizes EXCEPT ![field_current] = field_total]
     \/ /\ at = "field_done" /\ rc = "OK" /\ field = Null
        /\ row' = [row EXCEPT ![field_current] = Null]
        /\ field_sizes' = [field_sizes EXCEPT ![field_current] = 0]
  /\ OnwardTo("field")
  /\ UNCHANGED <<pending, serverVars, wireVars, cursorVars, fieldVars,
                 field_buffer, listVars, appVars>>

(* The row is complete: what it points to is the first field_sizes[c]      *)
(* bytes of each of the fields kept.                                       *)
Pointee(c) == CASE row[c] = Null -> Null
                [] row[c] = Junk -> Junk
                [] OTHER -> SubSeq(field_buffer[row[c]], 1, field_sizes[c])

RowBufferReturns ==
  /\ at = "field_done" /\ call = "row_buffer" /\ rc = "ROW_END"
  /\ Return("OK")
  /\ given' = [i \in 1..Columns - null_bitcount |-> Pointee(i)]
  /\ UNCHANGED <<pending, serverVars, wireVars, cursorVars, fieldVars, rowVars,
                 listVars, part, in_row, over, shown, skipped>>

(* Mutant of Grown: the lists are given room once.                         *)
GrownOnce == IF row_list_size = 0 THEN GrowSize ELSE row_list_size

(* drizzle_result_buffer keeps a copy of the row, the pointer to its sizes *)
(* and that to its NULL bitmap, in lists that grow when the row just read  *)
(* is the first that does not fit.  A value without a byte is not copied.  *)
Grown == IF row_list_size < row_count THEN row_list_size + GrowSize
                                      ELSE row_list_size

Extended(list, entry) ==
  [k \in 1..Grown |-> CASE k = row_current -> entry
                        [] k # row_current /\ k <= row_list_size -> list[k]
                        [] OTHER -> Junk]

ResultBufferStores ==
  /\ at = "field_done" /\ call = "result_buffer" /\ rc = "ROW_END"
  /\ row_list' = Extended(row_list,
       [c \in Cols |-> IF field_sizes[c] > 0 THEN Pointee(c) ELSE Null])
  /\ field_sizes_list' = Extended(field_sizes_list, field_sizes)
  /\ null_bitmap_list' =
       IF binary_rows THEN Extended(null_bitmap_list, null_bitmap) ELSE <<>>
  /\ row_list_size' = Grown
  /\ row' = Null                  \* freed when drizzle_row_buffer is called
  /\ OnwardTo("row")
  /\ UNCHANGED <<pending, serverVars, wireVars, cursorVars, fieldVars, buffered,
                 field_sizes, field_buffer, appVars>>

----------------------------------------------------------------------------
(* The cursor over buffered rows.  shown is the row last returned.         *)

(* What is read at an index that was not written.                          *)
At(list, k) == IF k \in DOMAIN list THEN list[k] ELSE Junk

(* Mutant of Show: the sizes are left as they are.                         *)
ShowWithoutSizes(k) ==
  /\ UNCHANGED field_sizes
  /\ null_bitmap' = IF binary_rows THEN At(null_bitmap_list, k) ELSE null_bitmap
  /\ shown' = k

Show(k) ==
  /\ field_sizes' = At(field_sizes_list, k)
  /\ null_bitmap' = IF binary_rows THEN At(null_bitmap_list, k) ELSE null_bitmap
  /\ shown' = k

MoveCursor ==
  /\ call = "none" /\ buffered
  /\ UNCHANGED <<serverVars, wireVars, row_count, field_current,
                 field_current_read, null_bitcount, field_offset, field_size,
                 field_total, field, row, field_buffer, listVars, callVars,
                 given, part, in_row, over, skipped>>

drizzle_row_next ==
  /\ MoveCursor
  /\ row_current # row_count
  /\ Show(row_current + 1) /\ row_current' = row_current + 1

drizzle_row_prev ==
  /\ MoveCursor
  /\ row_current # 0
  /\ Show(row_current) /\ row_current' = row_current - 1

drizzle_row_seek ==
  /\ MoveCursor
  /\ \E k \in 0..row_count : row_current' = k
  /\ UNCHANGED <<field_sizes, null_bitmap, shown>>

----------------------------------------------------------------------------
Next ==
  \/ CallRowRead \/ CallFieldRead \/ CallFieldBuffer \/ CallRowBuffer
  \/ CallResultBuffer \/ drizzle_row_free
  \/ drizzle_row_read \/ drizzle_field_read
  \/ RowReadReturns \/ FieldReadReturns
  \/ FieldBufferCopies \/ FieldBufferReturns
  \/ RowBufferBegins \/ RowBufferStores \/ RowBufferReturns \/ RowBufferEnds
  \/ ResultBufferStores \/ ResultBufferEnds
  \/ drizzle_row_next \/ drizzle_row_prev \/ drizzle_row_seek

Spec == Init /\ [][Next]_vars

----------------------------------------------------------------------------
(* Properties.                                                             *)

(* The columns a row has a value for, in their order: all of them in a     *)
(* text row, those that are not NULL in a binary one, whose values are     *)
(* stored side by side.                                                    *)
Stored(r) == {c \in Cols : binary_rows => rows[r][c] # Null}
Upto(r, c) == Cardinality({d \in Stored(r) : d <= c})
Delivered(r) == [k \in 1..Cardinality(Stored(r)) |->
                   CHOOSE c \in Stored(r) : Upto(r, c) = k]
Compact(r, f(_, _), none) ==
  [k \in Cols |-> IF k <= Len(Delivered(r)) THEN f(r, Delivered(r)[k]) ELSE none]
SizeOf(r, c) == IF rows[r][c] = Null THEN 0 ELSE rows[r][c]
Copied(r, c) == IF SizeOf(r, c) = 0 THEN Null ELSE Value(r, c)

(* The application is given the values the server sent, byte for byte, in  *)
(* the order of the columns, whichever of the calls it reads them with     *)
(* (drizzle_field_read, drizzle_field_buffer, drizzle_row_buffer).         *)
FieldsAsSent ==
  \A k \in DOMAIN given :
    /\ k <= Len(Delivered(row_current))
    /\ given[k] = Value(row_current, Delivered(row_current)[k])

(* ROW_END is returned when each value of the row has been read, and then  *)
(* the row's packet is used up: what follows is the head of a packet.      *)
PacketUsedUp ==
  at = "field_done" /\ rc = "ROW_END" =>
    /\ field_current = Len(Delivered(row_current))
    /\ packet_size = 0 /\ Head(wire).what = "head"

(* "No more rows" is said when each row was read and the server ended the  *)
(* result as it should; drizzle_result_buffer, too, never takes a failure  *)
(* for the end.                                                            *)
EndMeansAllRows ==
  buffered \/ (over /\ rc = "OK") => row_count = Len(rows) /\ ending = "eof"

(* A buffered result holds the rows the server sent, however often the     *)
(* lists had to grow and the call was interrupted; a value of no bytes is  *)
(* kept like a NULL, told apart by the bitmap of a binary row only.  Those *)
(* read one by one before have entries nobody has written, and have to be  *)
(* fewer than GrowSize, the lists growing only once before a row is stored.*)
BufferedRowsAsSent ==
  buffered /\ skipped < GrowSize =>
    \A r \in skipped + 1..Len(rows) :
      /\ r <= row_list_size
      /\ row_list[r] = Compact(r, Copied, Null)
      /\ field_sizes_list[r] = Compact(r, SizeOf, 0)
      /\ binary_rows => null_bitmap_list[r] = Nulls(r)

(* After drizzle_row_next or drizzle_row_prev has returned a row,          *)
(* drizzle_row_field_sizes and the NULL bitmap are those of that row, if   *)
(* it is one of those that were buffered.                                  *)
ShownAsSent ==
  shown > skipped /\ skipped < GrowSize =>
    /\ field_sizes = Compact(shown, SizeOf, 0)
    /\ binary_rows => null_bitmap = Nulls(shown)

(* drizzle_field_read returns a part of the value that has at least a      *)
(* byte: an application, or drizzle_field_buffer, that calls it until the  *)
(* value is complete comes to an end.                                      *)
PartsMakeProgress ==
  at = "field_done" /\ rc = "OK" /\ field # Null /\ field_total > 0
    => field_size > 0

(* No packet of a row, nor the end of the result, is as long as the        *)
(* longest packet: drizzle_field_read never asks for a row's next packet.  *)
RowsFit ==
  /\ 1 < MaxPayload
  /\ \A binary \in BOOLEAN, n \in 0..MaxRows : \A s \in [1..n -> Row(binary)] :
       \A r \in 1..n : Len(RowPayload(s, binary, r)) < MaxPayload
===============================================================================
