----------------------------- MODULE DrizzleFetch -----------------------------
(***************************************************************************)
(* The values of a fetched row: what drizzle_stmt_fetch puts into          *)
(* result_params, and what the drizzle_stmt_get functions make of it.      *)
(* DrizzleRows shows that a binary row arrives as its NULL bitmap and the  *)
(* fields that are not NULL; this module takes it from there.              *)
(*                                                                         *)
(* An integer is its bits, as a number; Bits gives each type its width, in *)
(* the program 8, 16, 32 and 64.  A float is a whole number.  The text of  *)
(* a number is the number, that of a time a record of what is shown.       *)
(***************************************************************************)
EXTENDS DrizzlePack, FiniteSets

CONSTANTS
  Bits,         \* the widths of TINY, SHORT, LONG and LONGLONG
  ColumnLists,  \* the columns of a result: name, type, unsigned, decimals
  Values        \* what the server has for a type: type, value

VARIABLES
  state,    \* stmt->state
  columns,  \* of execute_result, and of prepare_result
  params,   \* stmt->result_params
  sent,     \* external: the values of the row read last
  fetch     \* what the last drizzle_stmt_fetch returned

vars == <<state, columns, params, sent, fetch>>

Integer == DOMAIN Bits
Float == {"FLOAT", "DOUBLE"}
Dates == {"DATE", "DATETIME"}
Text == {"STRING", "BLOB", "DECIMAL"}
Fetchable == Integer \cup Float \cup Dates \cup Text \cup {"TIME", "NEWDATE"}

Columns == DOMAIN columns

Fresh == [type |-> "NONE", data |-> 0, length |-> 0,
          is_null |-> FALSE, is_unsigned |-> FALSE]

Init ==
  /\ state = "PREPARED" /\ columns = <<>> /\ params = <<>>
  /\ sent = <<>> /\ fetch = "none"

(* The part of drizzle_stmt_execute that makes result_params.              *)
Execute ==
  /\ columns' \in ColumnLists
  /\ params' = [c \in DOMAIN columns' |-> Fresh]
  /\ state' = "EXECUTED" /\ sent' = <<>> /\ fetch' = "none"

----------------------------------------------------------------------------
(* drizzle_stmt_fetch.                                                     *)

Absent == [type |-> "NULL", value |-> 0]
IsNull(value) == value.type = "NULL"

Sendable(column) ==
  {v \in Values : v.type = column.type} \cup {Absent}

(* External, as binary rows are: a time without its length.                *)
Field(type, value) ==
  CASE type = "TIME" -> Tail(drizzle_pack_time(value))
    [] type \in Dates -> Tail(drizzle_pack_datetime(value))
    [] OTHER -> value

Length(type, field) ==
  IF type \in Integer \cup Float THEN 1 ELSE Len(field)

(* current_column when column_counter is c: a NULL has no place in the row.*)
Position(nulls, c) == 1 + Cardinality({k \in 1..(c - 1) : k \notin nulls})

Unpacked(type, field, decimals) ==
  CASE type = "TIME" -> drizzle_unpack_time(field, decimals)
    [] type \in Dates -> drizzle_unpack_datetime(field, decimals)
    [] OTHER -> field

(* Mutant of DecimalsAt: the columns are counted from the one before.      *)
DecimalsBefore(place) == columns[IF place > 1 THEN place - 1 ELSE place].decimals

(* Those of the column at the position of the value in the row.            *)
DecimalsAt(place) == columns[place].decimals

(* Mutant of Absence: the parameter is what it was for the row before.     *)
AbsenceUnmarked(before) == [before EXCEPT !.length = 0]

Absence(before) ==
  [before EXCEPT !.is_null = TRUE, !.length = 0, !.type = "NULL"]

(* One turn of the loop, given the parameter as the row before left it.    *)
Fetched(before, nulls, row, c) ==
  LET column == columns[c]
      place == Position(nulls, c)
  IN IF c \in nulls
     THEN Absence(before)
     ELSE [before EXCEPT !.type = column.type, !.is_null = FALSE,
             !.length = Length(column.type, row[place]),
             !.is_unsigned = @ \/ column.unsigned,
             !.data = IF column.type \in Fetchable
                      THEN Unpacked(column.type, row[place], DecimalsAt(place))
                      ELSE @]

(* The loop ends at the first type that it does not know.                  *)
FetchRow ==
  \E values \in [Columns -> UNION {Sendable(columns[c]) : c \in Columns}] :
    LET nulls == {c \in Columns : IsNull(values[c])}
        row == [i \in 1..Cardinality(Columns \ nulls) |->
                  LET c == CHOOSE k \in Columns \ nulls : Position(nulls, k) = i
                  IN Field(columns[c].type, values[c].value)]
        unknown == {c \in Columns \ nulls : columns[c].type \notin Fetchable}
        reached == {c \in Columns : \A u \in unknown : c <= u}
    IN /\ \A c \in Columns : values[c] \in Sendable(columns[c])
       /\ params' = [c \in Columns |-> IF c \in reached
                                       THEN Fetched(params[c], nulls, row, c)
                                       ELSE params[c]]
       /\ fetch' = IF unknown = {} THEN "OK" ELSE "UNEXPECTED_DATA"
       /\ sent' = values /\ state' = "FETCHED"
       /\ UNCHANGED columns

(* No more rows, or none for now.                                          *)
FetchEnd ==
  /\ fetch' = "ROW_END"
  /\ UNCHANGED <<state, columns, params, sent>>

FetchUnexecuted ==
  /\ fetch' = "UNEXPECTED_DATA"
  /\ UNCHANGED <<state, columns, params, sent>>

drizzle_stmt_fetch ==
  \/ state = "PREPARED" /\ FetchUnexecuted
  \/ state # "PREPARED" /\ (FetchRow \/ FetchEnd)

Next == Execute \/ drizzle_stmt_fetch

Spec == Init /\ [][Next]_vars

----------------------------------------------------------------------------
(* The functions that get a value, which change nothing.                   *)

Got(ret, value) == [ret |-> ret, value |-> value]

Signed(n, bits) == IF n < 2^(bits - 1) THEN n ELSE n - 2^bits

(* Integers are converted to 32 bits without regard to their sign first.   *)
NumberText(param) ==
  LET bits == IF param.type = "LONGLONG" THEN Bits["LONGLONG"] ELSE Bits["LONG"]
  IN IF param.is_unsigned THEN param.data ELSE Signed(param.data, bits)

Shown(t) == IF t.microsecond # 0 \/ t.show THEN t.microsecond ELSE -1

time_to_string(t) ==
  [negative |-> t.negative, hours |-> t.hour + 24 * t.day,
   minute |-> t.minute, second |-> t.second, microsecond |-> Shown(t)]

timestamp_to_string(type, t) ==
  [date |-> <<t.year, t.month, t.day>>,
   time |-> IF type = "DATE" THEN <<>> ELSE <<t.hour, t.minute, t.second>>,
   microsecond |-> IF type = "DATE" THEN -1 ELSE Shown(t)]

(* -HHH:MM:SS.ssssss, at least two digits for the hours.                   *)
TimeTextLength(text) ==
  (IF text.negative THEN 1 ELSE 0) + (IF text.hours < 100 THEN 2 ELSE 3) + 6
    + (IF text.microsecond >= 0 THEN 7 ELSE 0)

(* Mutant of TimeTextSize: no place for the sign.                          *)
TimeTextSizeUnsigned == 16

TimeTextSize == 17

drizzle_stmt_get_string(c) ==
  LET param == params[c]
      type == param.type
  IN CASE type = "NULL" -> Got("NULL_SIZE", 0)
       [] type \in Integer -> Got("OK", NumberText(param))
       [] type \in Float -> Got("OK", param.data)
       [] type = "TIME" -> Got("OK", time_to_string(param.data))
       [] type \in Dates -> Got("OK", timestamp_to_string(type, param.data))
       [] type \in Text -> Got("OK", param.data)
       [] OTHER -> Got("INVALID_CONVERSION", 0)

(* After the cast no value is larger than 32 bits.                         *)
drizzle_stmt_get_int(c) ==
  LET param == params[c]
      type == param.type
  IN CASE type = "NULL" -> Got("NULL_SIZE", 0)
       [] type \in Integer -> Got("OK", param.data % 2^Bits["LONG"])
       [] type \in Float -> Got("TRUNCATED", param.data)
       [] OTHER -> Got("INVALID_CONVERSION", 0)

drizzle_stmt_get_bigint(c) ==
  LET param == params[c]
      type == param.type
  IN CASE type = "NULL" -> Got("NULL_SIZE", 0)
       [] type \in Integer -> Got("OK", param.data)
       [] type \in Float -> Got("TRUNCATED", param.data)
       [] OTHER -> Got("INVALID_CONVERSION", 0)

drizzle_stmt_get_double(c) ==
  LET param == params[c]
      type == param.type
  IN CASE type = "NULL" -> Got("NULL_SIZE", 0)
       [] type \in Integer -> Got("TRUNCATED", param.data)
       [] type \in Float -> Got("OK", param.data)
       [] OTHER -> Got("INVALID_CONVERSION", 0)

drizzle_stmt_get_is_null(c) == params[c].is_null
drizzle_stmt_get_is_unsigned(c) == params[c].is_unsigned

(* The first column with the name.                                         *)
drizzle_stmt_column_lookup(name) ==
  LET found == {c \in Columns : columns[c].name = name}
  IN IF found = {} THEN Got("NOT_FOUND", 0)
     ELSE Got("OK", CHOOSE c \in found : \A k \in found : c <= k)

FromName(name, Get(_)) ==
  LET found == drizzle_stmt_column_lookup(name)
  IN IF found.ret # "OK" THEN found ELSE Get(found.value)

----------------------------------------------------------------------------
(* The number that the server means.                                       *)
Number(c) ==
  IF columns[c].unsigned THEN sent[c].value
  ELSE Signed(sent[c].value, Bits[columns[c].type])

OfType(types) == {c \in Columns : columns[c].type \in types /\ ~IsNull(sent[c])}

Whole(t) == [t EXCEPT !.show = FALSE]

(* After drizzle_stmt_fetch returned OK, every column has the value of     *)
(* this row, though rows have no place for NULLs and result_params still   *)
(* have what they had for the row before: NULL or not, the bytes, the      *)
(* integers by number or by name, the parts of dates and times.            *)
(* drizzle_stmt_get_int is held to values of up to 32 bits, and the text   *)
(* of an integer to unsigned columns and those of 32 bits or more.         *)
FetchedAsSent ==
  fetch = "OK" =>
    /\ \A c \in Columns : drizzle_stmt_get_is_null(c) = IsNull(sent[c])
    /\ \A c \in Columns : IsNull(sent[c]) => drizzle_stmt_get_string(c).ret = "NULL_SIZE"
    /\ \A c \in OfType(Integer) :
         /\ drizzle_stmt_get_is_unsigned(c) = columns[c].unsigned
         /\ FromName(columns[c].name, drizzle_stmt_get_bigint) = Got("OK", sent[c].value)
         /\ sent[c].value < 2^Bits["LONG"]
              => drizzle_stmt_get_int(c) = Got("OK", sent[c].value)
         /\ columns[c].unsigned \/ columns[c].type \in {"LONG", "LONGLONG"}
              => drizzle_stmt_get_string(c) = Got("OK", Number(c))
    /\ \A c \in OfType(Float) : drizzle_stmt_get_double(c) = Got("OK", sent[c].value)
    /\ \A c \in OfType(Text) : drizzle_stmt_get_string(c) = Got("OK", sent[c].value)
    /\ \A c \in OfType({"TIME"} \cup Dates) : Whole(params[c].data) = sent[c].value

(* The text of a time fits the buffer of time_to_string, whose comment     *)
(* gives its size and whose assertion checks it, except for a negative     *)
(* time of a hundred hours or more with microseconds.                      *)
TextsFit ==
  fetch = "OK" => \A c \in OfType({"TIME"}) :
    LET text == drizzle_stmt_get_string(c).value IN
    \/ text.negative /\ text.hours >= 100 /\ text.microsecond >= 0
    \/ TimeTextLength(text) < TimeTextSize

(* The microseconds of a time are shown if its column has decimals, as the *)
(* comment in time_to_string has it, unless a column before it is NULL.    *)
DecimalsShown ==
  fetch = "OK" => \A c \in OfType({"TIME", "DATETIME"}) :
    \/ \E k \in 1..(c - 1) : IsNull(sent[k])
    \/ params[c].data = Midnight
    \/ params[c].data.show <=> columns[c].decimals # 0
===============================================================================
