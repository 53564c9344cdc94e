---------------------------- MODULE MCDrizzleValues ----------------------------
(***************************************************************************)
(* Bytes have 18 values: one byte says 0..12, two 0..323, three 0..5831.   *)
(***************************************************************************)
EXTENDS DrizzleValues

Record(negative, year, month, day, hour, second, microsecond) ==
  [Midnight EXCEPT !.negative = negative, !.year = year, !.month = month,
     !.day = day, !.hour = hour, !.second = second, !.microsecond = microsecond]

Times == {Midnight, Record(TRUE, 0, 0, 0, 0, 0, 0), Record(TRUE, 0, 0, 0, 3, 0, 0),
          Record(FALSE, 0, 0, 400, 0, 5, 0), Record(TRUE, 0, 0, 0, 0, 0, 9),
          Record(FALSE, 0, 0, 1, 0, 0, 0)}
Datetimes == {Midnight, Record(FALSE, 300, 7, 0, 0, 0, 0),
              Record(FALSE, 9, 1, 2, 0, 4, 0), Record(FALSE, 0, 0, 0, 0, 0, 330)}

(* Each form of a value, and a time that is longer than its header.        *)
SomeBindable ==
  LET Value(type, value, is_unsigned) ==
        [type |-> type, value |-> value, is_unsigned |-> is_unsigned]
  IN {Value("NULL", "null", FALSE), Value("TINY", 7, TRUE), Value("FLOAT", 9, FALSE),
      Value("STRING", <<4, 5>>, FALSE),
      Value("TIMESTAMP", Record(FALSE, 20, 0, 0, 3, 0, 0), FALSE),
      Value("TIME", Record(TRUE, 0, 0, 0, 6, 3, 0), FALSE)}

SomeFields ==
  [type : {"length"}, value : {0, 12, 13, 14, 323, 324, 5831, 5832, 500000}]
    \cup [type : {"null"}, value : {0}]
    \cup [type : {"string"}, value : {<<>>, <<17, 13>>, <<1, 2, 3>>, [i \in 1..13 |-> i]}]
    \cup [type : {"time"}, value : Times]
    \cup [type : {"datetime"}, value : Datetimes]
    \cup [type : {"error"}, value : {[code |-> 20, sqlstate |-> <<1, 2>>, text |-> <<5>>]}]

(* Columns of different types around one that may be NULL, a name that     *)
(* occurs twice, a type that cannot be fetched, and no columns at all.     *)
SomeColumnLists ==
  LET Column(name, type, unsigned, decimals) ==
        [name |-> name, type |-> type, unsigned |-> unsigned, decimals |-> decimals]
  IN {<<Column("a", "LONG", FALSE, 0), Column("b", "TIME", FALSE, 6), Column("c", "STRING", FALSE, 0)>>,
      <<Column("a", "TINY", TRUE, 0), Column("b", "LONGLONG", FALSE, 0), Column("c", "DATE", FALSE, 0)>>,
      <<Column("a", "FLOAT", FALSE, 2), Column("b", "VARCHAR", FALSE, 0), Column("c", "SHORT", FALSE, 0)>>,
      <<Column("a", "DATETIME", FALSE, 0), Column("b", "DATETIME", FALSE, 6), Column("a", "BLOB", FALSE, 0)>>,
      <<>>}

(* Integers of 2, 3, 4 and 6 bits; a time of more than 99 hours.           *)
SomeBits == [TINY |-> 2, SHORT |-> 3, LONG |-> 4, LONGLONG |-> 6]

SomeRowValues ==
  LET Value(type, values) == {[type |-> type, value |-> v] : v \in values}
      Moment(hour, microsecond) == Record(FALSE, 20, 2, 0, hour, 0, microsecond)
      Duration(negative, day, microsecond) ==
        Record(negative, 0, 0, day, 6, 0, microsecond)
  IN Value("TINY", {0, 3}) \cup Value("SHORT", {7}) \cup Value("LONG", {0, 15})
    \cup Value("LONGLONG", {3, 63}) \cup Value("FLOAT", {2})
    \cup Value("STRING", {<<>>, <<1, 2>>}) \cup Value("BLOB", {<<7>>})
    \cup Value("VARCHAR", {<<5>>}) \cup Value("DATE", {Midnight, Moment(0, 0)})
    \cup Value("DATETIME", {Moment(0, 0), Moment(4, 5)})
    \cup Value("TIME", {Midnight, Duration(FALSE, 5, 9), Duration(TRUE, 0, 9),
                        Duration(TRUE, 5, 9)})
===============================================================================
