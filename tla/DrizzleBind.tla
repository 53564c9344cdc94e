------------------------------ MODULE DrizzleBind ------------------------------
(***************************************************************************)
(* The parameters of a prepared statement: bound, sent as long data, put   *)
(* into the request of drizzle_stmt_execute, and read by the server, which *)
(* is external and keeps what a later request leaves out: the types and    *)
(* the long data.  The connection blocks, so that each call is one step,   *)
(* and the statement is prepared.                                          *)
(*                                                                         *)
(* Types that no function of the API can bind (UNEXPECTED_DATA) are left   *)
(* out.  A float is a number of 4 bytes, a double one of 8.                *)
(***************************************************************************)
EXTENDS DrizzlePack, FiniteSets

CONSTANTS
  ParamCount,   \* stmt->param_count
  Numbers,      \* the parameter numbers the application gives
  Values,       \* what it binds: type, value, is_unsigned
  MaxExecutes   \* bound on the executions

VARIABLES
  params,       \* stmt->query_params
  null_bitmap,  \* the parameters whose bit is set
  new_bind,     \* stmt->new_bind
  server,       \* external: the types it knows, and the long data it has
  request,      \* whether the last request fit its memory, and its times did
  executed,     \* whether the server read what was bound, and what else was so
  executes      \* how many there were

vars == <<params, null_bitmap, new_bind, server, request, executed, executes>>

Params == 0..(ParamCount - 1)
BitmapLength == (ParamCount + 7) \div 8

Fixed == [TINY |-> 1, SHORT |-> 2, LONG |-> 4, LONGLONG |-> 8, FLOAT |-> 4, DOUBLE |-> 8]
Temporal == {"TIME", "TIMESTAMP"}

Unbound == [type |-> "NONE", value |-> 0, is_unsigned |-> FALSE,
            is_bound |-> FALSE, is_long_data |-> FALSE]
Unknown == <<"NONE", FALSE>>
NotExecuted == [arrived |-> TRUE, retyped |-> FALSE, unannounced |-> FALSE]

Init ==
  /\ params = [p \in Params |-> Unbound]
  /\ null_bitmap = {} /\ new_bind = TRUE
  /\ server = [types |-> [p \in Params |-> Unknown],
               long |-> [p \in Params |-> FALSE], knows |-> TRUE]
  /\ request = [fits |-> TRUE, long_times |-> FALSE]
  /\ executed = NotExecuted /\ executes = 0

----------------------------------------------------------------------------
(* The functions that bind.                                                *)

drizzle_stmt_set_param(p, v) ==
  IF p >= ParamCount
  THEN UNCHANGED params   \* INVALID_ARGUMENT
  ELSE params' = [params EXCEPT ![p] =
         [@ EXCEPT !.type = v.type, !.value = v.value,
                   !.is_unsigned = v.is_unsigned, !.is_bound = TRUE]]

(* A string is not copied, a NULL has no value.                            *)
SetByPointer(p, v) ==
  v.type \in {"STRING", "NULL"} /\ drizzle_stmt_set_param(p, v)

(* The others write the value into data_buffer first, after CHECK_PARAM_NUM*)
(* which lets the number after the last one pass: that data_buffer is not  *)
(* one of the statement's, and nothing the model keeps.                    *)
SetByValue(p, v) ==
  /\ v.type \in DOMAIN Fixed \cup Temporal
  /\ IF p > ParamCount
     THEN UNCHANGED params   \* INVALID_ARGUMENT
     ELSE drizzle_stmt_set_param(p, v)

Set ==
  /\ \E p \in Numbers, v \in Values : SetByPointer(p, v) \/ SetByValue(p, v)
  /\ UNCHANGED <<null_bitmap, new_bind, server, request, executed, executes>>

(* The flag is set also when the command failed.                           *)
drizzle_stmt_send_long_data ==
  /\ \E p \in Numbers, lost \in BOOLEAN :
       IF p >= ParamCount
       THEN UNCHANGED <<params, server>>   \* INVALID_ARGUMENT
       ELSE /\ params' = [params EXCEPT ![p].is_long_data = TRUE]
            /\ server' = IF lost THEN [server EXCEPT !.knows = FALSE]
                         ELSE [server EXCEPT !.long[p] = TRUE]
  /\ UNCHANGED <<null_bitmap, new_bind, request, executed, executes>>

WithoutLongData == [p \in Params |-> [params[p] EXCEPT !.is_long_data = FALSE]]

drizzle_stmt_reset ==
  /\ params' = WithoutLongData
  /\ \E lost \in BOOLEAN :
       server' = [server EXCEPT !.long = [p \in Params |-> FALSE],
                                !.knows = @ /\ ~lost]
  /\ UNCHANGED <<null_bitmap, new_bind, request, executed, executes>>

----------------------------------------------------------------------------
(* drizzle_stmt_execute: the request.                                      *)

IsNull(p) == params[p].type = "NULL"
Counted == {p \in Params : ~IsNull(p)}

(* The length given to drizzle_stmt_set_param, which for a time is 0.      *)
Length(p) ==
  LET type == params[p].type IN
  IF type \in DOMAIN Fixed THEN Fixed[type]
  ELSE IF type = "STRING" THEN Len(params[p].value)
  ELSE 0

(* param_lengths: a length and a header for each that is not NULL.         *)
ParamLengths(header) ==
  LET sum[n \in 0..ParamCount] ==
        IF n = 0 THEN 0
        ELSE sum[n - 1] + (IF IsNull(n - 1) THEN 0 ELSE Length(n - 1) + header)
  IN sum[ParamCount]

(* Mutant of BufferSize: room for a length of one byte.                    *)
BufferSizeTight ==
  4 + 1 + 4 + BitmapLength + 1 + 2 * Cardinality(Counted) + ParamLengths(1)

BufferSize ==
  4 + 1 + 4 + BitmapLength + 1 + 2 * Cardinality(Counted) + ParamLengths(8)

(* Mutant of NullBitmap: no memset().                                      *)
NullBitmapKept == null_bitmap \cup {p \in Params : IsNull(p) /\ ~params[p].is_long_data}

NullBitmap == {p \in Params : IsNull(p) /\ ~params[p].is_long_data}

InOrder(S) == SetToSortSeq(S, <)

(* With new_bind the types of the parameters that are not NULL.            *)
Types ==
  IF new_bind
  THEN [i \in 1..Cardinality(Counted) |->
          LET param == params[InOrder(Counted)[i]]
          IN <<param.type, param.is_unsigned>>]
  ELSE <<>>

Written(p) ==
  LET param == params[p] IN
  IF param.is_long_data \/ param.type = "NULL" THEN <<>>
  ELSE CASE param.type \in DOMAIN Fixed -> SetBytes(param.value, Fixed[param.type])
         [] param.type = "TIME" -> drizzle_pack_time(param.value)
         [] param.type = "TIMESTAMP" -> drizzle_pack_datetime(param.value)
         [] param.type = "STRING" -> PackString(param.value)

Data == FlattenSeq([i \in 1..ParamCount |-> Written(i - 1)])

(* The header that BufferSize has for a parameter without a length is all  *)
(* the room of a time: 9 bytes, or 13 and 12 with microseconds, are more.  *)
LongTimes == \E p \in Params : params[p].type \in Temporal /\ Len(Written(p)) > 8

BufferUsed == 4 + 1 + 4 + BitmapLength + 1 + 2 * Len(Types) + Len(Data)

----------------------------------------------------------------------------
(* External: the server reads the types, if there are any, of the          *)
(* parameters not in the bitmap, and by them the values.                   *)

Announced ==
  LET open == InOrder(Params \ NullBitmap) IN
  IF ~new_bind THEN server.types
  ELSE [p \in Params |->
          IF \E i \in 1..Len(Types) : i <= Len(open) /\ open[i] = p
          THEN Types[CHOOSE i \in 1..Len(open) : open[i] = p]
          ELSE server.types[p]]

Read(type, value, is_unsigned) ==
  [type |-> type, value |-> value, is_unsigned |-> is_unsigned]

Malformed == Answer("malformed", 0, [buffer |-> <<>>, packet_size |-> 0])

Lengths(type) ==
  CASE type = "TIME" -> {0, 8, 12}
    [] type = "TIMESTAMP" -> {0, 4, 7, 11}
    [] OTHER -> Nat

(* The next value, of a type, with what is left.                           *)
ReadAs(type, c) ==
  IF c.buffer = <<>> THEN Malformed
  ELSE IF type \in DOMAIN Fixed
       THEN IF Len(c.buffer) < Fixed[type] THEN Malformed
            ELSE Answer("OK", GetBytes(c.buffer, Fixed[type]), Used(c, Fixed[type]))
  ELSE LET length == drizzle_unpack_length(c) IN
       IF length.ret # "OK" \/ length.value > Len(length.con.buffer)
          \/ length.value \notin Lengths(type)
       THEN Malformed
       ELSE IF type = "TIME" THEN UnpackField(c, drizzle_unpack_time)
       ELSE IF type = "TIMESTAMP" THEN UnpackField(c, drizzle_unpack_datetime)
       ELSE drizzle_unpack_string(c, c.packet_size + 1)

(* What it reads of each parameter, from the first on.                     *)
ServerReads ==
  LET ReadParam(p, c) ==
        LET type == Announced[p]
            now == ReadAs(type[1], c)
        IN IF p \in NullBitmap THEN [read |-> Read("NULL", 0, FALSE), con |-> c]
           ELSE IF server.long[p] THEN [read |-> Read("LONG_DATA", 0, FALSE), con |-> c]
           ELSE IF type = Unknown \/ now.ret # "OK"
                THEN [read |-> Read("NONE", 0, FALSE), con |-> Malformed.con]
           ELSE [read |-> Read(type[1], now.value, type[2]), con |-> now.con]
      steps[i \in 0..ParamCount] ==
        IF i = 0 THEN [con |-> [buffer |-> Data, packet_size |-> Len(Data)]]
        ELSE ReadParam(i - 1, steps[i - 1].con)
  IN [p \in Params |-> steps[p + 1].read]

(* What the application means it to read.                                  *)
Bound ==
  [p \in Params |->
     LET param == params[p] IN
     IF param.is_long_data THEN Read("LONG_DATA", 0, FALSE)
     ELSE IF IsNull(p) THEN Read("NULL", 0, FALSE)
     ELSE IF param.type \in Temporal
          THEN Read(param.type, [param.value EXCEPT !.show = TRUE], FALSE)
     ELSE Read(param.type, param.value, param.is_unsigned)]

Same(read, bound) ==
  /\ read.type = bound.type /\ read.is_unsigned = bound.is_unsigned
  /\ read.value = bound.value

(* A parameter has another type than the server has for it, and the        *)
(* request does not say so; or it has long data and is bound to NULL.      *)
Retyped ==
  ~new_bind /\ \E p \in Counted :
    server.types[p] # <<params[p].type, params[p].is_unsigned>>
Unannounced == \E p \in Params : IsNull(p) /\ params[p].is_long_data

----------------------------------------------------------------------------
ExecuteUnbound ==
  /\ \E p \in Params : ~params[p].is_bound
  /\ UNCHANGED <<null_bitmap, new_bind, server, request, executed>>

Prepared ==
  /\ \A p \in Params : params[p].is_bound
  /\ null_bitmap' = NullBitmap
  /\ request' = [fits |-> BufferUsed <= BufferSize, long_times |-> LongTimes]

Reached ==
  /\ server.knows
  /\ server' = [server EXCEPT !.types = Announced]
  /\ executed' = [arrived |-> \A p \in Params : Same(ServerReads[p], Bound[p]),
                  retyped |-> Retyped, unannounced |-> Unannounced]

ExecuteOK ==
  /\ Prepared /\ Reached
  /\ new_bind' = FALSE

(* The server refuses it, after or before it has read the parameters, or   *)
(* the connection is lost.                                                 *)
ExecuteFails ==
  /\ Prepared /\ UNCHANGED new_bind
  /\ \/ Reached
     \/ UNCHANGED <<server, executed>>
     \/ server' = [server EXCEPT !.knows = FALSE] /\ UNCHANGED executed

drizzle_stmt_execute ==
  /\ executes < MaxExecutes /\ executes' = executes + 1
  /\ ExecuteUnbound \/ ExecuteOK \/ ExecuteFails
  /\ UNCHANGED params

Next == Set \/ drizzle_stmt_send_long_data \/ drizzle_stmt_reset \/ drizzle_stmt_execute

Spec == Init /\ [][Next]_vars

----------------------------------------------------------------------------
(* The server reads each parameter of drizzle_stmt_execute as it was bound *)
(* last, NULLs and long data included, after any number of executions,     *)
(* failures and resets between them, as long as no parameter changed its   *)
(* type and none bound to NULL has long data.                              *)
ParamsArrive ==
  executed.arrived \/ executed.retyped \/ executed.unannounced

(* The bytes that drizzle_stmt_execute writes are no more than it          *)
(* allocated after adding up "parameter length + 8 byte header", if no     *)
(* time among them is longer than that header.                             *)
RequestFits == request.fits \/ request.long_times
================================================================================
