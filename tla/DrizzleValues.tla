----------------------------- MODULE DrizzleValues -----------------------------
(***************************************************************************)
(* The values of packets, of requests and of rows: DrizzleReader,          *)
(* DrizzleBind and DrizzleFetch, one of which is picked at the start.      *)
(***************************************************************************)
EXTENDS DrizzlePack

CONSTANTS
  MaxLength, Fields,                            \* of DrizzleReader
  ParamCount, Numbers, Bindable, MaxExecutes,   \* of DrizzleBind
  Bits, ColumnLists, RowValues                   \* of DrizzleFetch

(* A string of Base^3 bytes, 16 MB, does not fit a packet.                 *)
ASSUME RequestsAssumption ==
  /\ ParamCount \in Nat /\ Numbers \subseteq Nat
  /\ \A v \in Bindable : v.type = "STRING" =>
       v.value \in Seq(0..(Base - 1)) /\ Len(v.value) < Base^3

(* A name is that of an integer only if no column before has it: by a name *)
(* the first column is found.                                              *)
ASSUME ColumnsAssumption ==
  /\ DOMAIN Bits = {"TINY", "SHORT", "LONG", "LONGLONG"} /\ 2^Bits["LONG"] \in Nat
  /\ \A list \in ColumnLists :
       /\ Len(list) \in Nat /\ DOMAIN list = 1..Len(list)
       /\ \A c \in DOMAIN list : list[c].unsigned \in BOOLEAN
       /\ \A c, k \in DOMAIN list :
            list[c].type \in DOMAIN Bits /\ list[k].name = list[c].name => c <= k

VARIABLES
  of,                                               \* whose values
  con, phase, packets, wire, got,                   \* of DrizzleReader
  query_params, null_bitmap, new_bind, server, request, executed, executes,
  state, columns, result_params, sent, fetch        \* of DrizzleFetch

Reader == INSTANCE DrizzleReader
Bind == INSTANCE DrizzleBind WITH Values <- Bindable, params <- query_params
Fetch == INSTANCE DrizzleFetch WITH Values <- RowValues, params <- result_params

(* A time of a row, of which the length is gone, is unpacked as it was.    *)
ASSUME RowValuesAssumption ==
  \A v \in RowValues :
    /\ v.type # "NULL" /\ (v.type \in DOMAIN Bits => v.value \in Nat)
    /\ v.type = "TIME" =>
         /\ Fetch!drizzle_unpack_time(Tail(Fetch!drizzle_pack_time(v.value)), 0) = v.value
         /\ v.value.hour \in Nat /\ v.value.day \in Nat
    /\ v.type \in {"DATE", "DATETIME"} =>
         Fetch!drizzle_unpack_datetime(Tail(Fetch!drizzle_pack_datetime(v.value)), 0) = v.value

packetVars == <<con, phase, packets, wire, got>>
requestVars == <<query_params, null_bitmap, new_bind, server, request, executed, executes>>
rowVars == <<state, columns, result_params, sent, fetch>>

NoPackets ==
  /\ con = [buffer |-> <<>>, packet_size |-> 0, packet_number |-> 0]
  /\ phase = "packet_read" /\ packets = <<>> /\ wire = <<>> /\ got = <<>>

Init ==
  /\ of \in {"packets", "requests", "rows"}
  /\ IF of = "packets" THEN Reader!Init ELSE NoPackets
  /\ Bind!Init /\ Fetch!Init

Next ==
  \/ of = "packets"  /\ Reader!Next /\ UNCHANGED <<of, requestVars, rowVars>>
  \/ of = "requests" /\ Bind!Next   /\ UNCHANGED <<of, packetVars, rowVars>>
  \/ of = "rows"     /\ Fetch!Next  /\ UNCHANGED <<of, packetVars, requestVars>>

Spec == Init /\ [][Next]_<<of, packetVars, requestVars, rowVars>>

----------------------------------------------------------------------------
(* The properties, each stated where it is defined.                        *)

(* pack.cc unpacks what it packed.                                         *)
UnpackedAsPacked == Reader!UnpackedAsPacked

(* What is left of a packet is what its other fields need.                 *)
PacketAccounted == Reader!PacketAccounted

(* The server reads each parameter as it was bound last.                   *)
ParamsArrive == Bind!ParamsArrive

(* The request of drizzle_stmt_execute fits the memory allocated for it.   *)
RequestFits == Bind!RequestFits

(* The values of a row are those the server sent.                          *)
FetchedAsSent == Fetch!FetchedAsSent

(* The text of a time fits the buffer of time_to_string.                   *)
TextsFit == Fetch!TextsFit

(* Microseconds are shown if the column of the value has decimals.         *)
DecimalsShown == Fetch!DecimalsShown
===============================================================================
