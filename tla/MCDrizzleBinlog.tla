---------------------------- MODULE MCDrizzleBinlog ----------------------------
EXTENDS DrizzleBinlog

(* The data of a format description is longer than that of others; a       *)
(* STOP event has none, and XID without a checksum is short.               *)
SomeEvents == {[type |-> "ROTATE", size |-> 20], [type |-> "FORMAT_DESCRIPTION", size |-> 84],
               [type |-> "STOP", size |-> 0], [type |-> "XID", size |-> 8]}

(* Servers of every version, with and without checksums, whether or not    *)
(* the code guesses which.                                                 *)
SomeServers == {-1, 0, 1} \X BOOLEAN

AllModes == BOOLEAN \X {"NATIVE", "CLIENT"}
NonBlockingModes == {TRUE} \X {"NATIVE", "CLIENT"}
================================================================================
