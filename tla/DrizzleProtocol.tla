--------------------------- MODULE DrizzleProtocol ---------------------------
(***************************************************************************)
(* The handlers that speak the protocol: the handshake, a command and the  *)
(* reading of its reply (drizzle_state_handshake_*, _command_write,        *)
(* _result_read, _column_read, _row_read and _field_read).                 *)
(*                                                                         *)
(* A unit of the stream names the packet it belongs to: its kind, its      *)
(* sequence number and the number of the command it is about (0 during the *)
(* handshake).  packet_size counts the units of the packet being parsed,   *)
(* so it is 1 from drizzle_state_packet_read until the body is consumed;   *)
(* the writers, which use the field as scratch space, leave it alone here  *)
(* (drizzle_state_packet_read assigns it before anything reads it again).  *)
(***************************************************************************)
EXTENDS DrizzleIO

CONSTANTS CommandChunks, MaxColumns, MaxRows

ASSUME ProtocolAssumption ==
  /\ CommandChunks \in Nat \ {0}
  /\ MaxColumns \in Nat \ {0} /\ MaxRows \in Nat

Unit(part, kind, seq, k, n) ==
  [part |-> part, kind |-> kind, seq |-> seq, k |-> k, n |-> n]

ServerKinds == {"greeting", "refusal", "ok", "eof", "err", "count", "column",
                "row"}
Commands == {"query", "init_db", "noreply", "quit"}
ClientKinds == {"auth"} \cup Commands

(* Pieces a command packet is copied to the buffer in; only a query can be *)
(* longer than the room left there.                                        *)
Chunks(name) == IF name = "query" THEN CommandChunks ELSE 1

(* The result object: where the pointer points, and what was read into it. *)
(* column is non-NULL between a column and the EOF packet after the last.  *)
EmptyResult == [at |-> "null", columns |-> 0, column |-> FALSE,
                column_current |-> 0, row_current |-> 0,
                skip |-> FALSE, buffered |-> FALSE, eof |-> FALSE]
NewResult == [EmptyResult EXCEPT !.at = "live"]
Free(r) == IF r.at = "live" THEN [EmptyResult EXCEPT !.at = "freed"] ELSE r

(* What no protocol handler touches: they work on the buffer alone.        *)
Quiet == UNCHANGED <<ioVars, pollVars, addrinfo_next, budgetVars, callVars,
                     appVars>>

(* The body of the packet at hand, and its consumption.                    *)
Body == Head(buf)
Consume == buf' = Tail(buf) /\ packet_size' = 0

(* Every parser asks for more data when the packet is not all there, or    *)
(* parses it.                                                              *)
Short == Len(buf) < packet_size
Parse(parsed) ==
  IF Short
  THEN Push(<<"read">>) /\ Continue /\ UNCHANGED <<conVars, dataVars, cmdVars>>
  ELSE parsed

----------------------------------------------------------------------------
(* drizzle_state_handshake_server_read.                                    *)

(* An error packet: consumed, but the state is not popped, and ERROR_CODE  *)
(* is a code for which drizzle_state_loop does not close.  When the state  *)
(* is run again there is no packet, and whatever byte is found in the      *)
(* unused part of the buffer may pass for the start of an error packet.    *)
GreetingIsError ==
  /\ IF packet_size = 1 THEN Body.kind = "err" /\ Consume
                        ELSE UNCHANGED dataVars
  /\ Return("ERROR_CODE")
  /\ UNCHANGED <<stack, conVars>>

(* Too short (packet_size 0 included), another protocol version or no      *)
(* version string, which differ in the code returned only; or a greeting   *)
(* with more data behind it.                                               *)
GreetingRejected ==
  /\ \/ /\ packet_size = 1 /\ Body.kind = "greeting" /\ Len(buf) > 1
        /\ Return("UNEXPECTED_DATA") /\ Consume
     \/ /\ packet_size = 1 => Body.kind \notin {"greeting", "err"}
        /\ Return("BAD_HANDSHAKE_PACKET") /\ UNCHANGED dataVars
  /\ UNCHANGED <<stack, conVars>>

GreetingAccepted ==
  /\ packet_size = 1 /\ Body.kind = "greeting" /\ Len(buf) = 1
  /\ Consume
  /\ Replace(<<"handshake_client_write", "write", "packet_read",
               "handshake_result_read">>)
  /\ Continue
  /\ UNCHANGED conVars

drizzle_state_handshake_server_read ==
  /\ Running("handshake_server_read")
  /\ Parse(/\ GreetingIsError \/ GreetingRejected \/ GreetingAccepted
           /\ UNCHANGED cmdVars)
  /\ Quiet

----------------------------------------------------------------------------
drizzle_state_handshake_client_write ==
  /\ Running("handshake_client_write")
  /\ buf' = Append(buf, Unit("whole", "auth", packet_number, 0, 0))
  /\ packet_number' = (packet_number + 1) % PacketMod
  /\ Pop /\ Continue
  /\ UNCHANGED <<ready, packet_size, cmdVars>> /\ Quiet

----------------------------------------------------------------------------
(* Mutant of Filled: column_count is not stored.                           *)
FilledWithoutCount(r) == IF Body.kind = "eof" THEN [r EXCEPT !.eof = TRUE] ELSE r

(* What drizzle_state_result_read makes of a packet: r is the result       *)
(* filled in.                                                              *)
Filled(r) ==
  CASE Body.kind = "eof"   -> [r EXCEPT !.eof = TRUE]
    [] Body.kind = "count" -> [r EXCEPT !.columns = Body.n]
    [] OTHER               -> r

(* A result is made for the answer to the authentication packet and freed  *)
(* again, so that con->result dangles.  An EOF packet asks for an old kind *)
(* of authentication; drizzle_state_result_read has popped the state.      *)
drizzle_state_handshake_result_read ==
  /\ Running("handshake_result_read")
  /\ result' = Free(NewResult)
  /\ IF Short
     THEN Push(<<"read">>) /\ Continue /\ UNCHANGED <<ready, dataVars>>
     ELSE /\ Consume /\ Pop
          /\ CASE Body.kind = "err" -> Return("HANDSHAKE_FAILED") /\ UNCHANGED ready
               [] Body.kind = "eof" /\ Tail(stack) = <<>> ->
                    Return("AUTH_FAILED") /\ UNCHANGED ready
               [] OTHER -> Continue /\ ready' = (ready \/ Tail(stack) = <<>>)
  /\ UNCHANGED <<packet_number, command>> /\ Quiet

----------------------------------------------------------------------------
(* drizzle_state_command_write.                                            *)

(* The buffer already holds data and has no room for a command's head.     *)
FlushFirst ==
  /\ command.left = Chunks(command.name) /\ buf # <<>>
  /\ Push(<<"write">>)
  /\ UNCHANGED <<packet_number, buf, command>>

(* Mutant of Copied: the rest of a command starts at its beginning again.  *)
CopiedFromStart(m) ==
  [i \in 1..m |-> Unit("whole", command.name, 0, command.k, i)]

(* As much of the command as fits goes behind what is in the buffer; the   *)
(* rest is sent from the caller's memory, when the buffer has been sent.   *)
Copied(m) ==
  LET sent == Chunks(command.name) - command.left
  IN  [i \in 1..m |-> Unit("whole", command.name, 0, command.k, sent + i)]

(* state.no_result_read is set during a call that expects no reply.        *)
Reply == IF op = "noreply" THEN <<>> ELSE <<"packet_read", "result_read">>

(* Mutant of CopyCommand: packet_number goes on from the last exchange.    *)
CopyCommandGoesOn ==
  \E m \in 1..command.left :
    /\ IF command.left = Chunks(command.name)
       THEN buf' = buf \o Copied(m)
       ELSE m = command.left /\ buf' = Copied(m)
    /\ command' = [command EXCEPT !.left = @ - m]
    /\ IF m = command.left THEN Replace(<<"write">> \o Reply) ELSE Push(<<"write">>)
    /\ UNCHANGED packet_number

CopyCommand ==
  \E m \in 1..command.left :
    /\ IF command.left = Chunks(command.name)
       THEN packet_number' = 1 /\ buf' = buf \o Copied(m)
       ELSE m = command.left /\ buf' = Copied(m) /\ UNCHANGED packet_number
    /\ command' = [command EXCEPT !.left = @ - m]
    /\ IF m = command.left THEN Replace(<<"write">> \o Reply) ELSE Push(<<"write">>)

drizzle_state_command_write ==
  /\ Running("command_write")
  /\ FlushFirst \/ CopyCommand
  /\ Continue
  /\ UNCHANGED <<ready, packet_size, result>> /\ Quiet

----------------------------------------------------------------------------
(* The reply.                                                              *)

drizzle_state_result_read ==
  /\ Running("result_read")
  /\ Parse(/\ Consume /\ Pop
           /\ result' = Filled(result)
           /\ IF Body.kind = "err" THEN Return("ERROR_CODE") ELSE Continue
           /\ UNCHANGED <<conVars, command>>)
  /\ Quiet

drizzle_state_column_read ==
  /\ Running("column_read")
  /\ Parse(/\ Consume /\ Pop /\ Continue
           /\ result' = IF Body.kind = "eof"
                        THEN [result EXCEPT !.column = FALSE]
                        ELSE [result EXCEPT !.column = @ \/ ~ result.skip,
                                            !.column_current = @ + 1]
           /\ UNCHANGED <<conVars, command>>)
  /\ Quiet

(* Mutant of drizzle_state_row_read: an error packet passes for a row.     *)
RowReadWithoutErrors ==
  /\ Running("row_read")
  /\ Parse(/\ Continue /\ Pop
           /\ IF Body.kind = "eof"
              THEN Consume /\ result' = [result EXCEPT !.row_current = 0]
              ELSE /\ result' = [result EXCEPT !.row_current = @ + 1]
                   /\ UNCHANGED dataVars
           /\ UNCHANGED <<conVars, command>>)
  /\ Quiet

(* Mutant of drizzle_state_row_read: stays on the stack under result_read. *)
RowReadKeepsItself ==
  /\ Running("row_read")
  /\ Parse(/\ Continue
           /\ IF Body.kind = "eof"
              THEN Consume /\ Pop /\ result' = [result EXCEPT !.row_current = 0]
              ELSE /\ IF Body.kind = "err" THEN Push(<<"result_read">>) ELSE Pop
                   /\ result' = [result EXCEPT !.row_current = @ + 1]
                   /\ UNCHANGED dataVars
           /\ UNCHANGED <<conVars, command>>)
  /\ Quiet

(* An error instead of a row is left to drizzle_state_result_read, and the *)
(* fields of a row to drizzle_state_field_read.                            *)
drizzle_state_row_read ==
  /\ Running("row_read")
  /\ Parse(/\ Continue
           /\ CASE Body.kind = "eof" ->
                     /\ Consume /\ Pop
                     /\ result' = [result EXCEPT !.row_current = 0]
                [] Body.kind = "err" ->
                     /\ Replace(<<"result_read">>)
                     /\ UNCHANGED <<dataVars, result>>
                [] OTHER ->
                     /\ Pop
                     /\ result' = [result EXCEPT !.row_current = @ + 1]
                     /\ UNCHANGED dataVars
           /\ UNCHANGED <<conVars, command>>)
  /\ Quiet

(* The fields of the row at hand, taken as one.                            *)
drizzle_state_field_read ==
  /\ Running("field_read")
  /\ IF buf = <<>> THEN Push(<<"read">>) /\ UNCHANGED dataVars
                   ELSE Consume /\ Pop
  /\ Continue
  /\ UNCHANGED <<conVars, cmdVars>> /\ Quiet
=============================================================================
