---------------------------- MODULE DrizzlePackets ----------------------------
(***************************************************************************)
(* Why a packet is found where a handler looks for it: the invariant that  *)
(* says how far the server, the library and the application have got with  *)
(* the handshake and with each reply.  Then why the result of a call is    *)
(* there until the call returns, and why commands go out in their order.   *)
(* DrizzlePacketProofs proves all three.                                   *)
(***************************************************************************)
EXTENDS DrizzleProperties

----------------------------------------------------------------------------
(* Why packets are found where they are looked for: what holds, with the   *)
(* invariants above, when the application does not interleave its calls    *)
(* and does not skip columns, when the server does not say good-bye, and   *)
(* when event_watch_fn does not refuse the mask of a TCP connection.       *)

OrderlyUse ==
  /\ Disciplined /\ "skip" \notin ApiCalls
  /\ ~ ServerGoodbye
  /\ CallbackAccepts

(* What the server has said and the library has not parsed: nothing, or s, *)
(* the rest of one reply about command k.  Heads and bodies take turns,    *)
(* and number is the packet_number that goes with it; taken is 1 when the  *)
(* head of the first packet has been consumed.                             *)
Said == buf \o s2c
Silent == buf = <<>> /\ s2c = <<>>

Framed(s, number, taken, k) ==
  /\ s # <<>>
  /\ s[1].part = (IF taken = 1 THEN "body" ELSE "head")
  /\ number = (IF taken = 1 THEN (s[1].seq + 1) % PacketMod ELSE s[1].seq)
  /\ s[Len(s)].part = "body"
  /\ \A i \in 1..Len(s) : s[i].k = k
  /\ \A i \in 1..(Len(s) - 1) :
       \/ /\ s[i].part = "head" /\ s[i + 1].part = "body"
          /\ s[i + 1].seq = s[i].seq
       \/ /\ s[i].part = "body" /\ s[i + 1].part = "head"
          /\ s[i + 1].seq = (s[i].seq + 1) % PacketMod

(* One packet, of one of these kinds.                                      *)
OneLeft(s, number, taken, kinds, k) ==
  /\ Framed(s, number, taken, k)
  /\ Len(s) <= 2 - taken
  /\ \A i \in 1..Len(s) : s[i].kind \in kinds

(* Rows, and the EOF or error packet behind them.                          *)
Lasts == {"eof", "err"}
RowsLeft(s, number, taken, k) ==
  /\ Framed(s, number, taken, k)
  /\ \A i \in 1..Len(s) : IF i <= Len(s) - 2 THEN s[i].kind = "row"
                                             ELSE s[i].kind \in Lasts

(* Columns up to the EOF packet that ends at e, and rows; first is how     *)
(* many units of the packet in front of the columns are left.              *)
ResultKinds(s, first, e) ==
  /\ e + 2 <= Len(s) /\ s[e].part = "body"
  /\ first > 0 => e >= first + 2
  /\ \A i \in 1..Len(s) :
       IF i <= first THEN s[i].kind = "count" /\ s[i].n > 0
       ELSE IF i <= e - 2 THEN s[i].kind = "column"
       ELSE IF i <= e THEN s[i].kind = "eof"
       ELSE IF i <= Len(s) - 2 THEN s[i].kind = "row"
       ELSE s[i].kind \in Lasts

ColumnsLeft(s, number, taken, k) ==
  Framed(s, number, taken, k) /\ \E e \in 1..Len(s) : ResultKinds(s, 0, e)

ReplyLeft(s, number, taken, k, name) ==
  \/ OneLeft(s, number, taken, {"ok", "err"}, k)
  \/ /\ name = "query" /\ Framed(s, number, taken, k)
     /\ \E e \in 1..Len(s) : ResultKinds(s, 2 - taken, e)

OneAhead(taken, kinds, k) == OneLeft(Said, packet_number, taken, kinds, k)
RowsAhead(taken) == RowsLeft(Said, packet_number, taken, command.k)
FieldsAhead == RowsAhead(1) /\ Len(Said) > 2 /\ packet_size = 1 /\ buf # <<>>
ColumnsAhead(taken) == ColumnsLeft(Said, packet_number, taken, command.k)
ReplyAhead(taken) == ReplyLeft(Said, packet_number, taken, command.k, command.name)

(* The call in progress, its op, and the stage of the reply that the       *)
(* application has reached.                                                *)
Asks == Commands \cup {"connect"}
Connecting == stack \in ConnectStates \cup HandshakeStates
InCall == pc \notin {"app", "again", "freed"}

CallsMatch ==
  /\ sock # "connected" => c2s = <<>>
  /\ pc \in {"app", "again"} => ~ inConnect
  /\ Connecting => /\ stage = "done"
                   /\ pc \in {"app", "again"} => op \in Asks
                   /\ InCall => inConnect
  /\ pc \notin {"app", "freed"} =>
       /\ op \in Asks \cup {"columns", "row", "fields"}
       /\ op \in Asks <=> stage = "done"
       /\ op = "columns" <=> stage = "columns"
       /\ op = "fields" => pc # "again"
       /\ inConnect => op \in Asks
       /\ op = "connect" /\ InCall => inConnect
  /\ stage = "columns" => result.columns > 0
  /\ stage = "rows" => result.buffered
  /\ pc = "app" /\ op = "row" /\ rc = "OK" /\ result.row_current = 0 => stage = "done"
  /\ Top({"field_read"}) => pc = "loop" /\ op = "fields" /\ ready
  /\ ready /\ inConnect => stack = <<>>

(* What is left of the reply when an operation is done with it, and what   *)
(* the application is told of it.                                          *)
After ==
  /\ inConnect \/ op \in Commands \cup {"columns", "row", "fields"}
  /\ inConnect => Silent
  /\ ~ inConnect /\ op \in Commands =>
       IF op = "query" /\ result.columns > 0 THEN ColumnsAhead(0) ELSE Silent
  /\ op = "columns" => IF result.column THEN ColumnsAhead(0) ELSE RowsAhead(0)
  /\ op = "row" => IF result.row_current = 0 THEN Silent ELSE FieldsAhead
  /\ op = "fields" => RowsAhead(0) /\ result.row_current # 0

Succeeding == pc = "loop" \/ (pc = "leave" /\ rc = "OK")
Complaining == pc \in {"stop", "leave"} /\ rc = "ERROR_CODE"

Between ==
  /\ pc = "app" \/ Succeeding \/ Complaining
  /\ pc = "app" => /\ stage = "done" => Silent
                   /\ stage = "columns" => ColumnsAhead(0)
                   /\ stage = "rows" => RowsAhead(0)
  /\ Succeeding => After
  /\ Complaining => Silent

Reading(h) == {<<"packet_read", h>>, <<"read", "packet_read", h>>}

ReplyInOrder ==
  ready /\ ~ Closing =>
    /\ stack = <<>> => Between
    /\ pc = "app" \/ Complaining => stack = <<>>
    /\ pc \in {"stop", "leave"} => rc # "NOT_READY"
    /\ stack \in Reading("result_read") => (Silent /\ packet_number = 1) \/ ReplyAhead(0)
    /\ stack = <<"result_read">> =>
         IF op = "row" THEN OneAhead(1, {"err"}, command.k) ELSE ReplyAhead(1)
    /\ stack \in Reading("column_read") => ColumnsAhead(0)
    /\ stack = <<"column_read">> => ColumnsAhead(1)
    /\ stack \in ReaderStates("column_read") => op = "columns" /\ result.column
    /\ stack \in Reading("row_read") => RowsAhead(0)
    /\ stack = <<"row_read">> => RowsAhead(1)
    /\ stack \in ReaderStates("row_read") => op = "row"
    /\ stack = <<"field_read">> => FieldsAhead /\ result.row_current # 0
    /\ stack # <<"read", "field_read">>
    /\ ~ result.skip

(* The last piece of a command that the server answers: the answer comes   *)
(* while the library waits for it, and not before.                         *)
Final(u) == u.kind \in {"query", "init_db"} /\ u.n >= Chunks(u.kind)

(* The last of s, when it is such a piece, is one of the command at hand.  *)
Asked(s) ==
  \A i \in 1..Len(s) :
    Final(s[i]) => i = Len(s) /\ s[i].k = command.k /\ s[i].kind = command.name

NoneFinal(s) == \A i \in 1..Len(s) : ~ Final(s[i])

Requests ==
  ready /\ ~ Closing =>
    /\ stack \in CommandStates =>
         IF op = "row" THEN stack = <<"result_read">>
                       ELSE command.name = op /\ result.columns = 0
    /\ Top({"command_write"}) =>
         Silent /\ (command.left < Chunks(command.name) => packet_number = 1)
    /\ Top({"write"}) => s2c = <<>> /\ packet_number = 1 /\ Asked(buf)
    /\ stack = <<"write">> => op = "noreply"
    /\ stack = <<"write", "command_write">> => command.left < Chunks(command.name)
    /\ stack \in ReaderStates("result_read") \cup {<<"write", "packet_read", "result_read">>}
         => op # "noreply"
    /\ stack # <<"write", "packet_read", "result_read">> /\ Top({"write"}) => NoneFinal(buf)
    /\ Asked(c2s)
    /\ NoneFinal(c2s) \/ (stack \in Reading("result_read") /\ Silent /\ packet_number = 1)

(* The answer of the client to the greeting, alone in s.                   *)
Login(s) == /\ Len(s) = 1 /\ s[1].part = "whole" /\ s[1].kind = "auth"
            /\ packet_number = (s[1].seq + 1) % PacketMod

HandshakeInOrder ==
  ~ ready /\ sock = "connected" /\ ~ Closing =>
    /\ stack \in Reading("handshake_server_read")
                 \cup {<<"connecting", "packet_read", "handshake_server_read">>} =>
         /\ c2s = <<>>
         /\ \/ Silent /\ packet_number = 0
            \/ OneAhead(0, {"greeting", "refusal", "err"}, 0)
    /\ stack = <<"handshake_server_read">> =>
         /\ c2s = <<>>
         /\ IF packet_size = 1 THEN OneAhead(1, {"greeting", "refusal", "err"}, 0)
                               ELSE Silent
    /\ Top({"handshake_client_write"}) => Silent /\ c2s = <<>>
    /\ Top({"write"}) => s2c = <<>> /\ c2s = <<>> /\ Login(buf)
    /\ stack \in Reading("handshake_result_read") =>
         \/ Silent /\ (c2s = <<>> \/ Login(c2s))
         \/ c2s = <<>> /\ OneAhead(0, {"ok", "eof", "err"}, 0)
    /\ stack = <<"handshake_result_read">> => c2s = <<>> /\ OneAhead(1, {"ok", "eof", "err"}, 0)

(* With StackInvariant and SessionInvariant it is preserved by every step. *)
PacketInvariant == CallsMatch /\ ReplyInOrder /\ Requests /\ HandshakeInOrder

----------------------------------------------------------------------------
(* The result that a call fills in is there until the call returns for     *)
(* good, if drizzle_select_db, which frees it, never returns IO_WAIT.      *)

SelectsAtOnce == "init_db" \in ApiCalls => ~ NonBlocking

ResultHeld ==
  /\ (InCall /\ ~ inConnect) \/ (pc = "again" /\ ready)
       => op = "noreply" \/ result.at = "live"
  /\ pc \in {"stop", "leave"} /\ rc = "IO_WAIT" /\ ~ inConnect => NonBlocking
  /\ op \in Commands => op \in ApiCalls

----------------------------------------------------------------------------
(* What has been written of the commands, in the order of their pieces.    *)

Written == c2s \o (IF Top({"write"}) THEN buf ELSE <<>>)

Follows(s) ==
  /\ \A i \in 1..Len(s) : s[i].part = "whole"
  /\ \A i \in 1..(Len(s) - 1) :
       \/ s[i + 1].k = s[i].k /\ s[i + 1].n = s[i].n + 1
       \/ s[i + 1].k > s[i].k /\ s[i + 1].n = 1

(* It ends in front of the next piece of command c.                        *)
Behindhand(s, c) ==
  s # <<>> => \/ s[Len(s)].k < c.k /\ c.left = Chunks(c.name)
              \/ s[Len(s)].k = c.k /\ s[Len(s)].n = Chunks(c.name) - c.left

PiecesInOrder ==
  /\ Follows(c2s)
  /\ command.k = commands
  /\ ready /\ server = "idle" => Follows(Written) /\ Behindhand(Written, command)
=============================================================================
