------------------------- MODULE DrizzleBinlogProofs -------------------------
(***************************************************************************)
(* Proofs about the binlog, for any modes of the connection, any servers   *)
(* and events, and any number of events and of calls of                    *)
(* drizzle_binlog_start.                                                   *)
(*                                                                         *)
(* Nothing follows a fault, so that what handlers and lines rely on is     *)
(* stated of the states before one, and what the callbacks were told of    *)
(* every state.                                                            *)
(***************************************************************************)
EXTENDS DrizzleBinlog, FiniteSets, FiniteSetTheorems, SequenceTheorems, TLAPS

Handlers == {"connect", "command_write", "result_read", "binlog_read"}
Lines == {"idle", "query", "settle", "settled", "dump", "dumped", "read"}
Told == {"EOF", "ERROR_CODE", "UNEXPECTED_DATA", "BINLOG_CRC"}
Rets == {"none", "OK", "IO_WAIT", "TIMEOUT", "LOST_CONNECTION", "NO_ACTIVE_CONNECTIONS"} \cup Told

Types == {event.type : event \in Events} \cup {"UNKNOWN"}
Sendings == [type : Types, size : Nat, sum : {"none", "good", "bad"}, whole : BOOLEAN]
Parses == [type : Types, length : Int, raw_length : Int, data : BOOLEAN]
Commands == {"query", "dump"}
Answers == {"OK", "ERROR"}
Asked == Commands \cup Answers

Tellings == [function : {"binlog_fn"}, what : Parses] \cup [function : {"error_fn"}, what : Told]

Connections ==
  [non_blocking : BOOLEAN, owner : {"NATIVE", "CLIENT"}, ready : BOOLEAN,
   stack : Seq(Handlers), command : {"none", "query", "dump"}, result : Nat]
Binlogs == [verify_checksums : BOOLEAN, has_checksums : BOOLEAN, event : Parses]
Calls == [at : Lines, connecting : BOOLEAN, result : Nat, ret : Rets]
Peers == [version : {-1, 0, 1}, sums : BOOLEAN, asked : Seq(Asked)]

BinlogTypeOK ==
  /\ con \in Connections /\ binlog \in Binlogs /\ call \in Calls
  /\ results \subseteq Nat \ {0}
  /\ server \in Peers /\ sent \in Seq(Sendings)
  /\ starts \in 0..MaxStarts
  /\ fault \in BOOLEAN

Writing == con.stack \in {<<"command_write">>, <<"result_read">>}

(* One handler at most is on the stack: they replace or pop themselves, and*)
(* pushes are made on the empty stack.                                     *)
OneHandler ==
  ~fault =>
    /\ con.stack \in {<<>>, <<"connect">>, <<"command_write">>, <<"result_read">>,
                      <<"binlog_read">>}
    /\ con.stack = <<"connect">> => ~con.ready
    /\ Writing \/ con.stack = <<"binlog_read">> => con.ready
    /\ con.stack = <<"binlog_read">> => call.at = "read" /\ ~con.non_blocking
    /\ con.stack # <<>> => con.command # "none" \/ con.stack = <<"connect">>
    /\ call.connecting => call.at \in {"query", "dump"} /\ ~Writing
    /\ call.connecting /\ call.ret = "none" /\ con.stack = <<>> => con.ready
    /\ call.at \in {"query", "dump"} => call.ret # "OK"

(* The results there are, and those that the lines to come may ask for.    *)
Owed ==
  CASE call.at = "query" /\ call.connecting -> 2
    [] call.at = "query" /\ ~call.connecting -> 1
    [] call.at \in {"settle", "settled"} -> 1
    [] call.at = "dump" /\ call.connecting -> 1
    [] OTHER -> 0

ResultsCounted == IsFiniteSet(results) /\ Cardinality(results) + Owed <= 2 * starts

(* The server awaits a command, or the handler that reads the answer is on *)
(* the stack.                                                              *)
Awaits(asked) == asked = <<>> \/ asked[Len(asked)] \in Answers

Answered ==
  /\ \A i \in 1..(Len(server.asked) - 1) :
       server.asked[i] \in {"query", "dump"} => server.asked[i + 1] \in Answers
  /\ ~fault /\ con.ready /\ con.stack # <<"result_read">> => Awaits(server.asked)

(* It has just answered the query about checksums.                         *)
QueryAnswered ==
  LET n == Len(server.asked) IN
  n >= 2 /\ server.asked[n - 1] = "query" /\ server.asked[n] = "OK"

(* Where a call of a blocking connection is.                               *)
BlockingLines ==
  ~con.non_blocking =>
    /\ ~fault
    /\ call.at # "settle"
    /\ call.at \in {"idle", "settled", "dumped"} => con.stack = <<>>
    /\ call.at \in {"query", "dump"} /\ ~call.connecting =>
         /\ con.result \in results
         /\ call.ret = "none" => con.ready /\ con.command = call.at
    /\ call.at \in {"query", "dump"} /\ call.ret # "none" =>
         call.ret \in {"LOST_CONNECTION", "ERROR_CODE"} /\ con.stack = <<>>
    /\ call.at = "query" /\ con.stack = <<>> /\ ~call.connecting /\ call.ret = "none"
         => QueryAnswered
    /\ call.at \in {"query", "dump"} /\ con.stack = <<"result_read">> =>
         server.asked # <<>> /\ server.asked[Len(server.asked)] = call.at
    /\ call.at = "settled" =>
         /\ call.ret \in {"OK", "LOST_CONNECTION", "ERROR_CODE"}
         /\ call.ret = "OK" => con.ready /\ QueryAnswered
    /\ call.at = "dump" =>
         ~call.connecting /\ (con.stack = <<"command_write">> => QueryAnswered)
    /\ call.at = "dumped" =>
         con.ready /\ con.command = "dump" /\ call.result \in results /\ call.result = con.result
    /\ call.at = "read" =>
         /\ con.stack \in {<<>>, <<"binlog_read">>}
         /\ con.stack # <<>> => con.result \in results /\ call.ret = "none"
    /\ \A i \in DOMAIN server.asked : server.asked[i] = "dump" =>
         i > 2 /\ server.asked[i - 2] = "query" /\ server.asked[i - 1] = "OK"

(* In a non-blocking connection a call that was left before is resumed     *)
(* with a result that is freed: this is why no event is ever delivered     *)
(* there without a fault.                                                  *)
NonBlockingLines ==
  con.non_blocking =>
    /\ told = <<>>
    /\ call.ret \notin {"EOF", "UNEXPECTED_DATA", "BINLOG_CRC"}
    /\ ~fault =>
         /\ call.at # "settled" /\ (call.at = "settle" => call.ret # "OK")
         /\ Writing /\ call.at \notin {"query", "dump"} => con.result \notin results
         /\ Writing /\ call.at = "query" /\ con.command = "dump" => con.result \notin results
         /\ call.at = "dumped" /\ con.owner = "NATIVE" => call.result \notin results
         /\ sent # <<>> => con.stack = <<>> /\ ~call.connecting
                           /\ call.at \in {"dump", "dumped", "read", "idle"}
    /\ Len(sent) <= 1

(* What the code believes of checksums goes by the version alone, and is   *)
(* settled once the format description was read, whatever the server has.  *)
ChecksumsKnown ==
  /\ binlog.has_checksums => server.version <= 0
  /\ server.version <= 0 /\ call.at = "read" /\ Len(sent) >= 2 /\ con.stack # <<>> =>
       binlog.has_checksums

IsError(t) == t.function = "error_fn"

(* What the callbacks were told, and what the server sent.                 *)
History ==
  LET n == Len(told) IN
  /\ told \in Seq(Tellings)
  /\ \A i \in 1..n : IsError(told[i]) => i = n
  /\ sent = <<>> => told = <<>>
  /\ sent # <<>> =>
       Len(sent) = 1 + n - (IF n > 0 /\ IsError(told[n]) /\ told[n].what \in {"EOF", "ERROR_CODE"}
                            THEN 1 ELSE 0)
  /\ \A i \in 1..n : ~IsError(told[i]) => i + 1 <= Len(sent) /\ AsSent(sent[i + 1], told[i].what)
  /\ n > 0 => call.at \in {"read", "idle"}
  /\ n > 0 /\ IsError(told[n]) =>
       /\ call.ret = told[n].what
       /\ con.stack = <<>>
       /\ told[n].what # "ERROR_CODE" => ~con.ready
  /\ call.ret \in {"EOF", "UNEXPECTED_DATA", "BINLOG_CRC"} =>
       n > 0 /\ told[n] = [function |-> "error_fn", what |-> call.ret]

(* Where the first event of the binlog of a blocking connection is.        *)
FirstEvent ==
  ~con.non_blocking =>
    /\ call.at \in {"query", "settled"} => sent = <<>>
    /\ call.at = "dump" =>
         IF con.stack = <<>> /\ call.ret = "none" THEN Len(sent) = 1 ELSE sent = <<>>
    /\ call.at = "dumped" => Len(sent) = 1
    /\ call.at = "read" => sent # <<>>

BinlogInvariant ==
  /\ BinlogTypeOK /\ OneHandler /\ ResultsCounted /\ Answered
  /\ BlockingLines /\ NonBlockingLines /\ ChecksumsKnown /\ History /\ FirstEvent

----------------------------------------------------------------------------
(* What the handlers do to a stack of one.                                 *)
LEMMA OneOnStack ==
  ASSUME NEW h \in Handlers
  PROVE  /\ <<h>> # <<>> /\ Head(<<h>>) = h /\ Tail(<<h>>) = <<>>
         /\ <<h>> \o <<>> = <<h>> /\ <<h>> \in Seq(Handlers)
         /\ \A g \in Handlers : <<g>> = <<h>> => g = h
OBVIOUS

LEMMA Empty ==
  /\ <<>> \in Seq(Handlers) /\ <<>> \in Seq(Asked) /\ <<>> \in Seq(Sendings)
  /\ Len(<<>>) = 0 /\ \A s \in Seq(Sendings) : s # <<>> => Len(s) \in Nat \ {0}
BY EmptySeq

LEMMA InitInvariant == Init => BinlogInvariant
<1> SUFFICES ASSUME Init PROVE BinlogInvariant
  OBVIOUS
<1>1. BinlogTypeOK
  <2>1. PICK b \in BOOLEAN, owner \in {"NATIVE", "CLIENT"} :
          con = [non_blocking |-> b, owner |-> owner, ready |-> FALSE,
                 stack |-> <<>>, command |-> "none", result |-> 0]
    BY BinlogAssumption DEF Init
  <2>2. PICK v \in {-1, 0, 1}, c \in BOOLEAN :
          server = [version |-> v, sums |-> c, asked |-> <<>>]
    BY BinlogAssumption DEF Init
  <2>3. PICK w \in BOOLEAN :
          binlog = [verify_checksums |-> w, has_checksums |-> FALSE, event |-> NoEvent]
    BY DEF Init
  <2>4. NoEvent \in Parses
    BY DEF NoEvent, Parses, Types
  <2>5. results = {} /\ sent \in Seq(Sendings) /\ fault = FALSE
    BY DEF Init
  <2>6. starts \in 0..MaxStarts
    BY BinlogAssumption DEF Init
  <2>7. con \in Connections
    BY <2>1 DEF Connections
  <2>8. binlog \in Binlogs
    BY <2>3, <2>4 DEF Binlogs
  <2>9. call \in Calls
    BY DEF Init, Calls, Lines, Rets
  <2>10. server \in Peers
    BY <2>2 DEF Peers
  <2> QED
    BY <2>5, <2>6, <2>7, <2>8, <2>9, <2>10 DEF BinlogTypeOK
<1>2. OneHandler
  BY DEF Init, OneHandler, Writing
<1>3. ResultsCounted
  BY FS_EmptySet DEF Init, ResultsCounted, Owed
<1>4. Answered
  BY DEF Init, Answered, Awaits
<1>5. BlockingLines
  BY DEF Init, BlockingLines
<1>6. NonBlockingLines
  BY DEF Init, NonBlockingLines
<1>7. ChecksumsKnown
  BY DEF Init, ChecksumsKnown
<1>8. History
  BY DEF Init, History
<1>9. FirstEvent
  BY DEF Init, FirstEvent
<1> QED
  BY <1>1, <1>2, <1>3, <1>4, <1>5, <1>6, <1>7, <1>8, <1>9 DEF BinlogInvariant

LEMMA WaitsStep ==
  ASSUME BinlogInvariant, ~fault, Waits
  PROVE  BinlogInvariant'
<1>1. BinlogTypeOK'
  BY DEF BinlogInvariant, Waits, Leaves, BinlogTypeOK, Connections, Calls, Peers, Rets
<1>2. OneHandler'
  BY DEF BinlogInvariant, Waits, Leaves, Running, BinlogTypeOK, Connections, Calls, Peers, OneHandler, Writing
<1>3. ResultsCounted'
  BY DEF BinlogInvariant, Waits, Leaves, BinlogTypeOK, Connections, Calls, Peers, ResultsCounted, Owed
<1>4. Answered'
  BY DEF BinlogInvariant, Waits, Leaves, BinlogTypeOK, Connections, Calls, Peers, Answered, Awaits
<1>5. BlockingLines'
  BY DEF BinlogInvariant, Waits, Leaves, BinlogTypeOK, Connections, Calls, Peers, BlockingLines
<1>6. NonBlockingLines'
  BY DEF BinlogInvariant, Waits, Leaves, BinlogTypeOK, Connections, Calls, Peers, NonBlockingLines, Writing
<1>7. ChecksumsKnown'
  BY DEF BinlogInvariant, Waits, Leaves, BinlogTypeOK, Connections, Calls, Peers, ChecksumsKnown
<1>8. History'
  BY DEF BinlogInvariant, Waits, Leaves, BinlogTypeOK, Connections, Calls, Peers, NonBlockingLines, History
<1>9. FirstEvent'
  BY DEF BinlogInvariant, Waits, Leaves, BinlogTypeOK, Connections, Calls, Peers, FirstEvent
<1> QED
  BY <1>1, <1>2, <1>3, <1>4, <1>5, <1>6, <1>7, <1>8, <1>9 DEF BinlogInvariant

LEMMA LostStep ==
  ASSUME BinlogInvariant, ~fault, Lost
  PROVE  BinlogInvariant'
<1> USE DEF Lost, Closes, Leaves, Running
<1>1. BinlogTypeOK'
  <2>1. con' \in Connections
    BY Empty DEF BinlogInvariant, BinlogTypeOK, Connections
  <2>2. call' \in Calls
    BY DEF BinlogInvariant, BinlogTypeOK, Calls, Rets
  <2> QED BY <2>1, <2>2 DEF BinlogInvariant, BinlogTypeOK
<1>2. OneHandler'
  BY DEF BinlogInvariant, BinlogTypeOK, Connections, Calls, Peers, OneHandler, Writing
<1>3. ResultsCounted'
  BY DEF BinlogInvariant, BinlogTypeOK, Connections, Calls, Peers, ResultsCounted, Owed
<1>4. Answered'
  BY DEF BinlogInvariant, BinlogTypeOK, Connections, Calls, Peers, Answered, Awaits
<1>5. BlockingLines'
  BY DEF BinlogInvariant, BinlogTypeOK, Connections, Calls, Peers, BlockingLines
<1>6. NonBlockingLines'
  BY DEF BinlogInvariant, BinlogTypeOK, Connections, Calls, Peers, NonBlockingLines, Writing
<1>7. ChecksumsKnown'
  BY DEF BinlogInvariant, BinlogTypeOK, Connections, Calls, Peers, ChecksumsKnown
<1>8. History'
  BY DEF BinlogInvariant, BinlogTypeOK, Connections, Calls, Peers, NonBlockingLines, History, AsSent, Faulty, ChecksumsGuessed
<1>9. FirstEvent'
  BY DEF BinlogInvariant, BinlogTypeOK, Connections, Calls, Peers, FirstEvent
<1> QED
  BY <1>1, <1>2, <1>3, <1>4, <1>5, <1>6, <1>7, <1>8, <1>9 DEF BinlogInvariant

LEMMA ConnectedStep ==
  ASSUME BinlogInvariant, ~fault, Connected
  PROVE  BinlogInvariant'
<1>0. /\ con.stack = <<"connect">> /\ Running
      /\ con' = [con EXCEPT !.ready = TRUE, !.stack = <<>>]
      /\ server' = [server EXCEPT !.asked = <<>>]
      /\ UNCHANGED <<binlog, call, results, sent, told, starts, fault>>
  BY OneOnStack DEF Connected, Top, Running, BinlogInvariant, OneHandler, Handlers
<1> USE <1>0
<1>1. BinlogTypeOK'
  <2>1. con' \in Connections
    BY Empty DEF BinlogInvariant, BinlogTypeOK, Connections
  <2>2. server' \in Peers
    BY Empty DEF BinlogInvariant, BinlogTypeOK, Peers
  <2> QED BY <2>1, <2>2 DEF BinlogInvariant, BinlogTypeOK
<1>2. OneHandler'
  BY DEF BinlogInvariant, BinlogTypeOK, Connections, Calls, Peers, OneHandler, Writing
<1>3. ResultsCounted'
  BY DEF BinlogInvariant, BinlogTypeOK, Connections, Calls, Peers, ResultsCounted, Owed
<1>4. Answered'
  BY DEF BinlogInvariant, BinlogTypeOK, Connections, Calls, Peers, Answered, Awaits
<1>5. BlockingLines'
  BY DEF BinlogInvariant, BinlogTypeOK, Connections, Calls, Peers, OneHandler, BlockingLines, Running
<1>6. NonBlockingLines'
  BY DEF BinlogInvariant, BinlogTypeOK, Connections, Calls, Peers, NonBlockingLines, Writing
<1>7. ChecksumsKnown'
  BY DEF BinlogInvariant, BinlogTypeOK, Connections, Calls, Peers, ChecksumsKnown
<1>8. History'
  BY DEF BinlogInvariant, BinlogTypeOK, Connections, Calls, Peers, NonBlockingLines, History, AsSent, Faulty, ChecksumsGuessed
<1>9. FirstEvent'
  BY DEF BinlogInvariant, BinlogTypeOK, Connections, Calls, Peers, FirstEvent, OneHandler, BlockingLines
<1> QED
  BY <1>1, <1>2, <1>3, <1>4, <1>5, <1>6, <1>7, <1>8, <1>9 DEF BinlogInvariant

LEMMA CommandWriteStep ==
  ASSUME BinlogInvariant, ~fault, drizzle_state_command_write
  PROVE  BinlogInvariant'
<1>0. /\ con.stack = <<"command_write">> /\ Running
      /\ con' = [con EXCEPT !.stack = <<"result_read">>]
      /\ server' = [server EXCEPT !.asked = Append(@, con.command)]
      /\ UNCHANGED <<binlog, call, results, sent, told, starts, fault>>
  BY OneOnStack DEF drizzle_state_command_write, Goes, Top, Running, BinlogInvariant, OneHandler,
                    Handlers
<1>a. con.command \in Commands
  BY <1>0, OneOnStack DEF BinlogInvariant, BinlogTypeOK, Connections, OneHandler, Handlers, Commands
<1>b. /\ server'.asked \in Seq(Asked) /\ Len(server'.asked) = Len(server.asked) + 1
      /\ server'.asked[Len(server.asked) + 1] = con.command
      /\ \A i \in 1..Len(server.asked) : server'.asked[i] = server.asked[i]
  BY <1>0, <1>a DEF BinlogInvariant, BinlogTypeOK, Peers, Asked
<1> USE <1>0, <1>a, <1>b
<1>1. BinlogTypeOK'
  <2>1. con' \in Connections
    BY OneOnStack DEF BinlogInvariant, BinlogTypeOK, Connections, Handlers
  <2>2. server' \in Peers
    BY DEF BinlogInvariant, BinlogTypeOK, Peers
  <2> QED BY <2>1, <2>2 DEF BinlogInvariant, BinlogTypeOK
<1>2. OneHandler'
  BY DEF BinlogInvariant, BinlogTypeOK, Connections, Calls, Peers, OneHandler, Writing
<1>3. ResultsCounted'
  BY DEF BinlogInvariant, BinlogTypeOK, Connections, Calls, Peers, ResultsCounted, Owed
<1>4. Answered'
  <2>1. Awaits(server.asked)
    BY OneOnStack DEF BinlogInvariant, Answered, OneHandler, Writing, Handlers
  <2>2. ASSUME NEW i \in 1..Len(server.asked), server'.asked[i] \in Commands
        PROVE  server'.asked[i + 1] \in Answers
    BY <2>1, <2>2 DEF BinlogInvariant, BinlogTypeOK, Peers, Answered, Awaits, Commands, Answers
  <2>3. con'.stack = <<"result_read">>
    BY DEF BinlogInvariant, BinlogTypeOK, Connections
  <2> QED BY <2>2, <2>3 DEF BinlogInvariant, BinlogTypeOK, Peers, Answered, Commands
<1>5. BlockingLines'
  <2> SUFFICES ASSUME ~con.non_blocking PROVE BlockingLines'
    BY DEF BinlogInvariant, BinlogTypeOK, Connections, BlockingLines
  <2>1. /\ con'.stack = <<"result_read">> /\ con'.result = con.result
        /\ con'.ready = con.ready /\ con'.command = con.command
    BY DEF BinlogInvariant, BinlogTypeOK, Connections
  <2>2. con.stack # <<>> /\ con.stack # <<"binlog_read">> /\ con.stack # <<"connect">>
    BY OneOnStack DEF Handlers
  <2>3. call.at \in {"query", "dump"} /\ ~call.connecting /\ call.ret = "none"
    BY <2>2 DEF BinlogInvariant, BinlogTypeOK, Calls, Lines, BlockingLines, OneHandler, Writing,
                Running
  <2>4. con.command = call.at /\ con.result \in results /\ con.ready
    BY <2>3 DEF BinlogInvariant, BlockingLines
  <2>5. call.at = "dump" => QueryAnswered
    BY DEF BinlogInvariant, BlockingLines
  <2>6. con'.stack # <<>> /\ con'.stack # <<"command_write">>
    BY <2>1, OneOnStack DEF Handlers
  <2>7. ASSUME NEW i \in 1..(Len(server.asked) + 1), server'.asked[i] = "dump"
        PROVE  i > 2 /\ server'.asked[i - 2] = "query" /\ server'.asked[i - 1] = "OK"
    BY <2>4, <2>5, <2>7 DEF BinlogInvariant, BinlogTypeOK, Peers, BlockingLines, QueryAnswered
  <2>8. DOMAIN server'.asked = 1..(Len(server.asked) + 1)
    BY DEF BinlogInvariant, BinlogTypeOK, Peers
  <2> QED
    BY <2>1, <2>3, <2>4, <2>6, <2>7, <2>8, SMTT(30) DEF BlockingLines
<1>6. NonBlockingLines'
  BY DEF BinlogInvariant, BinlogTypeOK, Connections, Calls, Peers, NonBlockingLines, Writing
<1>7. ChecksumsKnown'
  BY DEF BinlogInvariant, BinlogTypeOK, Connections, Calls, Peers, ChecksumsKnown
<1>8. History'
  <2>1. told = <<>>
    BY OneOnStack DEF BinlogInvariant, BlockingLines, NonBlockingLines, History, Handlers
  <2>2. call.ret \notin {"EOF", "UNEXPECTED_DATA", "BINLOG_CRC"}
    BY <2>1, Empty DEF BinlogInvariant, History
  <2> QED BY <2>1, <2>2, Empty DEF BinlogInvariant, History
<1>9. FirstEvent'
  BY DEF BinlogInvariant, BinlogTypeOK, Connections, Calls, Peers, FirstEvent
<1> QED
  BY <1>1, <1>2, <1>3, <1>4, <1>5, <1>6, <1>7, <1>8, <1>9 DEF BinlogInvariant

(* The events a server may send next.                                      *)
LEMMA ComingEvents ==
  ASSUME BinlogTypeOK, NEW event \in NextEvents
  PROVE  /\ event \in Sendings
         /\ event.sum = "none" <=> ~server.sums
         /\ Len(sent) = 1 => event.type = "FORMAT_DESCRIPTION" /\ event.size >= 50
<1> DEFINE events == {e \in Events : e.type \in NextTypes /\ Len(sent) < MaxEvents}
<1>0. Len(sent) = 1 => NextTypes = {"FORMAT_DESCRIPTION"}
  <2>1. Len(sent) = 1 => sent # <<>>
    OBVIOUS
  <2> QED BY <2>1, Zenon DEF NextTypes
<1>1. PICK e \in Events, s \in Sums, w \in BOOLEAN :
        event = Event(e, s, w) /\ e.type \in NextTypes
  <2>1. event \in {Event(e, s, w) : e \in events, s \in Sums, w \in BOOLEAN}
    BY DEF NextEvents
  <2>2. \A e \in events : e \in Events /\ e.type \in NextTypes
    BY Zenon
  <2> HIDE DEF events
  <2>3. \E e \in events, s \in Sums, w \in BOOLEAN : event = Event(e, s, w)
    BY <2>1, SMT
  <2> QED BY <2>2, <2>3, Zenon
<1> HIDE DEF events
<1>2. e.type \in Types /\ e.size \in Nat
  BY BinlogAssumption DEF Types
<1>3. s \in {"none", "good", "bad"} /\ (s = "none" <=> ~server.sums)
  BY DEF Sums, BinlogTypeOK, Peers
<1>4. Len(sent) = 1 => e.type = "FORMAT_DESCRIPTION" /\ e.size >= 50
  BY <1>0, <1>1, FormatAssumption
<1> QED
  BY <1>1, <1>2, <1>3, <1>4 DEF Sendings, Event

LEMMA ResultReadStep ==
  ASSUME BinlogInvariant, ~fault, drizzle_state_result_read
  PROVE  BinlogInvariant'
<1>1. /\ con.stack = <<"result_read">> /\ Running
      /\ con' = [con EXCEPT !.stack = <<>>]
      /\ fault' \in BOOLEAN /\ (fault' <=> con.result \notin results)
      /\ UNCHANGED <<binlog, results, told, starts>>
  BY OneOnStack DEF drizzle_state_result_read, ResultRead, ResultError, Goes, Uses, Top, Running,
                    BinlogInvariant, OneHandler, Handlers
<1>2. PICK answer \in Answers :
        /\ server' = [server EXCEPT !.asked = Append(@, answer)]
        /\ answer = "OK" => call' = call
        /\ answer # "OK" => call' = [call EXCEPT !.ret = "ERROR_CODE"]
        /\ IF answer = "OK" /\ con.command = "dump"
           THEN \E event \in NextEvents : sent' = Append(sent, event)
           ELSE sent' = sent
  BY DEF drizzle_state_result_read, ResultRead, ResultError, Leaves, Answers
<1>3. /\ server'.asked \in Seq(Asked) /\ Len(server'.asked) = Len(server.asked) + 1
      /\ server'.asked[Len(server.asked) + 1] = answer
      /\ \A i \in 1..Len(server.asked) : server'.asked[i] = server.asked[i]
      /\ DOMAIN server'.asked = 1..(Len(server.asked) + 1)
  BY <1>2 DEF BinlogInvariant, BinlogTypeOK, Peers, Asked
<1>4. /\ con'.stack = <<>> /\ con'.result = con.result /\ con'.non_blocking = con.non_blocking
      /\ con'.ready = con.ready /\ con.ready /\ con'.command = con.command
  BY <1>1, OneOnStack DEF BinlogInvariant, BinlogTypeOK, Connections, OneHandler, Writing
<1>5. /\ ~call.connecting /\ ~call'.connecting /\ call'.at = call.at
      /\ call'.result = call.result
      /\ call.ret = "none" /\ call'.ret = IF answer = "OK" THEN "none" ELSE "ERROR_CODE"
  BY <1>1, <1>2 DEF BinlogInvariant, BinlogTypeOK, Calls, OneHandler, Writing, Running
<1>6. con.stack # <<>> /\ con.stack # <<"binlog_read">> /\ con.stack # <<"command_write">>
  BY <1>1, OneOnStack DEF Handlers
<1>7. ~con.non_blocking =>
         /\ call.at \in {"query", "dump"} /\ con.command = call.at /\ con.result \in results
         /\ server.asked # <<>> /\ server.asked[Len(server.asked)] = call.at
  BY <1>1, <1>5, <1>6 DEF BinlogInvariant, BinlogTypeOK, Calls, Lines, BlockingLines, Running
<1>8. sent = <<>> /\ told = <<>>
  BY <1>6, <1>7 DEF BinlogInvariant, BinlogTypeOK, NonBlockingLines, FirstEvent, History
<1>9. /\ sent' \in Seq(Sendings) /\ Len(sent') <= 1
      /\ IF answer = "OK" /\ con.command = "dump" THEN Len(sent') = 1 ELSE sent' = <<>>
  <2>1. CASE answer = "OK" /\ con.command = "dump"
    <3>1. PICK event \in NextEvents : sent' = Append(sent, event)
      BY <1>2, <2>1
    <3>2. event \in Sendings
      BY ComingEvents DEF BinlogInvariant
    <3> QED BY <1>8, <2>1, <3>1, <3>2, Empty
  <2>2. CASE ~(answer = "OK" /\ con.command = "dump")
    <3>1. sent' = <<>>
      BY <1>2, <1>8, <2>2
    <3>2. Len(sent') = 0
      BY <3>1, Empty
    <3> QED BY <2>2, <3>1, <3>2, Empty
  <2> QED BY <2>1, <2>2
<1>10. BinlogTypeOK'
  <2>1. con' \in Connections
    BY <1>1, Empty DEF BinlogInvariant, BinlogTypeOK, Connections
  <2>2. call' \in Calls
    BY <1>2 DEF BinlogInvariant, BinlogTypeOK, Calls, Rets, Told
  <2>3. server' \in Peers
    BY <1>2, <1>3 DEF BinlogInvariant, BinlogTypeOK, Peers
  <2> QED BY <1>1, <1>9, <2>1, <2>2, <2>3 DEF BinlogInvariant, BinlogTypeOK
<1>11. OneHandler'
  BY <1>4, <1>5 DEF BinlogInvariant, OneHandler, Writing
<1>12. ResultsCounted'
  BY <1>1, <1>5 DEF BinlogInvariant, ResultsCounted, Owed
<1>13. Answered'
  BY <1>3, <1>4 DEF BinlogInvariant, BinlogTypeOK, Peers, Answered, Awaits, Answers
<1>14. BlockingLines'
  <2> SUFFICES ASSUME ~con.non_blocking PROVE BlockingLines'
    BY <1>4 DEF BlockingLines
  <2>1. ASSUME NEW i \in DOMAIN server'.asked, server'.asked[i] = "dump"
        PROVE  i > 2 /\ server'.asked[i - 2] = "query" /\ server'.asked[i - 1] = "OK"
    <3>1. i \in 1..Len(server.asked) /\ i \in DOMAIN server.asked /\ server.asked[i] = "dump"
      BY <1>3, <2>1 DEF BinlogInvariant, BinlogTypeOK, Peers, Answers
    <3>2. i > 2 /\ server.asked[i - 2] = "query" /\ server.asked[i - 1] = "OK"
      BY <3>1 DEF BinlogInvariant, BlockingLines
    <3>3. i - 2 \in 1..Len(server.asked) /\ i - 1 \in 1..Len(server.asked)
      BY <3>1, <3>2 DEF BinlogInvariant, BinlogTypeOK, Peers
    <3> QED BY <1>3, <3>2, <3>3
  <2>2. answer = "OK" /\ call.at = "query" => QueryAnswered'
    <3>1. Len(server.asked) >= 1 /\ Len(server.asked) \in Nat
      BY <1>7 DEF BinlogInvariant, BinlogTypeOK, Peers
    <3>2. server'.asked[Len(server'.asked) - 1] = call.at
      BY <1>3, <1>7, <3>1
    <3> QED BY <1>3, <3>1, <3>2 DEF QueryAnswered
  <2>3. con'.stack # <<"command_write">> /\ con'.stack # <<"result_read">> /\ ~fault'
    BY <1>1, <1>4, <1>7
  <2> QED
    BY <1>1, <1>4, <1>5, <1>7, <2>1, <2>2, <2>3 DEF BinlogInvariant, BlockingLines
<1>15. NonBlockingLines'
  <2> SUFFICES ASSUME con.non_blocking PROVE NonBlockingLines'
    BY <1>4 DEF NonBlockingLines
  <2>1. told' = <<>> /\ Len(sent') <= 1
    BY <1>1, <1>8, <1>9
  <2>2. ~Writing'
    BY <1>4 DEF Writing
  <2>3. sent' # <<>> /\ ~fault' => call.at = "dump"
    BY <1>1, <1>5, <1>9 DEF BinlogInvariant, BinlogTypeOK, Calls, Lines, NonBlockingLines, Writing,
       Running
  <2>4. con'.owner = con.owner
    BY <1>1 DEF BinlogInvariant, BinlogTypeOK, Connections
  <2> QED
    BY <1>1, <1>4, <1>5, <2>1, <2>2, <2>3, <2>4 DEF BinlogInvariant, NonBlockingLines
<1>16. ChecksumsKnown'
  BY <1>1, <1>2, <1>4 DEF BinlogInvariant, BinlogTypeOK, Peers, ChecksumsKnown
<1>17. History'
  BY <1>1, <1>5, <1>8, <1>9 DEF BinlogInvariant, History
<1>18. FirstEvent'
  BY <1>4, <1>5, <1>7, <1>9 DEF FirstEvent
<1> QED
  BY <1>10, <1>11, <1>12, <1>13, <1>14, <1>15, <1>16, <1>17, <1>18 DEF BinlogInvariant

(* Of a server up to 5.6.1, every event that is read is taken to have a    *)
(* checksum, since the first is the format description.                    *)
LEMMA ChecksumsFound ==
  ASSUME BinlogTypeOK, ChecksumsKnown, call.at = "read", con.stack # <<>>, sent # <<>>,
         NEW event \in NextEvents, server.version <= 0
  PROVE  HasChecksums(event)
<1>1. Len(sent) # 1 => Len(sent) >= 2
  <2>1. Len(sent) \in Nat \ {0}
    BY Empty, Zenon DEF BinlogTypeOK
  <2>2. \A k \in Nat \ {0} : k # 1 => k >= 2
    OBVIOUS
  <2> QED BY <2>1, <2>2, Zenon
<1>2. event \in Sendings /\ (Len(sent) = 1 => event.type = "FORMAT_DESCRIPTION" /\ event.size >= 50)
  BY ComingEvents
<1>3. Len(sent) = 1 => ~IsShort(event)
  BY <1>2 DEF IsShort, RawLength, HeaderLength, CrcLength, ShortLength, Sendings
<1> QED BY <1>1, <1>2, <1>3 DEF HasChecksums, ChecksumsKnown

(* When the guess about checksums is right, an event that is read is taken *)
(* to have one exactly if it has.                                          *)
LEMMA GuessedRight ==
  ASSUME BinlogTypeOK, ChecksumsKnown, call.at = "read", con.stack # <<>>, sent # <<>>,
         NEW event \in NextEvents, ChecksumsGuessed
  PROVE  HasChecksums(event) <=> event.sum # "none"
<1>1. event.sum = "none" <=> ~server.sums
  BY ComingEvents
<1>2. server.version <= 0 => HasChecksums(event)
  BY ChecksumsFound
<1>3. HasChecksums(event) => server.version <= 0
  BY DEF HasChecksums, ChecksumsKnown
<1> QED
  BY <1>1, <1>2, <1>3 DEF ChecksumsGuessed

(* An event that is read and found good is shown as it was sent.           *)
LEMMA ShownAsSent ==
  ASSUME BinlogTypeOK, ChecksumsKnown, call.at = "read", con.stack # <<>>, sent # <<>>,
         NEW event \in NextEvents, event.whole, ~WrongCrc(event)
  PROVE  AsSent(event, Shown(Parsed(event)))
<1>1. event.size \in Nat
  BY ComingEvents DEF Sendings
<1>2. /\ Shown(Parsed(event)).type = event.type
      /\ Shown(Parsed(event)).raw_length = RawLength(event)
      /\ Shown(Parsed(event)).data = ~IsShort(event)
      /\ Shown(Parsed(event)).length =
           IF IsShort(event) THEN 0
           ELSE RawLength(event) - HeaderLength - (IF HasChecksums(event) THEN CrcLength ELSE 0)
  BY DEF Shown, Parsed
<1>3. ASSUME ChecksumsGuessed
      PROVE  ~Faulty(event) /\ (IsShort(event) \/ Shown(Parsed(event)).length = event.size)
  <2>1. HasChecksums(event) <=> event.sum # "none"
    BY <1>3, GuessedRight
  <2>2. ~Faulty(event)
    BY <2>1 DEF Faulty, WrongCrc
  <2>3. ~IsShort(event) => Shown(Parsed(event)).length = event.size
    BY <1>1, <1>2, <2>1 DEF RawLength, HeaderLength, CrcLength
  <2> QED BY <2>2, <2>3
<1> QED
  BY <1>2, <1>3 DEF AsSent

(* An event that is refused is faulty, when the guess is right.            *)
LEMMA RefusedIsFaulty ==
  ASSUME BinlogTypeOK, ChecksumsKnown, call.at = "read", con.stack # <<>>, sent # <<>>,
         NEW event \in NextEvents, ChecksumsGuessed, ~event.whole \/ WrongCrc(event)
  PROVE  Faulty(event)
<1>1. event.sum \in {"none", "good", "bad"}
  BY ComingEvents DEF Sendings
<1>2. HasChecksums(event) <=> event.sum # "none"
  BY GuessedRight
<1> QED
  BY <1>1, <1>2 DEF Faulty, WrongCrc

LEMMA ParsedType ==
  ASSUME NEW event \in Sendings
  PROVE  Parsed(event) \in Parses /\ Shown(Parsed(event)) \in Parses
<1>1. RawLength(event) \in Int
  BY DEF Sendings, RawLength, HeaderLength, CrcLength
<1>2. IsShort(event) \in BOOLEAN
  BY DEF IsShort
<1>3. (IF IsShort(event) THEN 0
       ELSE RawLength(event) - HeaderLength - (IF HasChecksums(event) THEN CrcLength ELSE 0)) \in Int
  BY <1>1 DEF HeaderLength, CrcLength
<1> QED
  BY <1>1, <1>2, <1>3 DEF Parsed, Shown, Parses, Sendings

LEMMA ParsedBinlog ==
  ASSUME BinlogTypeOK, ChecksumsKnown, NEW event \in NextEvents,
         binlog' = [binlog EXCEPT !.has_checksums = HasChecksums(event), !.event = Parsed(event)]
  PROVE  /\ binlog' \in Binlogs /\ binlog'.verify_checksums = binlog.verify_checksums
         /\ binlog'.has_checksums => server.version <= 0
<1>1. Parsed(event) \in Parses
  BY ComingEvents, ParsedType
<1>2. HasChecksums(event) \in BOOLEAN /\ (HasChecksums(event) => server.version <= 0)
  BY DEF HasChecksums, ChecksumsKnown, BinlogTypeOK, Binlogs
<1> QED BY <1>1, <1>2 DEF BinlogTypeOK, Binlogs

LEMMA BinlogReadStep ==
  ASSUME BinlogInvariant, ~fault, drizzle_state_binlog_read
  PROVE  BinlogInvariant'
<1> DEFINE n == Len(told)
<1>1. /\ con.stack = <<"binlog_read">> /\ Tail(con.stack) = <<>> /\ con.stack # <<>>
      /\ call.ret = "none" /\ call.at = "read"
      /\ ~con.non_blocking /\ con.result \in results /\ con.ready /\ ~call.connecting
      /\ UNCHANGED <<results, server, starts>>
  BY OneOnStack DEF drizzle_state_binlog_read, Top, Running, BinlogInvariant, OneHandler, Handlers,
                    BlockingLines
<1>2. /\ sent # <<>> /\ Len(sent) = 1 + n /\ n \in Nat
      /\ \A i \in 1..n : ~IsError(told[i])
  BY <1>1, EmptySeq DEF BinlogInvariant, BinlogTypeOK, FirstEvent, History, Tellings, IsError, Told
(* What every alternative does but to the callbacks.                       *)
<1> DEFINE Left(ret) ==
             /\ con'.stack = <<>> /\ con'.result = con.result /\ con'.command = con.command
             /\ con'.non_blocking = con.non_blocking /\ con'.owner = con.owner
             /\ call' = [call EXCEPT !.ret = ret]
             /\ con' \in Connections
             /\ ret # "ERROR_CODE" => ~con'.ready
           Error(ret) == told' = Append(told, [function |-> "error_fn", what |-> ret])
           Same == binlog' = binlog /\ sent' = sent
           Parse(event) ==
             binlog' = [binlog EXCEPT !.has_checksums = HasChecksums(event), !.event = Parsed(event)]
           Ends(ret) == ret \in Told /\ Left(ret) /\ Error(ret) /\ fault' = FALSE
<1>3. ASSUME BinlogEof \/ BinlogError
      PROVE  \E ret \in {"EOF", "ERROR_CODE"} : Ends(ret) /\ Same
  <2>1. CASE BinlogEof
    <3>1. Left("EOF")
      BY <1>1, <2>1, Empty DEF BinlogEof, Closes, Leaves, BinlogInvariant, BinlogTypeOK, Connections
    <3> QED BY <1>1, <2>1, <3>1 DEF BinlogEof, Tells, Uses, Told
  <2>2. CASE BinlogError
    <3>1. Left("ERROR_CODE")
      BY <1>1, <2>2, Empty DEF BinlogError, Goes, Leaves, BinlogInvariant, BinlogTypeOK, Connections
    <3> QED BY <1>1, <2>2, <3>1 DEF BinlogError, Tells, Uses, Told
  <2> QED BY <1>3, <2>1, <2>2
<1>4. ASSUME NEW event \in NextEvents, sent' = Append(sent, event), UNCHANGED fault,
             BinlogUnexpected(event) \/ BinlogCrc(event)
      PROVE  \E ret \in {"UNEXPECTED_DATA", "BINLOG_CRC"} :
               Ends(ret) /\ (UNCHANGED binlog \/ Parse(event))
  <2>1. CASE BinlogUnexpected(event)
    <3>1. Left("UNEXPECTED_DATA")
      BY <1>1, <2>1, Empty DEF BinlogUnexpected, Closes, Leaves, BinlogInvariant, BinlogTypeOK,
                               Connections
    <3> QED BY <1>4, <2>1, <3>1 DEF BinlogUnexpected, Tells, Told
  <2>2. CASE BinlogCrc(event)
    <3>1. Left("BINLOG_CRC")
      BY <1>1, <2>2, Empty DEF BinlogCrc, Closes, Leaves, BinlogInvariant, BinlogTypeOK, Connections
    <3> QED BY <1>4, <2>2, <3>1 DEF BinlogCrc, Tells, Told, Reads
  <2> QED BY <1>4, <2>1, <2>2
<1>5. ASSUME NEW event \in NextEvents, sent' = Append(sent, event), UNCHANGED fault,
             BinlogFound(event)
      PROVE  /\ UNCHANGED <<con, call>> /\ fault' = FALSE /\ Parse(event)
             /\ told' = Append(told, [function |-> "binlog_fn", what |-> Shown(Parsed(event))])
             /\ AsSent(event, Shown(Parsed(event)))
  <2>1. AsSent(event, Shown(Parsed(event)))
    BY <1>1, <1>2, <1>5, ShownAsSent DEF BinlogFound, BinlogInvariant
  <2>2. fault' = FALSE
    BY <1>5 DEF BinlogInvariant, BinlogTypeOK
  <2> QED BY <1>5, <2>1, <2>2 DEF BinlogFound, Tells, Reads
<1> HIDE DEF Left, Error, Same, Parse, Ends
<1>6. ASSUME NEW ret \in Told, Ends(ret),
             UNCHANGED binlog \/ (\E event \in NextEvents : Parse(event)),
             IF ret \in {"EOF", "ERROR_CODE"} THEN sent' = sent
             ELSE \E event \in NextEvents : sent' = Append(sent, event)
      PROVE  BinlogInvariant'
  <2>1. /\ con'.stack = <<>> /\ con'.result = con.result /\ con'.command = con.command
        /\ con'.non_blocking = con.non_blocking /\ con'.owner = con.owner
        /\ ret # "ERROR_CODE" => ~con'.ready
        /\ call' = [call EXCEPT !.ret = ret] /\ con' \in Connections /\ fault' = FALSE
        /\ told' = Append(told, [function |-> "error_fn", what |-> ret])
    BY <1>6 DEF Ends, Left, Error
  <2>2. /\ call'.at = "read" /\ call'.ret = ret /\ ~call'.connecting /\ call' \in Calls
    BY <1>1, <2>1 DEF BinlogInvariant, BinlogTypeOK, Calls, Rets
  <2>3. /\ sent' \in Seq(Sendings) /\ sent' # <<>>
        /\ Len(sent') = 1 + n + (IF ret \in {"EOF", "ERROR_CODE"} THEN 0 ELSE 1)
        /\ \A i \in 1..(n + 1) : sent'[i] = sent[i]
    <3>1. CASE ret \in {"EOF", "ERROR_CODE"}
      BY <1>2, <1>6, <3>1 DEF BinlogInvariant, BinlogTypeOK
    <3>2. CASE ret \notin {"EOF", "ERROR_CODE"}
      <4>1. PICK event \in NextEvents : sent' = Append(sent, event)
        BY <1>6, <3>2
      <4>2. event \in Sendings
        BY ComingEvents DEF BinlogInvariant
      <4> QED BY <1>2, <3>2, <4>1, <4>2, EmptySeq DEF BinlogInvariant, BinlogTypeOK
    <3> QED BY <3>1, <3>2
  <2>4. /\ binlog' \in Binlogs /\ binlog'.verify_checksums = binlog.verify_checksums
        /\ binlog'.has_checksums => server.version <= 0
    <3>1. CASE UNCHANGED binlog
      BY <3>1 DEF BinlogInvariant, BinlogTypeOK, ChecksumsKnown
    <3>2. CASE \E event \in NextEvents : Parse(event)
      <4>1. PICK event \in NextEvents : Parse(event)
        BY <3>2
      <4> QED BY <4>1, ParsedBinlog DEF Parse, BinlogInvariant
    <3> QED BY <1>6, <3>1, <3>2
  <2>5. con'.ready => con.ready
    BY <1>1
  <2>6. BinlogTypeOK'
    BY <1>1, <2>1, <2>2, <2>3, <2>4 DEF BinlogInvariant, BinlogTypeOK
  <2>7. OneHandler'
    BY <2>1, <2>2 DEF OneHandler, Writing
  <2>8. ResultsCounted'
    BY <1>1, <2>2 DEF BinlogInvariant, ResultsCounted, Owed
  <2>9. Answered'
    BY <1>1, <2>1, OneOnStack DEF BinlogInvariant, Answered, Awaits, Handlers
  <2>10. BlockingLines'
    BY <1>1, <2>1, <2>2 DEF BinlogInvariant, BlockingLines
  <2>11. NonBlockingLines'
    BY <1>1, <2>1 DEF NonBlockingLines
  <2>12. ChecksumsKnown'
    BY <1>1, <2>1, <2>4 DEF BinlogInvariant, ChecksumsKnown
  <2>13. History'
    <3>1. /\ told' \in Seq(Tellings) /\ Len(told') = n + 1
          /\ told'[n + 1] = [function |-> "error_fn", what |-> ret]
          /\ \A i \in 1..n : told'[i] = told[i]
      BY <1>2, <2>1 DEF BinlogInvariant, History, Tellings
    <3>2. IsError(told'[n + 1]) /\ told'[n + 1].what = ret
      BY <3>1 DEF IsError
    <3>3. \A i \in 1..(n + 1) : IsError(told'[i]) => i = n + 1
      BY <1>2, <3>1
    <3>4. ASSUME NEW i \in 1..(n + 1), ~IsError(told'[i])
          PROVE  i + 1 <= Len(sent') /\ AsSent(sent[i + 1], told[i].what)'
      <4>1. i \in 1..n /\ told'[i] = told[i] /\ sent'[i + 1] = sent[i + 1]
        BY <1>2, <2>3, <3>1, <3>2, <3>4
      <4>2. i + 1 <= Len(sent) /\ AsSent(sent[i + 1], told[i].what)
        BY <1>2, <4>1 DEF BinlogInvariant, History
      <4> QED BY <1>1, <1>2, <2>3, <2>4, <4>1, <4>2 DEF AsSent, Faulty, ChecksumsGuessed, RawLength, IsShort
    <3> QED BY <1>2, <2>1, <2>2, <2>3, <3>1, <3>2, <3>3, <3>4 DEF History, IsError, Told
  <2>14. FirstEvent'
    BY <2>2, <2>3 DEF FirstEvent
  <2> QED
    BY <2>6, <2>7, <2>8, <2>9, <2>10, <2>11, <2>12, <2>13, <2>14 DEF BinlogInvariant
<1>7. ASSUME NEW event \in NextEvents, sent' = Append(sent, event), UNCHANGED <<con, call>>,
             fault' = FALSE, Parse(event), AsSent(event, Shown(Parsed(event))),
             told' = Append(told, [function |-> "binlog_fn", what |-> Shown(Parsed(event))])
      PROVE  BinlogInvariant'
  <2>1. event \in Sendings
    BY ComingEvents DEF BinlogInvariant
  <2>2. /\ sent' \in Seq(Sendings) /\ sent' # <<>> /\ Len(sent') = n + 2
        /\ sent'[n + 2] = event
        /\ \A i \in 1..(n + 1) : sent'[i] = sent[i]
    BY <1>2, <1>7, <2>1, EmptySeq DEF BinlogInvariant, BinlogTypeOK
  <2>3. /\ binlog' \in Binlogs /\ binlog'.verify_checksums = binlog.verify_checksums
        /\ binlog'.has_checksums => server.version <= 0
    BY <1>7, ParsedBinlog DEF Parse, BinlogInvariant
  <2>4. BinlogTypeOK'
    BY <1>1, <1>7, <2>2, <2>3 DEF BinlogInvariant, BinlogTypeOK
  <2>5. OneHandler'
    BY <1>1, <1>7 DEF BinlogInvariant, OneHandler, Writing
  <2>6. ResultsCounted'
    BY <1>1, <1>7 DEF BinlogInvariant, ResultsCounted, Owed
  <2>7. Answered'
    BY <1>1, <1>7 DEF BinlogInvariant, Answered, Awaits
  <2>8. BlockingLines'
    BY <1>1, <1>7 DEF BinlogInvariant, BlockingLines, QueryAnswered
  <2>9. NonBlockingLines'
    BY <1>1, <1>7 DEF NonBlockingLines
  <2>10. ChecksumsKnown'
    BY <1>1, <1>2, <1>7, <2>3, ChecksumsFound DEF BinlogInvariant, ChecksumsKnown, Parse
  <2>11. History'
    <3>1. /\ told' \in Seq(Tellings) /\ Len(told') = n + 1
          /\ told'[n + 1] = [function |-> "binlog_fn", what |-> Shown(Parsed(event))]
          /\ \A i \in 1..n : told'[i] = told[i]
      BY <1>2, <1>7, <2>1, ParsedType DEF BinlogInvariant, History, Tellings
    <3>2. ~IsError(told'[n + 1]) /\ told'[n + 1].what = Shown(Parsed(event))
      BY <3>1 DEF IsError
    <3>3. \A i \in 1..(n + 1) : ~IsError(told'[i])
      BY <1>2, <3>1, <3>2
    <3>4. ASSUME NEW i \in 1..(n + 1)
          PROVE  i + 1 <= Len(sent') /\ AsSent(sent[i + 1], told[i].what)'
      <4>1. CASE i = n + 1
        BY <1>1, <1>2, <1>7, <2>2, <2>3, <3>2, <4>1 DEF AsSent, Faulty, ChecksumsGuessed, RawLength, IsShort
      <4>2. CASE i # n + 1
        <5>1. i \in 1..n /\ told'[i] = told[i] /\ sent'[i + 1] = sent[i + 1]
          BY <1>2, <2>2, <3>1, <4>2
        <5>2. i + 1 <= Len(sent) /\ AsSent(sent[i + 1], told[i].what)
          BY <1>2, <5>1 DEF BinlogInvariant, History
        <5> QED BY <1>1, <1>2, <2>2, <2>3, <5>1, <5>2 DEF AsSent, Faulty, ChecksumsGuessed, RawLength, IsShort
      <4> QED BY <4>1, <4>2
    <3> QED BY <1>1, <1>2, <1>7, <2>2, <3>1, <3>2, <3>3, <3>4 DEF History
  <2>12. FirstEvent'
    BY <1>1, <1>7, <2>2 DEF FirstEvent
  <2> QED
    BY <2>4, <2>5, <2>6, <2>7, <2>8, <2>9, <2>10, <2>11, <2>12 DEF BinlogInvariant
<1>8. CASE BinlogEof \/ BinlogError
  <2>1. PICK ret \in {"EOF", "ERROR_CODE"} : Ends(ret) /\ Same
    BY <1>3, <1>8
  <2>2. sent' = sent /\ UNCHANGED binlog /\ ret \in Told
    BY <2>1 DEF Same, Told
  <2> QED BY <1>6, <2>1, <2>2
<1>9. CASE BinlogEvent
  <2>1. PICK event \in NextEvents :
          /\ sent' = Append(sent, event) /\ UNCHANGED fault
          /\ BinlogUnexpected(event) \/ BinlogCrc(event) \/ BinlogFound(event)
    BY <1>9 DEF BinlogEvent
  <2>2. CASE BinlogUnexpected(event) \/ BinlogCrc(event)
    <3>1. PICK ret \in {"UNEXPECTED_DATA", "BINLOG_CRC"} :
            Ends(ret) /\ (UNCHANGED binlog \/ Parse(event))
      BY <1>4, <2>1, <2>2
    <3> QED BY <1>6, <2>1, <3>1 DEF Told
  <2>3. CASE BinlogFound(event)
    BY <1>5, <1>7, <2>1, <2>3
  <2> QED BY <2>1, <2>2, <2>3
<1> QED
  BY <1>8, <1>9 DEF drizzle_state_binlog_read

----------------------------------------------------------------------------
(* A result that is not there is found whenever a line asks for one.       *)
LEMMA ResultToSpare ==
  ASSUME BinlogTypeOK, IsFiniteSet(results), Cardinality(results) + 1 <= 2 * MaxStarts
  PROVE  /\ NewResult \in Nat \ {0}
         /\ results \cup {NewResult} \subseteq Nat \ {0}
         /\ IsFiniteSet(results \cup {NewResult})
         /\ Cardinality(results \cup {NewResult}) = Cardinality(results) + 1
<1> DEFINE numbers == 1..(2 * MaxStarts + 1)
           used == results \cup {con.result}
<1>1. MaxStarts \in Nat /\ Cardinality(results) \in Nat
  BY BinlogAssumption, FS_CardinalityType
<1>2. IsFiniteSet(used) /\ Cardinality(used) <= Cardinality(results) + 1
  BY <1>1, FS_AddElement
<1>3. IsFiniteSet(numbers) /\ Cardinality(numbers) = 2 * MaxStarts + 1
  BY <1>1, FS_Interval
<1>4. \E n \in numbers : n \notin used
  <2> SUFFICES ASSUME numbers \subseteq used PROVE FALSE
    OBVIOUS
  <2>1. Cardinality(numbers) <= Cardinality(used)
    BY <1>2, FS_Subset
  <2>2. Cardinality(used) \in Nat
    BY <1>2, FS_CardinalityType
  <2> QED BY <1>1, <1>2, <1>3, <2>1, <2>2
<1>5. NewResult \in numbers /\ NewResult \notin used
  BY <1>4 DEF NewResult
<1>6. NewResult \in Nat \ {0} /\ NewResult \notin results
  BY <1>1, <1>5
<1> HIDE DEF numbers, used
<1>7. IsFiniteSet(results \cup {NewResult}) /\ Cardinality(results \cup {NewResult}) = Cardinality(results) + 1
  BY <1>6, FS_AddElement
<1> QED
  BY <1>6, <1>7 DEF BinlogTypeOK

(* What a line that writes a command, or resumes one, leaves behind.       *)
LEMMA WritesLeaves ==
  ASSUME BinlogInvariant, ~fault, NEW at \in Commands, Writes(at, at),
         Cardinality(results) + 1 <= 2 * MaxStarts
  PROVE  /\ call'.at = at /\ ~call'.connecting /\ call'.ret = "none" /\ call' \in Calls
         /\ con' \in Connections /\ con'.non_blocking = con.non_blocking
         /\ con'.ready = con.ready /\ con'.stack # <<>>
         /\ results' \subseteq Nat \ {0} /\ IsFiniteSet(results')
         /\ Cardinality(results') <= Cardinality(results) + 1
         /\ con.stack # <<>> => con' = con /\ results' = results
         /\ con.stack = <<>> => /\ con'.stack = <<"command_write">> /\ con'.command = at
                                /\ con'.result \in results'
<1>1. call'.at = at /\ ~call'.connecting /\ call'.ret = "none" /\ call' \in Calls
  BY DEF Writes, BinlogInvariant, BinlogTypeOK, Calls, Lines, Rets, Commands
<1>2. Cardinality(results) \in Nat /\ IsFiniteSet(results)
  BY FS_CardinalityType DEF BinlogInvariant, ResultsCounted
<1>3. CASE con.stack # <<>>
  BY <1>1, <1>2, <1>3 DEF Writes, BinlogInvariant, BinlogTypeOK
<1>4. CASE con.stack = <<>>
  <2>1. /\ con' = [con EXCEPT !.stack = <<"command_write">>, !.command = at, !.result = NewResult]
        /\ results' = results \cup {NewResult}
    BY <1>4 DEF Writes
  <2>2. /\ NewResult \in Nat /\ results' \subseteq Nat \ {0} /\ IsFiniteSet(results')
        /\ Cardinality(results') = Cardinality(results) + 1
    BY <1>2, <2>1, ResultToSpare DEF BinlogInvariant
  <2>3. <<"command_write">> \in Seq(Handlers) /\ <<"command_write">> # <<>>
    BY OneOnStack DEF Handlers
  <2>4. /\ con' \in Connections /\ con'.non_blocking = con.non_blocking
        /\ con'.ready = con.ready /\ con'.stack = <<"command_write">>
        /\ con'.command = at /\ con'.result = NewResult
    BY <2>1, <2>2, <2>3 DEF BinlogInvariant, BinlogTypeOK, Connections, Commands
  <2> QED BY <1>1, <1>2, <1>4, <2>1, <2>2, <2>3, <2>4
<1> QED BY <1>3, <1>4

(* And one that connects first.                                            *)
LEMMA ConnectsLeaves ==
  ASSUME BinlogInvariant, ~fault, NEW at \in Commands, Connects(at), ~con.ready
  PROVE  /\ call'.at = at /\ call'.connecting /\ call'.ret = "none" /\ call' \in Calls
         /\ con' \in Connections /\ con'.non_blocking = con.non_blocking
         /\ ~con'.ready /\ con'.stack = <<"connect">>
         /\ results' = results
<1>1. call'.at = at /\ call'.connecting /\ call'.ret = "none" /\ call' \in Calls
  BY DEF Connects, BinlogInvariant, BinlogTypeOK, Calls, Lines, Rets, Commands
<1>2. con.stack \in {<<>>, <<"connect">>}
  BY DEF BinlogInvariant, OneHandler, Writing
<1>3. <<"connect">> \in Seq(Handlers)
  BY OneOnStack DEF Handlers
<1>4. con' = [con EXCEPT !.stack = <<"connect">>]
  BY <1>2 DEF Connects
<1> QED
  BY <1>1, <1>3, <1>4 DEF Connects, BinlogInvariant, BinlogTypeOK, Connections

(* A line of drizzle_binlog_start that starts or resumes a command.        *)
LEMMA CommandStarts ==
  ASSUME BinlogInvariant, ~fault, NEW at \in Commands,
         (con.ready /\ Writes(at, at)) \/ (~con.ready /\ Connects(at)),
         con.stack # <<"binlog_read">>,
         ~con.non_blocking => con.stack = <<>>,
         ~con.non_blocking /\ at = "dump" => con.ready /\ QueryAnswered,
         con.non_blocking /\ Writing => con.result \notin results /\ at = "query",
         sent' = <<>>, told' = <<>>, UNCHANGED <<binlog, server, fault>>,
         starts' \in 0..MaxStarts,
         Cardinality(results) + (IF at = "query" THEN 2 ELSE 1) <= 2 * starts'
  PROVE  BinlogInvariant'
<1>1. Cardinality(results) \in Nat /\ IsFiniteSet(results)
  BY FS_CardinalityType DEF BinlogInvariant, ResultsCounted
<1>2. /\ call'.at = at /\ call'.ret = "none" /\ call' \in Calls
      /\ con' \in Connections /\ con'.non_blocking = con.non_blocking
      /\ con'.ready <=> con.ready
      /\ con'.stack # <<>> /\ con'.stack # <<"binlog_read">>
      /\ results' \subseteq Nat \ {0} /\ IsFiniteSet(results')
      /\ Cardinality(results') + (IF ~call'.connecting THEN 0 ELSE 1)
           <= Cardinality(results) + 1
  <2>1. Cardinality(results) + 1 <= 2 * MaxStarts
    BY <1>1, BinlogAssumption
  <2>a. /\ <<"command_write">> # <<"binlog_read">>
        /\ <<"connect">> # <<"binlog_read">> /\ <<"connect">> # <<>>
    BY OneOnStack DEF Handlers
  <2>2. CASE con.ready /\ Writes(at, at)
    <3>1. /\ call'.at = at /\ call'.ret = "none" /\ call' \in Calls /\ ~call'.connecting
          /\ con' \in Connections /\ con'.non_blocking = con.non_blocking
          /\ con'.ready = con.ready /\ con'.stack # <<>>
          /\ results' \subseteq Nat \ {0} /\ IsFiniteSet(results')
          /\ Cardinality(results') <= Cardinality(results) + 1
      BY <2>1, <2>2, WritesLeaves
    <3>2. con'.stack # <<"binlog_read">>
      BY <2>1, <2>2, <2>a, WritesLeaves
    <3>3. Cardinality(results') \in Nat
      BY <3>1, FS_CardinalityType
    <3>4. Cardinality(results') + (IF ~call'.connecting THEN 0 ELSE 1) <= Cardinality(results) + 1
      BY <1>1, <3>1, <3>3
    <3> QED BY <3>1, <3>2, <3>4
  <2>3. CASE ~con.ready /\ Connects(at)
    <3>1. /\ call'.at = at /\ call'.ret = "none" /\ call' \in Calls /\ call'.connecting
          /\ con' \in Connections /\ con'.non_blocking = con.non_blocking
          /\ ~con'.ready /\ con'.stack = <<"connect">> /\ results' = results
      BY <2>3, ConnectsLeaves
    <3>2. results' \subseteq Nat \ {0} /\ IsFiniteSet(results')
      BY <1>1, <3>1 DEF BinlogInvariant, BinlogTypeOK
    <3>3. Cardinality(results') + (IF ~call'.connecting THEN 0 ELSE 1) <= Cardinality(results) + 1
      BY <1>1, <3>1
    <3> QED BY <2>3, <2>a, <3>1, <3>2, <3>3
  <2> QED BY <2>2, <2>3
<1>3. \/ /\ con.ready /\ ~call'.connecting /\ con.stack # <<>> /\ con.non_blocking
         /\ con' = con /\ results' = results
      \/ /\ con.ready /\ ~call'.connecting /\ con.stack = <<>>
         /\ con'.stack = <<"command_write">> /\ con'.command = at /\ con'.result \in results'
      \/ /\ ~con.ready /\ call'.connecting
         /\ con'.stack = <<"connect">> /\ results' = results
  <2>1. Cardinality(results) + 1 <= 2 * MaxStarts
    BY <1>1, BinlogAssumption
  <2> QED BY <2>1, WritesLeaves, ConnectsLeaves
<1>4. fault' = FALSE
  BY DEF BinlogInvariant, BinlogTypeOK
<1>5. BinlogTypeOK'
  BY <1>2, <1>4, Empty DEF BinlogInvariant, BinlogTypeOK
<1>6. OneHandler'
  BY <1>2, <1>3, OneOnStack DEF BinlogInvariant, OneHandler, Writing, Handlers, Commands
<1>7. ResultsCounted'
  BY <1>1, <1>2, FS_CardinalityType DEF ResultsCounted, Owed, Commands
<1>8. Answered'
  BY <1>2, <1>3, OneOnStack DEF BinlogInvariant, Answered, Awaits, Handlers
<1>9. BlockingLines'
  BY <1>2, <1>3, <1>4, OneOnStack DEF BinlogInvariant, BlockingLines, QueryAnswered, Commands,
     Handlers
<1>10. NonBlockingLines'
  BY <1>2, <1>3, Empty, OneOnStack DEF BinlogInvariant, NonBlockingLines, Writing, Handlers,
     Commands
<1>11. ChecksumsKnown'
  BY <1>2 DEF BinlogInvariant, ChecksumsKnown, Commands
<1>12. History'
  BY <1>2, Empty DEF BinlogInvariant, History, Commands
<1>13. FirstEvent'
  BY <1>2 DEF FirstEvent, Commands
<1> QED
  BY <1>5, <1>6, <1>7, <1>8, <1>9, <1>10, <1>11, <1>12, <1>13 DEF BinlogInvariant

(* drizzle_binlog_start is called.                                         *)
LEMMA StartStep ==
  ASSUME BinlogInvariant, ~fault, Start
  PROVE  BinlogInvariant'
<1>1. /\ call.at = "idle" /\ starts < MaxStarts /\ starts' = starts + 1
      /\ sent' = <<>> /\ told' = <<>> /\ UNCHANGED <<binlog, server, fault>>
      /\ (con.ready /\ Writes("query", "query")) \/ (~con.ready /\ Connects("query"))
  BY DEF Start, drizzle_command_write
<1>2. starts \in Nat /\ MaxStarts \in Nat /\ starts' \in 0..MaxStarts
  BY <1>1, BinlogAssumption DEF BinlogInvariant, BinlogTypeOK
<1>3. Cardinality(results) \in Nat /\ Cardinality(results) <= 2 * starts
  BY <1>1, <1>2, FS_CardinalityType DEF BinlogInvariant, ResultsCounted, Owed
<1>4. Cardinality(results) + 2 <= 2 * starts'
  BY <1>1, <1>2, <1>3
<1>5. con.stack # <<"binlog_read">> /\ (~con.non_blocking => con.stack = <<>>)
  BY <1>1 DEF BinlogInvariant, OneHandler, BlockingLines
<1>6. con.non_blocking /\ Writing => con.result \notin results
  BY <1>1 DEF BinlogInvariant, NonBlockingLines
<1> QED
  BY <1>1, <1>2, <1>4, <1>5, <1>6, CommandStarts DEF Commands

(* A line goes on with its command once the connection is made.            *)
LEMMA ConnectReturnsStep ==
  ASSUME BinlogInvariant, ~fault, NEW at \in Commands, ConnectReturns(at)
  PROVE  BinlogInvariant'
<1>1. /\ Looped /\ call.at = at /\ call.connecting /\ Ret = "OK" /\ Writes(at, at)
      /\ UNCHANGED <<binlog, server, sent, told, starts, fault>>
  BY DEF ConnectReturns
<1>2. call.ret = "none" /\ con.stack = <<>>
  BY <1>1 DEF Looped, Ret, Running, BinlogInvariant, OneHandler, Commands
<1>3. con.ready
  BY <1>1, <1>2 DEF BinlogInvariant, OneHandler
<1>4. sent = <<>> /\ told = <<>>
  BY <1>1, <1>2 DEF BinlogInvariant, NonBlockingLines, FirstEvent, History, Commands, BlockingLines
<1>5. at = "dump" => con.non_blocking
  BY <1>1 DEF BinlogInvariant, BlockingLines
<1>6. con.stack # <<"binlog_read">> /\ ~Writing
  BY <1>2, OneOnStack DEF Writing, Handlers
<1>7. Cardinality(results) + (IF at = "query" THEN 2 ELSE 1) <= 2 * starts
  BY <1>1 DEF BinlogInvariant, ResultsCounted, Owed, Commands
<1>8. starts' \in 0..MaxStarts
  BY <1>1 DEF BinlogInvariant, BinlogTypeOK
<1> QED
  BY <1>1, <1>2, <1>3, <1>4, <1>5, <1>6, <1>7, <1>8, CommandStarts

(* What is left when results are freed.                                    *)
LEMMA FreesLeaves ==
  ASSUME BinlogInvariant, ~fault, NEW result, Frees(result)
  PROVE  /\ results' \subseteq results /\ results' \subseteq Nat \ {0}
         /\ IsFiniteSet(results') /\ Cardinality(results') <= Cardinality(results)
         /\ Cardinality(results) \in Nat /\ Cardinality(results') \in Nat
         /\ result \notin results' /\ (Freed => con.result \notin results')
         /\ fault' \in BOOLEAN
         /\ fault' <=> (Freed /\ con.result \notin results)
                       \/ (result # 0 /\ result \notin results)
<1>1. results \subseteq Nat \ {0} /\ IsFiniteSet(results)
  BY DEF BinlogInvariant, BinlogTypeOK, ResultsCounted
<1>2. results' \subseteq results
  BY DEF Frees
<1>3. IsFiniteSet(results') /\ Cardinality(results') <= Cardinality(results)
  BY <1>1, <1>2, FS_Subset
<1> QED
  BY <1>1, <1>2, <1>3, FS_CardinalityType DEF Frees

(* The line that queries frees its result.                                 *)
LEMMA QueryReturnsStep ==
  ASSUME BinlogInvariant, ~fault, QueryReturns
  PROVE  BinlogInvariant'
<1>1. /\ Looped /\ ~(call.connecting /\ Ret = "OK") /\ call.at = "query" /\ Frees(Given)
      /\ con' = [con EXCEPT !.result = IF Freed THEN 0 ELSE @]
      /\ UNCHANGED <<binlog, server, sent, told, starts>>
  BY DEF QueryReturns, Returned
<1>2. /\ con' \in Connections /\ con'.stack = con.stack /\ con'.command = con.command
      /\ con'.non_blocking = con.non_blocking /\ con'.owner = con.owner /\ con'.ready = con.ready
      /\ con'.result = IF Freed THEN 0 ELSE con.result
  BY <1>1 DEF BinlogInvariant, BinlogTypeOK, Connections
<1>3. /\ call' \in Calls /\ ~call'.connecting
      /\ call'.at = IF con.non_blocking THEN "settle" ELSE "settled"
      /\ call'.ret = IF con.non_blocking THEN "none" ELSE Ret
  BY <1>1 DEF QueryReturns, Ret, BinlogInvariant, BinlogTypeOK, Calls, Lines, Rets
<1>4. /\ results' \subseteq results /\ results' \subseteq Nat \ {0}
      /\ IsFiniteSet(results') /\ Cardinality(results') <= Cardinality(results)
      /\ Cardinality(results) \in Nat /\ Cardinality(results') \in Nat
      /\ Given \notin results' /\ (Freed => con.result \notin results')
      /\ fault' \in BOOLEAN
      /\ fault' <=> (Freed /\ con.result \notin results) \/ (Given # 0 /\ Given \notin results)
  BY <1>1, FreesLeaves
<1>5. con.non_blocking \/ sent = <<>>
  BY <1>1 DEF BinlogInvariant, FirstEvent
<1>6. BinlogTypeOK'
  BY <1>1, <1>2, <1>3, <1>4 DEF BinlogInvariant, BinlogTypeOK
<1>7. OneHandler'
  BY <1>1, <1>2, <1>3 DEF BinlogInvariant, OneHandler, Writing
<1>8. ResultsCounted'
  <2>1. Cardinality(results) + 1 <= 2 * starts
    BY <1>1, <1>4 DEF BinlogInvariant, BinlogTypeOK, ResultsCounted, Owed
  <2> QED BY <1>1, <1>3, <1>4, <2>1 DEF BinlogInvariant, BinlogTypeOK, ResultsCounted, Owed
<1>9. Answered'
  BY <1>1, <1>2 DEF BinlogInvariant, Answered, Awaits
<1>10. BlockingLines'
  <2> SUFFICES ASSUME ~con.non_blocking PROVE BlockingLines'
    BY <1>2 DEF BlockingLines
  <2>1. /\ con.stack = <<>> /\ call'.at = "settled"
        /\ ~call.connecting => con.result \in results
        /\ call'.ret \in {"OK", "LOST_CONNECTION", "ERROR_CODE"}
    BY <1>1, <1>3 DEF BinlogInvariant, BinlogTypeOK, Calls, BlockingLines, Looped, Running, Ret
  <2>2. ~fault'
    BY <1>4, <2>1 DEF Freed, Given
  <2>3. call'.ret = "OK" => con.ready /\ QueryAnswered
    BY <1>1, <1>3, <2>1 DEF BinlogInvariant, BlockingLines, Ret
  <2> QED
    BY <1>1, <1>2, <1>3, <2>1, <2>2, <2>3 DEF BinlogInvariant, BlockingLines, QueryAnswered
<1>11. NonBlockingLines'
  <2> SUFFICES ASSUME con.non_blocking PROVE NonBlockingLines'
    BY <1>2 DEF NonBlockingLines
  <2>1. ~fault' /\ Writing' => con'.result \notin results'
    <3>1. Writing' => ~call.connecting
      BY <1>2 DEF BinlogInvariant, OneHandler, Writing
    <3>2. CASE Freed
      BY <1>2, <1>4, <3>2
    <3>3. CASE ~Freed /\ ~call.connecting
      BY <1>2, <1>4, <3>3 DEF Given
    <3> QED BY <3>1, <3>2, <3>3
  <2>2. ~fault' => sent' = <<>>
    BY <1>1 DEF BinlogInvariant, NonBlockingLines
  <2> QED
    BY <1>1, <1>2, <1>3, <2>1, <2>2 DEF BinlogInvariant, NonBlockingLines
<1>12. ChecksumsKnown'
  BY <1>1, <1>2, <1>3 DEF BinlogInvariant, ChecksumsKnown
<1>13. History'
  <2>1. told = <<>>
    BY <1>1, <1>5 DEF BinlogInvariant, History, NonBlockingLines
  <2>2. Ret \notin {"EOF", "UNEXPECTED_DATA", "BINLOG_CRC"}
    BY <1>1 DEF Ret, BinlogInvariant, BlockingLines, NonBlockingLines
  <2> QED BY <1>1, <1>2, <1>3, <2>1, <2>2, Empty DEF BinlogInvariant, History
<1>14. FirstEvent'
  BY <1>1, <1>2, <1>3, <1>5 DEF FirstEvent
<1> QED
  BY <1>6, <1>7, <1>8, <1>9, <1>10, <1>11, <1>12, <1>13, <1>14 DEF BinlogInvariant

(* What a call that returns leaves behind, when nothing else changes.      *)
LEMMA ReturnsStep ==
  ASSUME BinlogInvariant, ~fault, Looped, call.at \in {"settle", "settled", "read"},
         Returns(Ret), UNCHANGED <<con, binlog, results, server, sent, told, starts, fault>>
  PROVE  BinlogInvariant'
<1>1. /\ call' \in Calls /\ call'.at = "idle" /\ ~call'.connecting /\ call'.ret = Ret
      /\ call.ret # "none" => call'.ret = call.ret
  BY DEF Returns, Ret, BinlogInvariant, BinlogTypeOK, Calls, Lines, Rets
<1>2. BinlogTypeOK'
  BY <1>1 DEF BinlogInvariant, BinlogTypeOK
<1>3. OneHandler'
  <2>1. con.stack # <<"binlog_read">> \/ con.non_blocking
    BY <1>1, OneOnStack DEF BinlogInvariant, OneHandler, BlockingLines, Looped, Running, Handlers
  <2>2. con.stack # <<"binlog_read">>
    BY <2>1 DEF BinlogInvariant, OneHandler
  <2> QED BY <1>1, <2>2 DEF BinlogInvariant, OneHandler, Writing
<1>4. ResultsCounted'
  BY <1>1, FS_CardinalityType DEF BinlogInvariant, BinlogTypeOK, ResultsCounted, Owed
<1>5. Answered'
  BY <1>1 DEF BinlogInvariant, Answered, Awaits
<1>6. BlockingLines'
  BY <1>1 DEF BinlogInvariant, BlockingLines, Looped, Running
<1>7. NonBlockingLines'
  BY <1>1 DEF BinlogInvariant, NonBlockingLines, Ret, Writing
<1>8. ChecksumsKnown'
  BY <1>1 DEF BinlogInvariant, ChecksumsKnown
<1>9. History'
  <2>1. Len(told) > 0 /\ IsError(told[Len(told)]) => call'.ret = told[Len(told)].what
    <3>1. Len(told) > 0 => told[Len(told)] \in Tellings
      BY DEF BinlogInvariant, History
    <3>2. Len(told) > 0 /\ IsError(told[Len(told)]) => call.ret # "none"
      BY <3>1 DEF BinlogInvariant, History, Tellings, IsError, Told
    <3> QED BY <1>1, <3>2 DEF BinlogInvariant, History
  <2>2. call'.ret \in {"EOF", "UNEXPECTED_DATA", "BINLOG_CRC"} => call.ret = call'.ret
    BY <1>1 DEF Ret
  <2> QED BY <1>1, <2>1, <2>2 DEF BinlogInvariant, History, AsSent, Faulty, ChecksumsGuessed
<1>10. FirstEvent'
  BY <1>1 DEF BinlogInvariant, FirstEvent
<1> QED
  BY <1>2, <1>3, <1>4, <1>5, <1>6, <1>7, <1>8, <1>9, <1>10 DEF BinlogInvariant

(* The line after the query: it returns, or asks for the binlog.           *)
LEMMA QuerySettlesStep ==
  ASSUME BinlogInvariant, ~fault, QuerySettles
  PROVE  BinlogInvariant'
<1>1. /\ Looped /\ call.at \in {"settle", "settled"} /\ AfterQuery(Ret)
      /\ UNCHANGED <<binlog, server, sent, told, starts, fault>>
  BY DEF QuerySettles
<1>2. CASE Ret # "OK"
  BY <1>1, <1>2, ReturnsStep DEF AfterQuery
<1>3. CASE Ret = "OK"
  <2>1. (con.ready /\ Writes("dump", "dump")) \/ (~con.ready /\ Connects("dump"))
    BY <1>1, <1>3 DEF AfterQuery, drizzle_command_write
  <2>2. con.stack = <<>>
    BY <1>1, <1>3 DEF Looped, Running, Ret, BinlogInvariant, BlockingLines, NonBlockingLines
  <2>3. ~con.non_blocking => con.ready /\ QueryAnswered
    BY <1>1, <1>3 DEF Ret, BinlogInvariant, BlockingLines, BinlogTypeOK
  <2>4. sent = <<>> /\ told = <<>>
    BY <1>1 DEF BinlogInvariant, BlockingLines, NonBlockingLines, FirstEvent, History
  <2>5. con.stack # <<"binlog_read">> /\ ~Writing
    BY <2>2, OneOnStack DEF Writing, Handlers
  <2>6. Cardinality(results) + 1 <= 2 * starts
    BY <1>1 DEF BinlogInvariant, ResultsCounted, Owed
  <2>7. starts' \in 0..MaxStarts
    BY <1>1 DEF BinlogInvariant, BinlogTypeOK
  <2> QED
    BY <1>1, <2>1, <2>2, <2>3, <2>4, <2>5, <2>6, <2>7, CommandStarts DEF Commands
<1> QED BY <1>2, <1>3

(* drizzle_binlog_start returns after the events.                          *)
LEMMA ReadReturnsStep ==
  ASSUME BinlogInvariant, ~fault, ReadReturns
  PROVE  BinlogInvariant'
BY ReturnsStep DEF ReadReturns

(* The line that asks for the binlog gives its result to the next one, or  *)
(* drizzle_binlog_start returns.                                           *)
LEMMA DumpReturnsStep ==
  ASSUME BinlogInvariant, ~fault, DumpReturns
  PROVE  BinlogInvariant'
<1>1. PICK ret \in IF con.non_blocking THEN Waited ELSE {Ret} :
        /\ FreesDump
        /\ con' = [con EXCEPT !.result = IF Freed THEN 0 ELSE @]
        /\ IF ret # "OK" THEN Returns(ret)
           ELSE call' = [call EXCEPT !.at = "dumped", !.connecting = FALSE, !.ret = "OK",
                                     !.result = Given]
  BY DEF DumpReturns
<1>2. /\ Looped /\ ~(call.connecting /\ Ret = "OK") /\ call.at = "dump"
      /\ UNCHANGED <<binlog, server, sent, told, starts>>
  BY DEF DumpReturns, Returned
<1>3. /\ con' \in Connections /\ con'.stack = con.stack /\ con'.command = con.command
      /\ con'.non_blocking = con.non_blocking /\ con'.owner = con.owner /\ con'.ready = con.ready
      /\ con'.result = IF Freed THEN 0 ELSE con.result
  BY <1>1 DEF BinlogInvariant, BinlogTypeOK, Connections
<1>4. /\ call' \in Calls /\ ~call'.connecting /\ call'.ret = ret
      /\ call'.at = IF ret = "OK" THEN "dumped" ELSE "idle"
      /\ call'.result = IF ret = "OK" THEN Given ELSE 0
  <2>1. ret \in Rets
    BY <1>1 DEF Waited, Ret, Rets, BinlogInvariant, BinlogTypeOK, Calls
  <2>2. Given \in Nat
    BY DEF Given, BinlogInvariant, BinlogTypeOK, Connections
  <2>3. CASE ret = "OK"
    BY <1>1, <2>1, <2>2, <2>3 DEF BinlogInvariant, BinlogTypeOK, Calls, Lines
  <2>4. CASE ret # "OK"
    <3>1. call' = [call EXCEPT !.at = "idle", !.connecting = FALSE, !.result = 0, !.ret = ret]
      BY <1>1, <2>4 DEF Returns
    <3> QED
      BY <2>1, <2>4, <3>1 DEF BinlogInvariant, BinlogTypeOK, Calls, Lines
  <2> QED BY <2>3, <2>4
<1>5. PICK result \in {0, Given} : Frees(result) /\ result = IF con.non_blocking THEN Given ELSE 0
  BY <1>1 DEF FreesDump
<1>6. /\ results' \subseteq results /\ results' \subseteq Nat \ {0}
      /\ IsFiniteSet(results') /\ Cardinality(results') <= Cardinality(results)
      /\ Cardinality(results) \in Nat /\ Cardinality(results') \in Nat
      /\ result \notin results' /\ (Freed => con.result \notin results')
      /\ fault' \in BOOLEAN
      /\ fault' <=> (Freed /\ con.result \notin results) \/ (result # 0 /\ result \notin results)
  BY <1>5, FreesLeaves
(* Of a blocking connection.                                               *)
<1>7. ASSUME ~con.non_blocking
      PROVE  /\ con.stack = <<>> /\ ~call.connecting /\ con.result \in results /\ ~fault'
             /\ ret = Ret /\ ret \in {"OK", "LOST_CONNECTION", "ERROR_CODE"} /\ told = <<>>
             /\ ret = "OK" => /\ con.ready /\ Len(sent) = 1 /\ Given = con.result
                              /\ con'.result = con.result /\ con.result \in results'
                              /\ con.command = "dump"
  <2>1. /\ con.stack = <<>> /\ ~call.connecting /\ con.result \in results
        /\ call.ret \in {"none", "LOST_CONNECTION", "ERROR_CODE"}
    BY <1>2, <1>7 DEF BinlogInvariant, BlockingLines, Looped, Running
  <2>2. ret = Ret /\ result = 0
    BY <1>1, <1>5, <1>7
  <2>3. told = <<>>
    BY <1>2, Empty DEF BinlogInvariant, History
  <2>4. ASSUME ret = "OK"
        PROVE  /\ con.ready /\ Len(sent) = 1 /\ Given = con.result
               /\ con'.result = con.result /\ con.result \in results' /\ con.command = "dump"
    <3>1. call.ret = "none"
      BY <2>1, <2>2, <2>4 DEF Ret
    <3>2. ~Freed
      BY <2>2, <2>4 DEF Freed
    <3>3. con.result # 0
      BY <2>1 DEF BinlogInvariant, BinlogTypeOK
    <3>4. con.result \in results'
      BY <1>5, <2>1, <2>2, <3>2, <3>3 DEF Frees
    <3> QED
      BY <1>2, <1>3, <1>7, <2>1, <3>1, <3>2, <3>4 DEF BinlogInvariant, BlockingLines, FirstEvent, Given
  <2>5. ~fault' /\ ret \in {"OK", "LOST_CONNECTION", "ERROR_CODE"}
    BY <1>6, <2>1, <2>2 DEF Ret
  <2> QED BY <2>1, <2>2, <2>3, <2>4, <2>5
(* And of the others.                                                      *)
<1>8. ASSUME con.non_blocking
      PROVE  /\ ret \in {"OK", "TIMEOUT", "NO_ACTIVE_CONNECTIONS"} /\ told = <<>>
             /\ Given \notin results'
             /\ Writing => con'.result \notin results'
  <2>1. ret \in {"OK", "TIMEOUT", "NO_ACTIVE_CONNECTIONS"} /\ result = Given
    BY <1>1, <1>5, <1>8 DEF Waited
  <2>2. told = <<>>
    BY <1>8 DEF BinlogInvariant, NonBlockingLines
  <2>3. Writing => ~call.connecting
    BY DEF BinlogInvariant, OneHandler
  <2>4. CASE Freed
    BY <1>3, <1>6, <2>1, <2>2, <2>4
  <2>5. CASE ~Freed
    BY <1>3, <1>6, <2>1, <2>2, <2>3, <2>5 DEF Given
  <2> QED BY <2>4, <2>5
<1>9. BinlogTypeOK'
  BY <1>2, <1>3, <1>4, <1>6 DEF BinlogInvariant, BinlogTypeOK
<1>10. OneHandler'
  BY <1>2, <1>3, <1>4 DEF BinlogInvariant, OneHandler, Writing
<1>11. ResultsCounted'
  <2>1. starts \in Nat
    BY BinlogAssumption DEF BinlogInvariant, BinlogTypeOK
  <2>2. Cardinality(results) <= 2 * starts
    BY <1>2, <1>6, <2>1 DEF BinlogInvariant, ResultsCounted, Owed
  <2> QED BY <1>2, <1>4, <1>6, <2>1, <2>2 DEF ResultsCounted, Owed
<1>12. Answered'
  BY <1>2, <1>3 DEF BinlogInvariant, Answered, Awaits
<1>13. BlockingLines'
  <2> SUFFICES ASSUME ~con.non_blocking PROVE BlockingLines'
    BY <1>3 DEF BlockingLines
  <2> QED
    BY <1>2, <1>3, <1>4, <1>7 DEF BinlogInvariant, BlockingLines
<1>14. NonBlockingLines'
  <2> SUFFICES ASSUME con.non_blocking PROVE NonBlockingLines'
    BY <1>3 DEF NonBlockingLines
  <2>1. Writing' <=> Writing
    BY <1>3 DEF Writing
  <2> QED
    BY <1>2, <1>3, <1>4, <1>8, <2>1 DEF BinlogInvariant, NonBlockingLines
<1>15. ChecksumsKnown'
  BY <1>2, <1>4 DEF BinlogInvariant, ChecksumsKnown
<1>16. told = <<>>
  BY <1>7, <1>8
<1>17. History'
  BY <1>2, <1>4, <1>7, <1>8, <1>16, Empty DEF BinlogInvariant, History
<1>18. FirstEvent'
  BY <1>2, <1>3, <1>4, <1>7 DEF FirstEvent
<1> QED
  BY <1>9, <1>10, <1>11, <1>12, <1>13, <1>14, <1>15, <1>17, <1>18 DEF BinlogInvariant

(* The handler of events is pushed, for who does not own the socket.       *)
LEMMA ReadStartsStep ==
  ASSUME BinlogInvariant, ~fault, ReadStarts
  PROVE  BinlogInvariant'
<1>1. /\ call.at = "dumped" /\ call' = [call EXCEPT !.at = "read", !.result = 0, !.ret = "none"]
      /\ UNCHANGED <<binlog, results, server, sent, told, starts>>
  BY DEF ReadStarts
<1>2. /\ call' \in Calls /\ call'.at = "read" /\ call'.ret = "none"
      /\ call'.connecting = call.connecting /\ ~call.connecting
  BY <1>1 DEF BinlogInvariant, BinlogTypeOK, OneHandler, Calls, Lines, Rets
<1>3. IF con.owner = "NATIVE"
      THEN /\ con' = [con EXCEPT !.stack = <<"binlog_read">> \o @]
           /\ fault' \in BOOLEAN /\ (fault' <=> call.result \notin results)
      ELSE con' = con /\ fault' = fault
  BY <1>1 DEF ReadStarts, Uses, Goes
<1>4. /\ con' \in Connections /\ con'.command = con.command /\ con'.result = con.result
      /\ con'.non_blocking = con.non_blocking /\ con'.owner = con.owner /\ con'.ready = con.ready
      /\ con'.stack = IF con.owner = "NATIVE" THEN <<"binlog_read">> \o con.stack ELSE con.stack
  <2>1. con.stack \in Seq(Handlers) /\ <<"binlog_read">> \in Seq(Handlers)
    BY OneOnStack DEF BinlogInvariant, BinlogTypeOK, Connections, Handlers
  <2>2. <<"binlog_read">> \o con.stack \in Seq(Handlers)
    BY <2>1
  <2> QED BY <1>3, <2>2 DEF BinlogInvariant, BinlogTypeOK, Connections
<1>5. told = <<>>
  BY <1>1, Empty DEF BinlogInvariant, History
<1>6. Len(sent) <= 1
  <2>1. CASE con.non_blocking
    BY <2>1, Zenon DEF BinlogInvariant, NonBlockingLines
  <2>2. CASE ~con.non_blocking
    <3>1. Len(sent) = 1
      BY <1>1, <2>2 DEF BinlogInvariant, FirstEvent
    <3> QED BY <3>1
  <2> QED BY <2>1, <2>2
(* Of a blocking connection, and of the others.                            *)
<1>7. ASSUME ~con.non_blocking
      PROVE  /\ con.stack = <<>> /\ con.ready /\ con.result \in results /\ sent # <<>> /\ ~fault'
             /\ con'.stack = IF con.owner = "NATIVE" THEN <<"binlog_read">> ELSE <<>>
  <2>1. con.stack = <<>> /\ con.ready /\ call.result \in results /\ call.result = con.result
    BY <1>1, <1>7 DEF BinlogInvariant, BlockingLines
  <2>2. sent # <<>>
    <3>1. Len(sent) = 1
      BY <1>1, <1>7 DEF BinlogInvariant, FirstEvent
    <3> QED BY <3>1, Empty
  <2>3. <<"binlog_read">> \o <<>> = <<"binlog_read">>
    BY OneOnStack DEF Handlers
  <2> QED BY <1>3, <1>4, <2>1, <2>2, <2>3
<1>8. ASSUME con.non_blocking, ~fault'
      PROVE  con' = con /\ con.owner # "NATIVE"
  BY <1>1, <1>3, <1>8 DEF BinlogInvariant, NonBlockingLines
<1>9. BinlogTypeOK'
  <2>1. fault' \in BOOLEAN
    BY <1>3 DEF BinlogInvariant, BinlogTypeOK
  <2> QED BY <1>1, <1>2, <1>4, <2>1 DEF BinlogInvariant, BinlogTypeOK
<1>10. OneHandler'
  <2>1. CASE con.non_blocking
    BY <1>1, <1>2, <1>8, <2>1 DEF BinlogInvariant, OneHandler, Writing
  <2>2. CASE ~con.non_blocking
    <3>1. con.command = "dump" /\ <<"binlog_read">> # <<"connect">> /\ <<"binlog_read">> # <<>>
      BY <1>1, <2>2, OneOnStack DEF Handlers, BinlogInvariant, BlockingLines
    <3> QED
      BY <1>1, <1>2, <1>4, <1>7, <2>2, <3>1, OneOnStack DEF OneHandler, Writing, Handlers
  <2> QED BY <2>1, <2>2
<1>11. ResultsCounted'
  BY <1>1, <1>2 DEF BinlogInvariant, ResultsCounted, Owed
<1>12. Answered'
  <2>1. CASE con.non_blocking
    BY <1>1, <1>8, <2>1 DEF BinlogInvariant, Answered, Awaits
  <2>2. CASE ~con.non_blocking
    BY <1>1, <1>4, <1>7, <2>2, OneOnStack DEF BinlogInvariant, Answered, Awaits, Handlers
  <2> QED BY <2>1, <2>2
<1>13. BlockingLines'
  <2> SUFFICES ASSUME ~con.non_blocking PROVE BlockingLines'
    BY <1>4 DEF BlockingLines
  <2> QED
    BY <1>1, <1>2, <1>4, <1>7 DEF BinlogInvariant, BlockingLines
<1>14. NonBlockingLines'
  <2> SUFFICES ASSUME con.non_blocking PROVE NonBlockingLines'
    BY <1>4 DEF NonBlockingLines
  <2>1. CASE fault'
    BY <1>1, <1>2, <1>5, <1>6, <2>1 DEF NonBlockingLines
  <2>2. CASE ~fault'
    BY <1>1, <1>2, <1>5, <1>6, <1>8, <2>2 DEF BinlogInvariant, NonBlockingLines, Writing
  <2> QED BY <2>1, <2>2
<1>15. ChecksumsKnown'
  <2>1. ~(Len(sent) >= 2)
    BY <1>6, LenProperties DEF BinlogInvariant, BinlogTypeOK
  <2> QED BY <1>1, <2>1 DEF BinlogInvariant, ChecksumsKnown
<1>16. History'
  BY <1>1, <1>2, <1>5, Empty DEF BinlogInvariant, History
<1>17. FirstEvent'
  BY <1>1, <1>2, <1>4, <1>7 DEF FirstEvent
<1> QED
  BY <1>9, <1>10, <1>11, <1>12, <1>13, <1>14, <1>15, <1>16, <1>17 DEF BinlogInvariant

----------------------------------------------------------------------------
LEMMA NextInvariant == BinlogInvariant /\ [Next]_vars => BinlogInvariant'
<1> SUFFICES ASSUME BinlogInvariant, [Next]_vars PROVE BinlogInvariant'
  OBVIOUS
<1>1. CASE Next
  <2>1. ~fault
    BY <1>1 DEF Next
  <2> QED
    BY <1>1, <2>1, WaitsStep, LostStep, ConnectedStep, CommandWriteStep, ResultReadStep,
       BinlogReadStep, StartStep, ConnectReturnsStep, QueryReturnsStep, QuerySettlesStep,
       DumpReturnsStep, ReadStartsStep, ReadReturnsStep DEF Next, Commands
<1>2. CASE UNCHANGED vars
  <2> USE <1>2 DEF vars, BinlogInvariant
  <2>1. BinlogTypeOK' /\ OneHandler' /\ ResultsCounted' /\ Answered'
    BY DEF BinlogTypeOK, OneHandler, Writing, ResultsCounted, Owed, Answered, Awaits
  <2>2. BlockingLines' /\ NonBlockingLines'
    BY DEF BlockingLines, QueryAnswered, NonBlockingLines, Writing
  <2>3. ChecksumsKnown' /\ FirstEvent'
    BY DEF ChecksumsKnown, FirstEvent
  <2>4. History'
    BY DEF History, AsSent, Faulty, ChecksumsGuessed
  <2> QED BY <2>1, <2>2, <2>3, <2>4
<1> QED BY <1>1, <1>2

(* The states that a binlog is read in, whatever the server sends and the  *)
(* application calls.                                                      *)
THEOREM BinlogIsInvariant == Spec => []BinlogInvariant
BY InitInvariant, NextInvariant, PTL DEF Spec

(* Every variable of the binlog keeps its type (binlog.cc).                *)
THEOREM BinlogTypeCorrect == Spec => []BinlogTypeOK
<1>1. BinlogInvariant => BinlogTypeOK
  BY DEF BinlogInvariant
<1> QED BY <1>1, BinlogIsInvariant, PTL

(* What the callbacks were told, without the error that is told last.      *)
LEMMA ToldSplits ==
  ASSUME History
  PROVE  LET n == Len(told)
             failed == n > 0 /\ IsError(told[n])
         IN /\ n \in Nat /\ DOMAIN told = 1..n /\ (told = <<>> <=> n = 0)
            /\ Len(Delivered) = IF failed THEN n - 1 ELSE n
            /\ Len(Delivered) \in Nat /\ DOMAIN Delivered = 1..Len(Delivered)
            /\ \A i \in 1..Len(Delivered) : Delivered[i] = told[i] /\ ~IsError(told[i])
            /\ Refused = IF failed /\ told[n].what \in {"UNEXPECTED_DATA", "BINLOG_CRC"}
                         THEN {n} ELSE {}
<1> DEFINE n == Len(told)
           failed == n > 0 /\ IsError(told[n])
<1>1. told \in Seq(Tellings) /\ n \in Nat /\ DOMAIN told = 1..n
  BY DEF History
<1>2. told = <<>> <=> n = 0
  BY <1>1, EmptySeq
<1>3. \A i \in 1..n : IsError(told[i]) => i = n
  BY DEF History
<1>4. failed <=> told # <<>> /\ Last(told).function = "error_fn"
  <2>1. n # 0 <=> n > 0
    BY <1>1
  <2> QED BY <1>2, <2>1, Zenon DEF Last, IsError
<1>5. CASE failed
  <2>1. Delivered = SubSeq(told, 1, n - 1)
    BY <1>4, <1>5, Zenon DEF Delivered, Front
  <2>2. n \in 1..n
    BY <1>1, <1>5
  <2> HIDE DEF n
  <2>3. /\ Len(Delivered) = n - 1 /\ DOMAIN Delivered = 1..(n - 1)
        /\ \A i \in 1..(n - 1) : Delivered[i] = told[i]
    BY <1>1, <2>1, <2>2 DEF n
  <2>4. \A i \in 1..(n - 1) : i \in 1..n /\ i # n
    BY <1>1
  <2>5. \A i \in 1..(n - 1) : ~IsError(told[i])
    BY <1>3, <2>4, Zenon
  <2>6. Refused = IF told[n].what \in {"UNEXPECTED_DATA", "BINLOG_CRC"} THEN {n} ELSE {}
    <3>1. told[n].function = "error_fn" /\ \A i \in 1..n : told[i].function = "error_fn" => i = n
      BY <1>3, <1>5, Zenon DEF IsError
    <3> QED BY <1>1, <2>2, <3>1 DEF Refused
  <2>7. n - 1 \in Nat
    BY <1>1, <2>2
  <2> QED BY <1>1, <1>2, <1>5, <2>3, <2>5, <2>6, <2>7 DEF n
<1>6. CASE ~failed
  <2>1. Delivered = told
    BY <1>4, <1>6, Zenon DEF Delivered
  <2>2. \A i \in 1..n : ~IsError(told[i])
    <3>1. \A i \in 1..n : n > 0
      BY <1>1
    <3> QED BY <1>3, <1>6, <3>1, Zenon
  <2>3. Refused = {}
    BY <1>1, <2>2, Zenon DEF Refused, IsError
  <2> QED BY <1>1, <1>2, <1>6, <2>1, <2>2, <2>3
<1> QED BY <1>5, <1>6

Refusal(t) == IsError(t) /\ t.what \in {"UNEXPECTED_DATA", "BINLOG_CRC"}

(* An event for which error_fn was called is the last, and faulty.         *)
OnlyFaultyRefused ==
  ChecksumsGuessed => \A i \in DOMAIN told : Refusal(told[i]) => Faulty(sent[Len(sent)])

(* What the steps other than the reading of a binlog do to what was sent.  *)
LEMMA OthersKeepHistory ==
  ASSUME BinlogInvariant, [Next]_vars, ~drizzle_state_binlog_read
  PROVE  \/ told' = <<>>
         \/ /\ UNCHANGED <<sent, told, binlog>>
            /\ server'.version = server.version /\ server'.sums = server.sums
<1> SUFFICES ASSUME told' # <<>>
             PROVE  /\ UNCHANGED <<sent, told, binlog>>
                    /\ server'.version = server.version /\ server'.sums = server.sums
  OBVIOUS
<1>1. server \in Peers
  BY DEF BinlogInvariant, BinlogTypeOK
<1>2. CASE Waits \/ Lost \/ Connected \/ drizzle_state_command_write
  BY <1>1, <1>2 DEF Waits, Lost, Connected, drizzle_state_command_write, Peers
<1>3. CASE drizzle_state_result_read
  <2>1. con.stack # <<>> /\ Head(con.stack) = "result_read" /\ told' = told
    BY <1>3 DEF drizzle_state_result_read, Top, Running
  <2>2. CASE fault
    BY <2>1, <2>2, <1>1 DEF BinlogInvariant, BlockingLines, NonBlockingLines
  <2>3. CASE ~fault
    <3>1. con.stack = <<"result_read">>
      BY <2>1, <2>3, OneOnStack DEF BinlogInvariant, OneHandler, Handlers
    <3>2. told = <<>>
      BY <3>1, OneOnStack DEF BinlogInvariant, BlockingLines, NonBlockingLines, History, Handlers
    <3> QED BY <2>1, <3>2
  <2> QED BY <2>1, <2>2, <2>3 DEF BinlogInvariant, BinlogTypeOK
<1>4. CASE Start
  BY <1>4 DEF Start
<1>5. CASE \/ ConnectReturns("query") \/ ConnectReturns("dump") \/ QueryReturns
           \/ QuerySettles \/ DumpReturns \/ ReadStarts \/ ReadReturns
  BY <1>5 DEF ConnectReturns, QueryReturns, QuerySettles, DumpReturns, ReadStarts, ReadReturns
<1>6. CASE UNCHANGED vars
  BY <1>6 DEF vars
<1> QED BY <1>2, <1>3, <1>4, <1>5, <1>6 DEF Next

(* Of the events that are read, only a faulty one is refused.              *)
LEMMA ReadRefusesFaulty ==
  ASSUME BinlogInvariant, ~fault, drizzle_state_binlog_read
  PROVE  OnlyFaultyRefused'
<1>1. /\ con.stack # <<>> /\ call.ret = "none" /\ call.at = "read" /\ ~con.non_blocking
      /\ UNCHANGED server
  BY OneOnStack DEF drizzle_state_binlog_read, Top, Running, BinlogInvariant, OneHandler, Handlers
<1>2. /\ told \in Seq(Tellings) /\ sent \in Seq(Sendings) /\ sent # <<>>
      /\ \A i \in 1..Len(told) : ~IsError(told[i])
  BY <1>1 DEF BinlogInvariant, BinlogTypeOK, FirstEvent, History, Tellings, IsError, Told
<1>3. SUFFICES ASSUME ChecksumsGuessed, NEW i \in DOMAIN told', Refusal(told'[i])
               PROVE  Faulty(sent[Len(sent)])'
  BY <1>1 DEF OnlyFaultyRefused, Refusal, IsError, ChecksumsGuessed
<1>4. ASSUME NEW t \in Tellings, told' = Append(told, t)
      PROVE  Refusal(t)
  BY <1>2, <1>3, <1>4 DEF Refusal
<1>5. CASE BinlogEof \/ BinlogError
  <2>1. PICK what \in {"EOF", "ERROR_CODE"} :
          told' = Append(told, [function |-> "error_fn", what |-> what])
    BY <1>5 DEF BinlogEof, BinlogError, Tells
  <2>2. ~Refusal([function |-> "error_fn", what |-> what])
    BY DEF Refusal
  <2>3. [function |-> "error_fn", what |-> what] \in Tellings
    BY DEF Tellings, Told
  <2> QED BY <1>4, <2>1, <2>2, <2>3
<1>6. CASE BinlogEvent
  <2>1. PICK event \in NextEvents :
          /\ sent' = Append(sent, event)
          /\ BinlogUnexpected(event) \/ BinlogCrc(event) \/ BinlogFound(event)
    BY <1>6 DEF BinlogEvent
  <2>2. event \in Sendings
    BY ComingEvents DEF BinlogInvariant
  <2>3. ~BinlogFound(event)
    <3>1. SUFFICES ASSUME BinlogFound(event) PROVE FALSE
      OBVIOUS
    <3>2. told' = Append(told, [function |-> "binlog_fn", what |-> Shown(Parsed(event))])
      BY <3>1 DEF BinlogFound, Tells
    <3>3. [function |-> "binlog_fn", what |-> Shown(Parsed(event))] \in Tellings
      BY <2>2, ParsedType DEF Tellings
    <3>4. ~Refusal([function |-> "binlog_fn", what |-> Shown(Parsed(event))])
      BY DEF Refusal, IsError
    <3> QED BY <1>4, <3>2, <3>3, <3>4
  <2>4. ~event.whole \/ WrongCrc(event)
    BY <2>1, <2>3 DEF BinlogUnexpected, BinlogCrc
  <2>5. Faulty(event)
    BY <1>1, <1>2, <1>3, <2>4, RefusedIsFaulty DEF BinlogInvariant
  <2>6. sent'[Len(sent')] = event
    BY <1>2, <2>1, <2>2
  <2>7. binlog'.verify_checksums = binlog.verify_checksums
    BY <2>1 DEF BinlogUnexpected, BinlogCrc, BinlogFound, Reads, BinlogInvariant, BinlogTypeOK, Binlogs
  <2> QED BY <2>5, <2>6, <2>7 DEF Faulty
<1> QED
  BY <1>5, <1>6 DEF drizzle_state_binlog_read

LEMMA RefusalsFaulty == Spec => []OnlyFaultyRefused
<1>1. Init => OnlyFaultyRefused
  BY DEF Init, OnlyFaultyRefused
<1>2. ASSUME BinlogInvariant, OnlyFaultyRefused, [Next]_vars
      PROVE  OnlyFaultyRefused'
  <2>1. CASE drizzle_state_binlog_read /\ Next
    <3>1. ~fault
      BY <2>1 DEF Next
    <3> QED BY <1>2, <2>1, <3>1, ReadRefusesFaulty
  <2>2. CASE ~drizzle_state_binlog_read
    <3>1. CASE told' = <<>>
      BY <3>1 DEF OnlyFaultyRefused
    <3>2. CASE /\ UNCHANGED <<sent, told, binlog>>
               /\ server'.version = server.version /\ server'.sums = server.sums
      BY <1>2, <3>2 DEF OnlyFaultyRefused, ChecksumsGuessed, Faulty, Refusal, IsError
    <3> QED BY <1>2, <2>2, <3>1, <3>2, OthersKeepHistory
  <2>3. CASE UNCHANGED vars
    BY <1>2, <2>3 DEF vars, OnlyFaultyRefused, ChecksumsGuessed, Faulty, Refusal, IsError
  <2> QED BY <1>2, <2>1, <2>2, <2>3
<1> QED BY <1>1, <1>2, BinlogIsInvariant, PTL DEF Spec

(* Every event after the first reaches binlog_fn, in order, unless it is   *)
(* refused, which ends the binlog with a call of error_fn: of any server   *)
(* and any binlog, however long.  If the server has checksums exactly when *)
(* the code takes it to have them, none but a faulty event is refused, no  *)
(* faulty one is delivered, and the lengths are those of the data of all   *)
(* events that are not short (drizzle_state_binlog_read).                  *)
THEOREM EventsDeliveredAsSent == Spec => []DeliveredAsSent
<1>1. BinlogInvariant /\ OnlyFaultyRefused => DeliveredAsSent
  <2> SUFFICES ASSUME BinlogInvariant, OnlyFaultyRefused, sent # <<>> PROVE DeliveredAsSent
    BY DEF DeliveredAsSent
  <2> DEFINE n == Len(told)
             failed == n > 0 /\ IsError(told[n])
  <2>1. /\ n \in Nat /\ told \in Seq(Tellings)
        /\ Len(Delivered) = IF failed THEN n - 1 ELSE n
        /\ Len(Delivered) \in Nat /\ DOMAIN Delivered = 1..Len(Delivered)
        /\ \A i \in 1..Len(Delivered) : Delivered[i] = told[i] /\ ~IsError(told[i])
        /\ Refused = IF failed /\ told[n].what \in {"UNEXPECTED_DATA", "BINLOG_CRC"}
                     THEN {n} ELSE {}
    BY ToldSplits DEF BinlogInvariant, History
  <2>0. n \in Nat
    BY <2>1
  <2>2. Len(sent) = 1 + n - (IF failed /\ told[n].what \in {"EOF", "ERROR_CODE"} THEN 1 ELSE 0)
    BY DEF BinlogInvariant, History
  <2>3. failed => told[n].what \in Told
    <3>1. n > 0 => told[n] \in Tellings
      BY <2>1
    <3> QED BY <3>1 DEF Tellings, IsError
  <2>4. Len(sent) = 1 + Len(Delivered) + (IF Refused = {} THEN 0 ELSE 1)
    <3>1. CASE failed /\ told[n].what \in {"UNEXPECTED_DATA", "BINLOG_CRC"}
      <4>1. Refused # {} /\ Len(Delivered) = n - 1
        BY <2>1, <3>1
      <4>2. Len(sent) = 1 + n
        BY <2>1, <2>2, <3>1
      <4> QED BY <2>0, <4>1, <4>2
    <3>2. CASE failed /\ told[n].what \in {"EOF", "ERROR_CODE"}
      <4>1. Refused = {} /\ Len(Delivered) = n - 1
        BY <2>1, <3>2
      <4>2. Len(sent) = 1 + n - 1
        BY <2>1, <2>2, <3>2
      <4> QED BY <2>0, <4>1, <4>2
    <3>3. CASE ~failed
      <4>1. Refused = {} /\ Len(Delivered) = n
        BY <2>1, <3>3
      <4>2. Len(sent) = 1 + n
        BY <2>1, <2>2, <3>3
      <4> QED BY <2>0, <4>1, <4>2
    <3> QED BY <2>3, <3>1, <3>2, <3>3 DEF Told
  <2>5. ASSUME NEW i \in DOMAIN Delivered
        PROVE  Delivered[i].function = "binlog_fn" /\ AsSent(sent[i + 1], Delivered[i].what)
    <3>1. i \in 1..n /\ Delivered[i] = told[i] /\ ~IsError(told[i])
      BY <2>1
    <3>2. Delivered[i].function = "binlog_fn"
      BY <2>1, <3>1 DEF Tellings, IsError
    <3>3. AsSent(sent[i + 1], told[i].what)
      BY <3>1 DEF BinlogInvariant, History
    <3> QED BY <3>1, <3>2, <3>3
  <2>6. ASSUME Refused # {}, ChecksumsGuessed
        PROVE  Faulty(Last(sent))
    <3>1. n \in DOMAIN told /\ Refusal(told[n])
      BY <2>1, <2>6 DEF Refusal
    <3>2. Faulty(sent[Len(sent)])
      BY <2>6, <3>1 DEF OnlyFaultyRefused
    <3> QED BY <3>2 DEF Last
  <2> QED BY <2>4, <2>5, <2>6 DEF DeliveredAsSent
<1> QED BY <1>1, BinlogIsInvariant, RefusalsFaulty, PTL

(* error_fn is called once, last, with what drizzle_binlog_start returns,  *)
(* and the end of a binlog or a bad event never goes untold.               *)
THEOREM ErrorsAlwaysLast == Spec => []ErrorsComeLast
<1>1. BinlogInvariant => ErrorsComeLast
  <2> SUFFICES ASSUME BinlogInvariant PROVE ErrorsComeLast
    OBVIOUS
  <2> DEFINE n == Len(told)
  <2>1. n \in Nat /\ DOMAIN told = 1..n /\ (told = <<>> <=> n = 0)
    BY ToldSplits DEF BinlogInvariant
  <2>2. ASSUME NEW i \in DOMAIN told, told[i].function = "error_fn"
        PROVE  /\ i = n
               /\ call.at \in {"read", "idle"} => call.ret = told[i].what
               /\ call.at = "idle" /\ told[i].what # "ERROR_CODE" => ~con.ready
               /\ call.at = "idle" /\ ~con.non_blocking => con.stack = <<>>
    <3>1. i \in 1..n /\ IsError(told[i])
      BY <2>1, <2>2 DEF IsError
    <3>2. i = n /\ n > 0
      <4>1. \A j \in 1..n : IsError(told[j]) => j = n
        BY DEF BinlogInvariant, History
      <4>2. i = n
        BY <3>1, <4>1, Zenon
      <4> QED BY <2>1, <3>1, <4>2
    <3>3. call.ret = told[n].what /\ con.stack = <<>> /\ (told[n].what # "ERROR_CODE" => ~con.ready)
      BY <3>1, <3>2 DEF BinlogInvariant, History
    <3> QED BY <3>2, <3>3
  <2>3. ASSUME call.ret \in {"EOF", "UNEXPECTED_DATA", "BINLOG_CRC"}
        PROVE  told # <<>> /\ Last(told) = [function |-> "error_fn", what |-> call.ret]
    <3>1. n > 0 /\ told[n] = [function |-> "error_fn", what |-> call.ret]
      BY <2>3 DEF BinlogInvariant, History
    <3> QED BY <2>1, <3>1 DEF Last
  <2> QED BY <2>2, <2>3 DEF ErrorsComeLast
<1> QED BY <1>1, BinlogIsInvariant, PTL

(* On a blocking connection no result is used after it was freed, however  *)
(* often drizzle_binlog_start fails and is called again.                   *)
THEOREM ResultAlwaysLive == Spec => []ResultLive
<1>1. BinlogInvariant => ResultLive
  BY DEF BinlogInvariant, BlockingLines, ResultLive
<1> QED BY <1>1, BinlogIsInvariant, PTL

(* Two neighbours in a sequence.                                           *)
LEMMA TwoInTheMiddle ==
  ASSUME NEW S, NEW s \in Seq(S), NEW i \in 3..Len(s)
  PROVE  SubSeq(s, i - 2, i - 1) = <<s[i - 2], s[i - 1]>>
<1> DEFINE two == SubSeq(s, i - 2, i - 1)
<1>1. Len(s) \in Nat /\ i \in Int /\ i - 2 \in Int /\ i - 1 \in Int /\ i - 2 <= i - 1
  OBVIOUS
<1>2. \A k \in (i - 2)..(i - 1) : k \in 1..Len(s)
  BY <1>1
<1>3. \A k \in (i - 2)..(i - 1) : s[k] \in S
  BY <1>2
<1>4. /\ two \in Seq(S) /\ Len(two) = (i - 1) - (i - 2) + 1
      /\ \A k \in 1..((i - 1) - (i - 2) + 1) : two[k] = s[(i - 2) + k - 1]
  BY <1>1, <1>3, SubSeqProperties
<1> HIDE DEF two
<1>5. Len(two) = 2 /\ two[1] = s[i - 2] /\ two[2] = s[i - 1]
  <2>1. (i - 1) - (i - 2) + 1 = 2 /\ (i - 2) + 1 - 1 = i - 2 /\ (i - 2) + 2 - 1 = i - 1
    BY <1>1
  <2>2. two[1] = s[(i - 2) + 1 - 1] /\ two[2] = s[(i - 2) + 2 - 1]
    BY <1>4, <2>1
  <2> QED BY <1>4, <2>1, <2>2
<1>6. s[i - 2] \in S /\ s[i - 1] \in S
  BY <1>1, <1>3
<1>7. <<s[i - 2], s[i - 1]>> \in Seq(S) /\ Len(<<s[i - 2], s[i - 1]>>) = 2
  BY <1>6
<1>8. \A k \in 1..Len(two) : two[k] = <<s[i - 2], s[i - 1]>>[k]
  BY <1>5
<1>9. two = <<s[i - 2], s[i - 1]>>
  BY <1>4, <1>5, <1>7, <1>8, SeqEqual
<1> QED BY <1>9 DEF two

(* The server is not given a command before its last answer, and asked for *)
(* a binlog by a blocking connection only after the query about checksums. *)
THEOREM AlwaysOneAtATime == Spec => []OneAtATime
<1>1. BinlogInvariant => OneAtATime
  <2> SUFFICES ASSUME BinlogInvariant PROVE OneAtATime
    OBVIOUS
  <2>1. server.asked \in Seq(Asked) /\ DOMAIN server.asked = 1..Len(server.asked)
    BY DEF BinlogInvariant, BinlogTypeOK, Peers
  <2>2. ASSUME NEW i \in DOMAIN server.asked, server.asked[i] = "dump", ~con.non_blocking
        PROVE  i > 2 /\ SubSeq(server.asked, i - 2, i - 1) = <<"query", "OK">>
    <3>1. i > 2 /\ server.asked[i - 2] = "query" /\ server.asked[i - 1] = "OK"
      BY <2>2 DEF BinlogInvariant, BlockingLines
    <3>2. i \in 3..Len(server.asked)
      BY <2>1, <3>1
    <3> QED BY <2>1, <3>1, <3>2, TwoInTheMiddle
  <2>3. \A i \in 1..(Len(server.asked) - 1) :
          server.asked[i] \in {"query", "dump"} => server.asked[i + 1] \in {"OK", "ERROR"}
    BY DEF BinlogInvariant, Answered, Answers
  <2> QED BY <2>2, <2>3 DEF OneAtATime
<1> QED BY <1>1, BinlogIsInvariant, PTL
================================================================================
