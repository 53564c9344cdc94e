----------------------------- MODULE DrizzleBinlog -----------------------------
(***************************************************************************)
(* The binlog of a server: drizzle_binlog_start, which asks for it, and    *)
(* drizzle_state_binlog_read, which calls the application back for every   *)
(* event (binlog.cc).                                                      *)
(*                                                                         *)
(* Handlers see whole packets, as DrizzleStream promises, so that a        *)
(* handler and the drizzle_state_packet_read above it are one step, which  *)
(* chooses what the server sends, what is lost, and in a non-blocking      *)
(* connection whether anything is there.  Connecting, with its handshake,  *)
(* is one handler.  An event is its type, the size of its data and what    *)
(* its checksum is.                                                        *)
(***************************************************************************)
EXTENDS Integers, Sequences, SequencesExt

CONSTANTS
  Modes,       \* pairs of con->options: non_blocking and socket_owner
  Servers,     \* pairs: the version, and whether events have checksums
  Events,      \* type and size of the events of a binlog
  MaxEvents,   \* bound on the events sent
  MaxStarts    \* bound on the calls of drizzle_binlog_start

ASSUME BinlogAssumption ==
  /\ Modes \subseteq BOOLEAN \X {"NATIVE", "CLIENT"}
  /\ Servers \subseteq {-1, 0, 1} \X BOOLEAN
  /\ Events \subseteq [type : STRING, size : Nat]
  /\ MaxEvents \in Nat /\ MaxStarts \in Nat

(* The data of a format description holds the version of the server, which *)
(* alone is 50 bytes.  Nothing is assumed of which servers have checksums. *)
ASSUME FormatAssumption ==
  \A event \in Events : event.type = "FORMAT_DESCRIPTION" => event.size >= 50

VARIABLES
  con,      \* the options, ready, stack, command, result: 0 for NULL
  binlog,   \* verify_checksums, has_checksums and the event
  call,     \* drizzle_binlog_start: its line, its result, what the loop gave
  results,  \* the results there are
  server,   \* external: version, sums, and what it was asked and answered
  sent,     \* external: the events it sent since drizzle_binlog_start
  told,     \* the calls of binlog_fn and error_fn since then
  starts,   \* how often drizzle_binlog_start was called
  fault     \* a result was used or freed that is not there

vars == <<con, binlog, call, results, server, sent, told, starts, fault>>

HeaderLength == 19   \* HEADER_V4_LENGTH
CrcLength == 4       \* DRIZZLE_BINLOG_CRC32_LEN
ShortLength == 27

NoEvent == [type |-> "UNKNOWN", length |-> 0, raw_length |-> 0, data |-> FALSE]

(* A version is 0 for "5.6.1" and all that begin with it, -1 for those that*)
(* sort before it as strings, "5.5.62" and "10.0.1" among them, and 1 for  *)
(* those that sort after it.  A server of any version may have checksums   *)
(* or have none, if only because the client asks for none (binlog.cc:109). *)
Init ==
  /\ con \in {[non_blocking |-> m[1], owner |-> m[2], ready |-> FALSE, stack |-> <<>>,
               command |-> "none", result |-> 0] : m \in Modes}
  /\ binlog \in [verify_checksums : BOOLEAN, has_checksums : {FALSE}, event : {NoEvent}]
  /\ call = [at |-> "idle", connecting |-> FALSE, result |-> 0, ret |-> "none"]
  /\ results = {}
  /\ server \in {[version |-> s[1], sums |-> s[2], asked |-> <<>>] : s \in Servers}
  /\ sent = <<>> /\ told = <<>> /\ starts = 0 /\ fault = FALSE

----------------------------------------------------------------------------
(* The loop of handlers, called from a line of drizzle_binlog_start.       *)

Running == call.at # "idle" /\ call.ret = "none" /\ con.stack # <<>>
Top(handler) == Running /\ Head(con.stack) = handler

(* What the loop, or the line that called it, returns.                     *)
Looped == call.at # "idle" /\ ~Running
Ret == IF call.ret = "none" THEN "OK" ELSE call.ret

Goes(stack) == con' = [con EXCEPT !.stack = stack]
Leaves(ret) == call' = [call EXCEPT !.ret = ret]

(* drizzle_close, by the loop.                                             *)
Closes(ret) == con' = [con EXCEPT !.ready = FALSE, !.stack = <<>>] /\ Leaves(ret)

Uses(result) == fault' = (fault \/ result \notin results)

Waits ==
  /\ Running /\ con.non_blocking /\ Leaves("IO_WAIT")
  /\ UNCHANGED <<con, binlog, results, server, sent, told, starts, fault>>

Lost ==
  /\ Running /\ Closes("LOST_CONNECTION")
  /\ UNCHANGED <<binlog, results, server, sent, told, starts, fault>>

Connected ==
  /\ Top("connect")
  /\ con' = [con EXCEPT !.ready = TRUE, !.stack = Tail(@)]
  /\ server' = [server EXCEPT !.asked = <<>>]
  /\ UNCHANGED <<binlog, call, results, sent, told, starts, fault>>

drizzle_state_command_write ==
  /\ Top("command_write")
  /\ Goes(<<"result_read">> \o Tail(con.stack))
  /\ server' = [server EXCEPT !.asked = Append(@, con.command)]
  /\ UNCHANGED <<binlog, call, results, sent, told, starts, fault>>

----------------------------------------------------------------------------
(* External: a binlog begins with where it is, and what its format is.     *)
(* An event may say another length than that of its packet.                *)

Sums == IF server.sums THEN {"good", "bad"} ELSE {"none"}

Event(e, sum, whole) == [type |-> e.type, size |-> e.size, sum |-> sum, whole |-> whole]

NextTypes == IF sent = <<>> THEN {"ROTATE"}
             ELSE IF Len(sent) = 1 THEN {"FORMAT_DESCRIPTION"}
             ELSE {e.type : e \in Events} \ {"FORMAT_DESCRIPTION"}

NextEvents ==
  {Event(e, s, w) : e \in {e \in Events : e.type \in NextTypes /\ Len(sent) < MaxEvents},
                    s \in Sums, w \in BOOLEAN}

(* A result that is no error is read, what the packet holds is not.  This  *)
(* is what becomes of the first event.                                     *)
ResultRead ==
  /\ Goes(Tail(con.stack)) /\ UNCHANGED call
  /\ server' = [server EXCEPT !.asked = Append(@, "OK")]
  /\ IF con.command = "dump" THEN \E event \in NextEvents : sent' = Append(sent, event)
                             ELSE UNCHANGED sent

ResultError ==
  /\ Goes(Tail(con.stack)) /\ Leaves("ERROR_CODE")
  /\ server' = [server EXCEPT !.asked = Append(@, "ERROR")]
  /\ UNCHANGED sent

drizzle_state_result_read ==
  /\ Top("result_read")
  /\ Uses(con.result)
  /\ ResultRead \/ ResultError
  /\ UNCHANGED <<binlog, results, told, starts>>

----------------------------------------------------------------------------
(* drizzle_state_binlog_read.                                              *)

Tells(function, what) == told' = Append(told, [function |-> function, what |-> what])

BinlogEof ==
  /\ Uses(con.result)
  /\ Closes("EOF") /\ Tells("error_fn", "EOF")
  /\ UNCHANGED <<binlog, sent>>

BinlogError ==
  /\ Uses(con.result)
  /\ Leaves("ERROR_CODE") /\ Goes(Tail(con.stack)) /\ Tells("error_fn", "ERROR_CODE")
  /\ UNCHANGED <<binlog, sent>>

RawLength(event) == HeaderLength + event.size + (IF event.sum = "none" THEN 0 ELSE CrcLength)
IsShort(event) == RawLength(event) <= ShortLength

(* strncmp(version, DRIZZLE_BINLOG_CHECKSUM_VERSION) <= 0                  *)
HasChecksums(event) ==
  \/ binlog.has_checksums
  \/ ~IsShort(event) /\ event.type = "FORMAT_DESCRIPTION" /\ server.version <= 0

(* Mutant of Parsed: the checksum is part of the data.                     *)
ParsedWithSum(event) ==
  [type |-> event.type, raw_length |-> RawLength(event), data |-> ~IsShort(event),
   length |-> IF IsShort(event) THEN 0 ELSE RawLength(event) - HeaderLength]

Parsed(event) ==
  [type |-> event.type, raw_length |-> RawLength(event), data |-> ~IsShort(event),
   length |-> IF IsShort(event) THEN 0
              ELSE RawLength(event) - HeaderLength - (IF HasChecksums(event) THEN CrcLength ELSE 0)]

(* What is found at the end of an event without a checksum is not one.     *)
WrongCrc(event) ==
  HasChecksums(event) /\ binlog.verify_checksums /\ event.sum # "good"

Reads(event) ==
  binlog' = [binlog EXCEPT !.has_checksums = HasChecksums(event), !.event = Parsed(event)]

BinlogUnexpected(event) ==
  /\ ~event.whole
  /\ Closes("UNEXPECTED_DATA") /\ Tells("error_fn", "UNEXPECTED_DATA")
  /\ UNCHANGED binlog

(* Mutant of BinlogCrc: the error is told, and the event is left behind.   *)
BinlogCrcGoesOn(event) ==
  /\ event.whole /\ WrongCrc(event)
  /\ Reads(event) /\ Tells("error_fn", "BINLOG_CRC")
  /\ UNCHANGED <<con, call>>

BinlogCrc(event) ==
  /\ event.whole /\ WrongCrc(event)
  /\ Reads(event)
  /\ Closes("BINLOG_CRC") /\ Tells("error_fn", "BINLOG_CRC")

(* What the functions of an event return to binlog_fn.                     *)
Shown(event) ==
  [type |-> event.type, length |-> event.length, raw_length |-> event.raw_length,
   data |-> event.data]

(* The handler pops itself, and is pushed again.                           *)
BinlogFound(event) ==
  /\ event.whole /\ ~WrongCrc(event)
  /\ Reads(event)
  /\ Tells("binlog_fn", Shown(Parsed(event)))
  /\ UNCHANGED <<con, call>>

BinlogEvent ==
  \E event \in NextEvents :
    /\ sent' = Append(sent, event)
    /\ BinlogUnexpected(event) \/ BinlogCrc(event) \/ BinlogFound(event)
    /\ UNCHANGED fault

drizzle_state_binlog_read ==
  /\ Top("binlog_read")
  /\ BinlogEof \/ BinlogError \/ BinlogEvent
  /\ UNCHANGED <<results, server, starts>>

----------------------------------------------------------------------------
(* drizzle_binlog_start, and the calls it makes.                           *)

NewResult == CHOOSE n \in 1..(2 * MaxStarts + 1) : n \notin results \cup {con.result}

(* Mutant of Writes: a call that was left before is not resumed.           *)
WritesAnew(command, at) ==
  /\ call' = [call EXCEPT !.at = at, !.connecting = FALSE, !.ret = "none"]
  /\ con' = [con EXCEPT !.stack = <<"command_write">> \o @, !.command = command,
                        !.result = NewResult]
  /\ results' = results \cup {NewResult}

(* drizzle_command_write, once connected.  A call that was left before is  *)
(* resumed, whatever the command of this one.                              *)
Writes(command, at) ==
  /\ call' = [call EXCEPT !.at = at, !.connecting = FALSE, !.ret = "none"]
  /\ IF con.stack # <<>> THEN UNCHANGED <<con, results>>
     ELSE /\ con' = [con EXCEPT !.stack = <<"command_write">>, !.command = command,
                                !.result = NewResult]
          /\ results' = results \cup {NewResult}

(* drizzle_connect.                                                        *)
Connects(at) ==
  /\ con' = [con EXCEPT !.stack = IF @ = <<>> THEN <<"connect">> ELSE @]
  /\ call' = [call EXCEPT !.at = at, !.connecting = TRUE, !.ret = "none"]
  /\ UNCHANGED results

drizzle_command_write(command, at) ==
  IF con.ready THEN Writes(command, at) ELSE Connects(at)

Start ==
  /\ call.at = "idle" /\ starts < MaxStarts /\ starts' = starts + 1
  /\ drizzle_command_write("query", "query")
  /\ sent' = <<>> /\ told' = <<>>
  /\ UNCHANGED <<binlog, server, fault>>

(* A line of drizzle_binlog_start that calls drizzle_command_write.        *)
ConnectReturns(command) ==
  /\ Looped /\ call.at = command /\ call.connecting /\ Ret = "OK"
  /\ Writes(command, command)
  /\ UNCHANGED <<binlog, server, sent, told, starts, fault>>

Returned == Looped /\ ~(call.connecting /\ Ret = "OK")

(* The result the call gives, and whether it is freed already.             *)
Freed == ~call.connecting /\ Ret \notin {"OK", "IO_WAIT", "ERROR_CODE"}
Given == IF call.connecting \/ Freed THEN 0 ELSE con.result

Frees(result) ==
  /\ results' = results \ (IF Freed THEN {con.result, result} ELSE {result})
  /\ fault' = (fault \/ (Freed /\ con.result \notin results)
                     \/ (result # 0 /\ result \notin results))

Returns(ret) ==
  call' = [call EXCEPT !.at = "idle", !.connecting = FALSE, !.result = 0, !.ret = ret]

AfterQuery(ret) ==
  IF ret # "OK" THEN Returns(ret) /\ UNCHANGED <<con, results>>
  ELSE drizzle_command_write("dump", "dump")

(* The result is freed before the loop goes on in a non-blocking           *)
(* connection, with what drizzle_wait returned left aside.                 *)
QueryReturns ==
  /\ Returned /\ call.at = "query"
  /\ Frees(Given)
  /\ con' = [con EXCEPT !.result = IF Freed THEN 0 ELSE @]
  /\ call' = IF con.non_blocking
             THEN [call EXCEPT !.at = "settle", !.connecting = FALSE, !.ret = "none"]
             ELSE [call EXCEPT !.at = "settled", !.connecting = FALSE, !.ret = Ret]
  /\ UNCHANGED <<binlog, server, sent, told, starts>>

QuerySettles ==
  /\ Looped /\ call.at \in {"settle", "settled"}
  /\ AfterQuery(Ret)
  /\ UNCHANGED <<binlog, server, sent, told, starts, fault>>

(* drizzle_wait has nothing to wait for on a connection that is closed.    *)
Waited ==
  IF con.stack = <<>> /\ ~con.ready THEN {"NO_ACTIVE_CONNECTIONS"}
  ELSE {"OK", "TIMEOUT", "NO_ACTIVE_CONNECTIONS"}

(* Mutant of FreesDump: the result of the dump is freed in any case.       *)
FreesDumpAlways == Frees(Given)

FreesDump == IF con.non_blocking THEN Frees(Given) ELSE Frees(0)

DumpReturns ==
  /\ Returned /\ call.at = "dump"
  /\ \E ret \in IF con.non_blocking THEN Waited ELSE {Ret} :
       /\ FreesDump
       /\ con' = [con EXCEPT !.result = IF Freed THEN 0 ELSE @]
       /\ IF ret # "OK" THEN Returns(ret)
          ELSE call' = [call EXCEPT !.at = "dumped", !.connecting = FALSE, !.ret = "OK",
                                    !.result = Given]
  /\ UNCHANGED <<binlog, server, sent, told, starts>>

(* result->push_state, for who owns the socket.                            *)
ReadStarts ==
  /\ call.at = "dumped"
  /\ call' = [call EXCEPT !.at = "read", !.result = 0, !.ret = "none"]
  /\ IF con.owner = "NATIVE" THEN Uses(call.result) /\ Goes(<<"binlog_read">> \o con.stack)
                             ELSE UNCHANGED <<con, fault>>
  /\ UNCHANGED <<binlog, results, server, sent, told, starts>>

ReadReturns ==
  /\ Looped /\ call.at = "read"
  /\ Returns(Ret)
  /\ UNCHANGED <<con, binlog, results, server, sent, told, starts, fault>>

----------------------------------------------------------------------------
(* Nothing is said of what follows the use of a result that is not there.  *)
Next ==
  /\ ~fault
  /\ \/ Waits \/ Lost \/ Connected
     \/ drizzle_state_command_write \/ drizzle_state_result_read \/ drizzle_state_binlog_read
     \/ Start \/ ConnectReturns("query") \/ ConnectReturns("dump")
     \/ QueryReturns \/ QuerySettles \/ DumpReturns \/ ReadStarts \/ ReadReturns

Spec == Init /\ [][Next]_vars

----------------------------------------------------------------------------
(* Properties.                                                             *)

Delivered == IF told # <<>> /\ Last(told).function = "error_fn" THEN Front(told) ELSE told
Refused == {i \in DOMAIN told : /\ told[i].function = "error_fn"
                                /\ told[i].what \in {"UNEXPECTED_DATA", "BINLOG_CRC"}}

(* What the handler takes for granted of the server: checksums are on      *)
(* exactly when its version is not above 5.6.1 (binlog.cc:383).  It need   *)
(* not be so: the comment there and constants.h:95 speak of 5.6.1 or higher*)
(* and drizzle_binlog_start asks for no checksums (binlog.cc:109).         *)
ChecksumsGuessed == server.sums <=> server.version <= 0

(* An event that the application must not be given.                        *)
Faulty(event) == ~event.whole \/ (binlog.verify_checksums /\ event.sum = "bad")

(* An event as it was sent, by any server.  Two things are excepted, and   *)
(* not claimed to be right.  When the guess about checksums is wrong, they *)
(* are not verified, or taken where there are none, and the length is four *)
(* bytes too large or too small.  A short event comes without its data and *)
(* with length 0, where binlog.h:131 promises the length of the data and   *)
(* unit/binlog.c:160 and :181 expect both.                                 *)
AsSent(event, shown) ==
  /\ event.whole /\ shown.type = event.type /\ shown.raw_length = RawLength(event)
  /\ IsShort(event) \/ shown.data
  /\ ChecksumsGuessed =>
       ~Faulty(event) /\ (IsShort(event) \/ shown.length = event.size)

(* Every event after the first is given to binlog_fn, in the order in which*)
(* they were sent, with the length of its data and without its checksum    *)
(* but for the exceptions above; or it is refused, for which error_fn is   *)
(* called instead and last, and then it is the last that was sent, and     *)
(* faulty: no good event is withheld (drizzle_state_binlog_read).          *)
DeliveredAsSent ==
  sent # <<>> =>
    /\ Len(sent) = 1 + Len(Delivered) + (IF Refused = {} THEN 0 ELSE 1)
    /\ \A i \in DOMAIN Delivered :
         Delivered[i].function = "binlog_fn" /\ AsSent(sent[i + 1], Delivered[i].what)
    /\ Refused # {} /\ ChecksumsGuessed => Faulty(Last(sent))

(* error_fn is called once at most, after every event, and with what       *)
(* drizzle_binlog_start returns; when it is not an error of the server,    *)
(* the connection is closed, and of a blocking one no handler is left for  *)
(* the next call.  The end of the binlog and an event that is not as it    *)
(* should be are told to it (drizzle_state_binlog_read).                   *)
ErrorsComeLast ==
  /\ \A i \in DOMAIN told : told[i].function = "error_fn" =>
       /\ i = Len(told)
       /\ call.at \in {"read", "idle"} => call.ret = told[i].what
       /\ call.at = "idle" /\ told[i].what # "ERROR_CODE" => ~con.ready
       /\ call.at = "idle" /\ ~con.non_blocking => con.stack = <<>>
  /\ call.ret \in {"EOF", "UNEXPECTED_DATA", "BINLOG_CRC"} =>
       told # <<>> /\ Last(told) = [function |-> "error_fn", what |-> call.ret]

(* No handler or push is made with a result that was freed                 *)
(* (drizzle_binlog_start, on a blocking connection).                       *)
ResultLive == con.non_blocking \/ ~fault

(* The server is not given a command before it has answered the last one,  *)
(* though a call may be left and made again (drizzle_command_write); and   *)
(* on a blocking connection it is asked for a binlog only when it has      *)
(* answered the query about checksums with OK (drizzle_binlog_start).      *)
OneAtATime ==
  /\ \A i \in 1..(Len(server.asked) - 1) :
       server.asked[i] \in {"query", "dump"} => server.asked[i + 1] \in {"OK", "ERROR"}
  /\ \A i \in DOMAIN server.asked :
       server.asked[i] = "dump" /\ ~con.non_blocking =>
         i > 2 /\ SubSeq(server.asked, i - 2, i - 1) = <<"query", "OK">>

(* Commented: "In non-blocking node, wait for IO but free the result as    *)
(* data is expected to be read by the client" (binlog.cc:166), which is to *)
(* say that the library reads nothing into it any more.                    *)
ResultDone == ~fault
================================================================================
