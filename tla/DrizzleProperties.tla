-------------------------- MODULE DrizzleProperties --------------------------
(***************************************************************************)
(* What the connection of libdrizzle-redux is to guarantee.                *)
(***************************************************************************)
EXTENDS DrizzleClient

StackSize == 8                                \* DRIZZLE_STATE_STACK_SIZE

Units == [part : {"head", "body", "whole"}, kind : ServerKinds \cup ClientKinds,
          seq : 0..(PacketMod - 1), k : Nat, n : Nat]

Results == [at : {"null", "live", "freed"}, columns : Nat, column : BOOLEAN,
            column_current : Nat, row_current : Nat, skip : BOOLEAN,
            buffered : BOOLEAN, eof : BOOLEAN]

Servers == {"none", "greet", "auth", "idle", "closed", "refused"}

Codes == {"OK", "IO_WAIT", "PAUSE", "ERRNO", "ERROR_CODE", "NOT_READY", "MEMORY",
          "GETADDRINFO", "COULD_NOT_CONNECT", "INTERNAL_ERROR", "TIMEOUT",
          "LOST_CONNECTION", "NO_ACTIVE_CONNECTIONS", "BAD_PACKET_NUMBER",
          "BAD_HANDSHAKE_PACKET", "UNEXPECTED_DATA", "HANDSHAKE_FAILED",
          "AUTH_FAILED"}

ConnectionTypeOK ==
  /\ sock \in Sockets /\ ready \in BOOLEAN
  /\ events \subseteq Poll /\ revents \subseteq Poll
  /\ packet_number \in 0..(PacketMod - 1)
  /\ addrinfo_next \in 0..NAddr
  /\ buf \in Seq(Units) /\ packet_size \in {0, 1}

CommandTypeOK ==
  /\ result \in Results
  /\ command \in [k : Nat, name : Commands, left : Nat]

CallTypeOK ==
  /\ pc \in {"app", "again", "loop", "stop", "leave", "wait", "freed"}
  /\ rc \in Codes
  /\ op \in Calls \cup {"fields", "close"}
  /\ inConnect \in BOOLEAN /\ skipped \in Nat
  /\ stage \in {"columns", "rows", "done"} /\ commands \in Nat

PeerTypeOK ==
  /\ watch \subseteq Poll
  /\ s2c \in Seq(Units) /\ c2s \in Seq(Units) /\ server \in Servers
  /\ faults \in Nat /\ connects \in Nat

(* The type invariant: every field of drizzle_st, of the call in progress  *)
(* and of the peer holds a value of its type.                              *)
TypeOK ==
  /\ stack \in Seq(Handlers)
  /\ ConnectionTypeOK /\ CommandTypeOK /\ CallTypeOK /\ PeerTypeOK

----------------------------------------------------------------------------
(* The stack of states.                                                    *)

(* The handlers still to run, as the states of one operation leave them:   *)
(* the attempt to connect and the handshake, a command and its reply, a    *)
(* column, a row, a field.                                                 *)
ConnectStates ==
  {<<"addrinfo", "connect", "packet_read", "handshake_server_read">>,
   <<"connect", "packet_read", "handshake_server_read">>,
   <<"connecting", "packet_read", "handshake_server_read">>,
   <<"read", "packet_read", "handshake_server_read">>,
   <<"packet_read", "handshake_server_read">>, <<"handshake_server_read">>,
   <<"connecting">>, <<"connect">>}

ReaderStates(h) ==
  {<<"packet_read", h>>, <<"read", "packet_read", h>>, <<h>>}

HandshakeStates ==
  ReaderStates("handshake_result_read") \cup
  {<<"handshake_client_write", "write", "packet_read", "handshake_result_read">>,
   <<"write", "packet_read", "handshake_result_read">>}

CommandStates ==
  ReaderStates("result_read") \cup
  {<<"command_write">>, <<"write", "command_write">>, <<"write">>,
   <<"write", "packet_read", "result_read">>}

(* ECONNREFUSED from recv() with no address left: about to be closed.      *)
RefusedStates ==
  {<<"connect", "packet_read", h>> :
     h \in {"handshake_result_read", "result_read", "column_read", "row_read"}}
  \cup {<<"connect", "field_read">>}

StackStates ==
  {<<>>} \cup ConnectStates \cup HandshakeStates \cup CommandStates
  \cup ReaderStates("column_read") \cup ReaderStates("row_read")
  \cup {<<"field_read">>, <<"read", "field_read">>}

(* Whatever the application calls and in whatever order, the handlers on   *)
(* the stack are those of one operation: no call leaves or finds there     *)
(* what belongs to another.                                                *)
WellFormedStack ==
  stack \in StackStates \/ (pc = "stop" /\ stack \in RefusedStates)

(* push_state ignores a failing `new' and its callers ignore what it       *)
(* returns: the stack must never outgrow the DRIZZLE_STATE_STACK_SIZE      *)
(* packets that drizzle_st has in itself.                                  *)
StackFits == Len(stack) <= StackSize

----------------------------------------------------------------------------
(* Connecting.                                                             *)

Receivers == {"read", "packet_read", "handshake_server_read",
              "handshake_result_read", "result_read", "column_read", "row_read",
              "field_read"}
Senders == {"write", "handshake_client_write", "command_write"}

(* connect_failed_try_next dereferences addrinfo_next, so it is not NULL   *)
(* while a connect() is pending; once connected it is, so that an          *)
(* ECONNREFUSED of recv() cannot restart the connection under a handler    *)
(* that has begun to talk to another server.                               *)
AddressInStep ==
  /\ Running("connecting") => addrinfo_next # 0
  /\ pc = "loop" /\ stack # <<>> /\ Head(stack) \in Receivers \cup Senders
       /\ sock # "invalid"
       => addrinfo_next = 0

(* drizzle_connect returns OK only on an authenticated connection, and no  *)
(* command is put in the buffer before that.                               *)
ReadyWhenConnected ==
  /\ ready => sock = "connected" /\ server \in {"idle", "closed"}
  /\ pc = "leave" /\ inConnect /\ rc = "OK" => ready
  /\ Running("command_write") => ready

(* A call that failed leaves nothing of the connection it failed on: the   *)
(* next one has to connect again, and counts the packets from 0 in an      *)
(* empty buffer.                                                           *)
FailureResets ==
  pc = "app" /\ rc \notin {"OK", "ERROR_CODE", "NOT_READY"}
    => ~ ready /\ packet_number = 0 /\ buf = <<>>

(* A connection is made for a handshake that starts from nothing: nothing  *)
(* of the connection before it is in the buffer, and no handler of a       *)
(* command or of another handshake is on the stack.                        *)
FreshConnection ==
  [][server' = "greet" /\ server # "greet"
       => /\ ~ ready /\ packet_number = 0 /\ buf = <<>>
          /\ stack # <<>> /\ stack[Len(stack)] = "handshake_server_read"]_vars

----------------------------------------------------------------------------
(* Why the stack is well formed: the facts the handlers rely on without    *)
(* testing them, which with TypeOK and WellFormedStack are preserved by    *)
(* every step.                                                             *)

Top(hs) == stack # <<>> /\ Head(stack) \in hs

Resumable == {"IO_WAIT", "PAUSE", "ERROR_CODE"}

(* Only a handler that succeeds empties the stack for the caller to push   *)
(* on, and what ECONNREFUSED left there is closed at once.                 *)
LoopOutcome ==
  /\ pc = "stop" => rc # "OK"
  /\ pc = "leave" /\ rc = "OK" => stack = <<>>
  /\ pc = "stop" /\ stack \in RefusedStates
       => sock # "invalid" /\ rc \notin Resumable

Parsers == {"handshake_server_read", "handshake_result_read", "result_read",
            "column_read", "row_read", "field_read"}

(* A parser is on top only while drizzle_state_loop runs and only with its *)
(* packet in the buffer, so that it never has to read and comes to wait;   *)
(* the greeting's stays there when the server refuses the client.          *)
ParserHasPacket ==
  /\ Top(Parsers \ {"field_read", "handshake_server_read"})
       => pc = "loop" /\ packet_size = 1 /\ buf # <<>>
  /\ Top({"handshake_server_read"}) /\ packet_size = 1 => buf # <<>>

(* An address is left over only until a socket is connected.               *)
AddressKept ==
  /\ Top({"connecting"}) /\ pc # "freed" => addrinfo_next # 0
  /\ addrinfo_next # 0 => SocketType = "tcp"
  /\ addrinfo_next # 0 /\ sock # "invalid"
       => Top({"connect", "connecting"}) \/ (pc = "stop" /\ rc \notin Resumable)

(* A command is copied to the buffer at most once.                         *)
CommandLeft == command.left <= Chunks(command.name)

StackInvariant ==
  /\ TypeOK /\ WellFormedStack
  /\ LoopOutcome /\ ParserHasPacket /\ AddressKept /\ CommandLeft

----------------------------------------------------------------------------
(* Why a connection starts from nothing and is ready when it is said to    *)
(* be: what holds of it, with StackInvariant, when event_watch_fn does not *)
(* refuse the mask of a TCP connection.  drizzle_state_connect ignores     *)
(* such a refusal and leaves drizzle_state_connecting alone on the stack.  *)

CallbackAccepts == SocketType = "tcp" /\ HasCallback => CallbackErrors = {}

(* Nothing of an earlier connection in drizzle_st.                         *)
Clean == ~ ready /\ packet_number = 0 /\ buf = <<>>

(* The drizzle_close to come, at the end of drizzle_state_loop.            *)
Closing == pc = "stop" /\ rc \notin Resumable

(* A socket that is not connected has left nothing behind and shakes no    *)
(* hands; nor has the one that drizzle_state_connect is about to replace.  *)
CleanApart ==
  /\ sock # "connected"
       => Clean /\ server = "none" /\ s2c = <<>> /\ stack \notin HandshakeStates
  /\ Top({"addrinfo", "connect", "connecting"}) /\ ~ Closing => Clean

(* A connect() that is pending is waited for and was not reported yet.     *)
PendingAwaited == sock = "pending" => Top({"connecting"}) /\ revents = {}

(* The stack says whether the client is authenticated.                     *)
StackTellsReady ==
  /\ stack \in ConnectStates \cup HandshakeStates => ~ ready
  /\ stack \in CommandStates => ready
  /\ ~ ready /\ sock = "connected" /\ ~ Closing
       => stack \in ConnectStates \cup HandshakeStates
  /\ stack \notin {<<"connect">>, <<"connecting">>}

(* What codes mean on their way from a handler to the application.         *)
CodesMean ==
  /\ pc = "loop" /\ stack = <<>> => ready
  /\ pc = "leave" /\ rc = "OK" => ready
  /\ pc = "wait" \/ (pc \in {"stop", "leave"} /\ rc = "IO_WAIT") => stack # <<>>
  /\ pc = "stop" /\ rc = "PAUSE" => sock = "invalid"
  /\ pc = "app" => rc # "IO_WAIT"
  /\ pc \in {"app", "leave"} /\ rc \notin {"OK", "ERROR_CODE", "NOT_READY", "IO_WAIT"}
       => Clean

(* Packets sent before and after the client is authenticated.              *)
Greetings == {"greeting", "refusal"}
Replies   == {"ok", "count", "column", "row"}
Kinds(s)  == {s[i].kind : i \in DOMAIN s}

(* The server has authenticated the client before it says a word of a      *)
(* reply, and says nothing before its greeting.                            *)
RepliesFollow ==
  /\ ready => server \in {"idle", "closed"}
  /\ (Kinds(buf) \cup Kinds(s2c)) \cap Replies # {} => server \in {"idle", "closed"}
  /\ server = "greet" => buf = <<>> /\ s2c = <<>> /\ stack # <<"handshake_server_read">>
  /\ Kinds(s2c) \subseteq ServerKinds

(* A greeting is the first packet of a connection, read before the client  *)
(* answers it.                                                             *)
GreetingLength == IF stack = <<"handshake_server_read">> THEN 1 ELSE 2
GreetingFirst ==
  /\ stack \in ConnectStates =>
       /\ \A i \in DOMAIN buf : buf[i].kind \in Greetings => i <= GreetingLength
       /\ \A i \in DOMAIN s2c :
            s2c[i].kind \in Greetings => Len(buf) + i <= GreetingLength
  /\ stack \in HandshakeStates =>
       server # "greet" /\ (Kinds(buf) \cup Kinds(s2c)) \cap Greetings = {}
  /\ stack \in ReaderStates("handshake_result_read") => Kinds(buf) \subseteq ServerKinds

SessionInvariant ==
  /\ CleanApart /\ PendingAwaited /\ StackTellsReady /\ CodesMean
  /\ RepliesFollow /\ GreetingFirst

----------------------------------------------------------------------------
(* Packets.                                                                *)

(* drizzle_state_packet_read finds the header it expects in front of what  *)
(* has arrived: the numbers of both sides agree and nothing was left there *)
(* by an earlier packet.                                                   *)
HeaderAtHand ==
  Running("packet_read") /\ buf # <<>>
    => Head(buf).part = "head" /\ Head(buf).seq = packet_number

Expected(h) ==
  CASE h = "handshake_server_read" -> {"greeting", "refusal", "err"}
    [] h = "handshake_result_read" -> {"ok", "eof", "err"}
    [] h = "result_read"           -> {"ok", "count", "err"}
    [] h = "column_read"           -> {"column", "eof"}
    [] h = "row_read"              -> {"row", "eof", "err"}
    [] h = "field_read"            -> {"row"}

(* A parser finds the whole body of a packet it is meant for, that answers *)
(* the command sent last.  The one exception is the state that an error    *)
(* instead of a greeting leaves on the stack.                              *)
PacketAtHand ==
  \A h \in Parsers :
    Running(h) =>
      \/ h = "handshake_server_read" /\ packet_size = 0
      \/ /\ packet_size = 1 /\ buf # <<>>
         /\ Head(buf).part = "body" /\ Head(buf).kind \in Expected(h)
         /\ Head(buf).k = IF ready THEN command.k ELSE 0

(* The application is told that a reply is at its end only when the        *)
(* library has read all of it: what is left would be sent to the server    *)
(* with the next command, the buffer being the same, and be taken for its  *)
(* reply.                                                                  *)
DoneMeansDrained ==
  pc = "app" /\ stage = "done" /\ ready /\ server = "idle"
    => stack = <<>> /\ buf = <<>> /\ s2c = <<>>

(* drizzle_row_read returns 0 only when the reply has no more rows.        *)
EndOfRows ==
  pc = "app" /\ op = "row" /\ rc = "OK" /\ result.row_current = 0
    => \A s \in {buf, s2c} : \A i \in DOMAIN s : s[i].kind # "row"

(* What is on its way to the server is what the library wrote, each piece  *)
(* after the one it follows.                                               *)
CommandStream ==
  LET u == c2s
  IN  /\ \A i \in DOMAIN u : u[i].part = "whole"
      /\ \A i \in DOMAIN u \ {1} :
           \/ u[i].k = u[i-1].k /\ u[i].n = u[i-1].n + 1
           \/ u[i].k > u[i-1].k /\ u[i].n = 1

----------------------------------------------------------------------------
(* Results.                                                                *)

(* No handler fills in a result that has been freed, and no call frees it  *)
(* a second time.                                                          *)
ResultLive ==
  /\ \A h \in {"result_read", "column_read", "row_read", "field_read"} :
       Running(h) => result.at = "live"
  /\ pc = "leave" /\ op = "init_db" /\ ~ inConnect => result.at # "freed"

----------------------------------------------------------------------------
(* Waiting.                                                                *)

Need == CASE stack = <<>> -> {}
          [] Head(stack) = "read" -> {"IN"}
          [] Head(stack) \in {"write", "connecting"} -> {"OUT"}
          [] OTHER -> {}

(* Whoever waits, waits for an event the handler on top is waiting for: a  *)
(* poll() with another mask would sleep though the handler could go on.    *)
WaitsForWhatItNeeds ==
  pc = "wait" \/ (pc = "again" /\ rc = "IO_WAIT" /\ sock # "invalid")
    => stack # <<>> /\ Need # {} /\ Need \subseteq events \cup revents

(* An event loop instructed by the callback watches every event that the   *)
(* library wants and that was not reported yet.                            *)
WatchCovers ==
  HasCallback /\ pc = "again" /\ sock # "invalid" => events \subseteq watch

----------------------------------------------------------------------------
(* Progress.  The thread in a call goes on, and so do the kernel and the   *)
(* server; the application that was told IO_WAIT waits, by drizzle_wait or *)
(* by its event loop, and makes the call again, always doing both in turn. *)

PeerWorks == KernelConnects \/ ServerGreets \/ ServerAuthenticates \/ ServerAnswers

FairSpec ==
  /\ Spec
  /\ WF_vars(LibraryNext) /\ WF_vars(PeerWorks)
  /\ SF_vars(AppWait) /\ SF_vars(AppEventLoop)
  /\ SF_vars(pc = "again" /\ Call)

(* Every call returns: no handler spins, and no poll() misses what it is   *)
(* waiting for.                                                            *)
CallReturns == pc \in {"loop", "wait", "stop", "leave"} ~> pc \in {"app", "again", "freed"}

(* A call that returned IO_WAIT completes, if it is made again often       *)
(* enough.                                                                 *)
CallCompletes == pc = "again" ~> pc \in {"app", "freed"}
=============================================================================
