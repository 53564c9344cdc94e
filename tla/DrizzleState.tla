---------------------------- MODULE DrizzleState ----------------------------
(***************************************************************************)
(* The connection object drizzle_st of libdrizzle-redux: its fields, the   *)
(* stack of handler functions that drizzle_state_loop runs, and the calls  *)
(* every handler makes on it (push_state, pop_state, drizzle_close,        *)
(* drizzle_set_events).  One handler invocation is one step.               *)
(*                                                                         *)
(* The model is of a build without ssl_context (every socket is plain) and *)
(* of state.raw_packet = false, the only value the library gives it.       *)
(***************************************************************************)
EXTENDS Naturals, Sequences, FiniteSets

CONSTANTS
  SocketType,       \* socket_type: "tcp" or "uds"
  NonBlocking,      \* options.non_blocking
  HasTimeout,       \* con->timeout >= 0, so that poll() may return 0
  HasCallback,      \* event_watch_fn is set
  CallbackErrors,   \* codes other than OK that event_watch_fn may return
  NAddr,            \* length of the list getaddrinfo returns
  PacketMod         \* packet_number is a uint8_t: 256 in the code

ASSUME ConfigAssumption ==
  /\ SocketType \in {"tcp", "uds"}
  /\ {NonBlocking, HasTimeout, HasCallback} \subseteq BOOLEAN
  /\ CallbackErrors \subseteq {"PAUSE", "ERRNO"}
  /\ NAddr \in Nat \ {0}
  /\ PacketMod \in Nat /\ PacketMod > 1

VARIABLES
  \* fields of drizzle_st
  stack,            \* _state_stack_list, the top of the stack first
  sock,             \* fd, with the state the kernel keeps for it
  ready,            \* state.ready
  events, revents,  \* poll masks: wanted, and reported
  packet_number,
  addrinfo_next,    \* position in the address list; 0 is NULL
  buf,              \* the one buffer of both directions, buffer_ptr first
  packet_size,      \* units of the packet being parsed still in buf
  result,           \* con->result: the pointer's state and the fields read
  command,          \* the command_* fields: number, name, chunks left to copy
  \* the API call in progress
  pc, op, inConnect, rc, skipped,
  \* the application
  stage, commands,
  \* the peer, the kernel and the event loop around the library
  s2c, c2s, server, watch, faults, connects

ioVars     == <<sock, watch, s2c, c2s, server>>
conVars    == <<ready, packet_number>>
pollVars   == <<events, revents>>
dataVars   == <<buf, packet_size>>
cmdVars    == <<result, command>>
callVars   == <<op, inConnect, skipped>>
appVars    == <<stage, commands>>
budgetVars == <<faults, connects>>

vars == <<stack, ioVars, conVars, pollVars, addrinfo_next, dataVars, cmdVars,
          pc, rc, callVars, appVars, budgetVars>>

Handlers == {"addrinfo", "connect", "connecting", "read", "write",
             "packet_read", "handshake_server_read",
             "handshake_client_write", "handshake_result_read",
             "command_write", "result_read", "column_read", "row_read",
             "field_read"}

Poll == {"IN", "OUT", "ERR", "NVAL"}    \* ERR stands for POLLERR and POLLHUP

Sockets == {"invalid", "open", "pending", "failed", "connected"}

----------------------------------------------------------------------------
(* The handler stack.                                                      *)

Running(h) == pc = "loop" /\ stack # <<>> /\ Head(stack) = h

Push(hs) == stack' = hs \o stack           \* hs lists the new top first
Pop == stack' = Tail(stack)
Replace(hs) == stack' = hs \o Tail(stack)

----------------------------------------------------------------------------
(* A handler returns OK by leaving pc at "loop"; any other code makes      *)
(* drizzle_state_loop stop.                                                *)

Continue == UNCHANGED <<pc, rc>>
Return(code) == pc' = "stop" /\ rc' = code

----------------------------------------------------------------------------
(* drizzle_close: nothing at all when the fd is invalid already.           *)

Hangup == sock' = "invalid" /\ watch' = {} /\ s2c' = <<>> /\ c2s' = <<>>
          /\ server' = "none"

(* Mutant of Reset: state.ready is left as it was.                         *)
ResetKeepsReady == /\ UNCHANGED ready
                   /\ packet_number' = 0
                   /\ buf' = <<>>
                   /\ events' = {} /\ revents' = {}

(* Mutant of Reset: the buffer keeps what was in it.                       *)
ResetKeepsBuffer == /\ ready' = FALSE
                    /\ packet_number' = 0
                    /\ UNCHANGED buf
                    /\ events' = {} /\ revents' = {}

Reset == /\ ready' = FALSE
         /\ packet_number' = 0
         /\ buf' = <<>>
         /\ events' = {} /\ revents' = {}

drizzle_close ==
  IF sock = "invalid"
  THEN UNCHANGED <<stack, ioVars, conVars, pollVars, buf>>
  ELSE Hangup /\ Reset /\ stack' = <<>>

----------------------------------------------------------------------------
(* drizzle_set_events.  The callback is told the whole mask of wanted      *)
(* events, and is not called when nothing is added to it.  When it refuses *)
(* the connection is closed.                                               *)

SetEventsOk(ev) ==
  /\ events' = events \cup ev
  /\ watch' = IF HasCallback /\ ~ (ev \subseteq events)
              THEN events \cup ev ELSE watch

SetEventsRefused(ev) == HasCallback /\ ~ (ev \subseteq events)

(* How a handler that cannot go on leaves: Yield returns IO_WAIT, Block     *)
(* does so in non-blocking mode and calls drizzle_wait otherwise.          *)
Yield == Return("IO_WAIT")
Block == IF NonBlocking THEN Yield ELSE pc' = "wait" /\ UNCHANGED rc

(* The end of a handler that asks for ev, with revents set to rev.         *)
WaitFor(ev, rev, leave) ==
  \/ /\ SetEventsOk(ev)
     /\ revents' = rev
     /\ leave
     /\ UNCHANGED <<stack, sock, s2c, c2s, server, conVars, buf>>
  \/ \E code \in CallbackErrors :
       /\ SetEventsRefused(ev)
       /\ drizzle_close
       /\ Return(code)
=============================================================================
