---------------------------- MODULE DrizzleClient ----------------------------
(***************************************************************************)
(* drizzle_state_loop, the API functions that run it, and an application   *)
(* that calls them: drizzle_connect, drizzle_command_write through         *)
(* drizzle_query, drizzle_select_db, drizzle_quit and the statement calls  *)
(* that expect no reply, drizzle_column_buffer, drizzle_column_skip_all,   *)
(* drizzle_row_buffer, drizzle_close, drizzle_result_free, drizzle_wait    *)
(* and drizzle_set_revents.                                                *)
(*                                                                         *)
(* pc says who runs: "app" the application, "again" the application with a *)
(* call that returned IO_WAIT, "loop" drizzle_state_loop, "stop" the same  *)
(* with a handler's code other than OK, "leave" the function that called   *)
(* drizzle_state_loop, "wait" the library's own drizzle_wait, "freed"      *)
(* nobody after drizzle_quit.                                              *)
(***************************************************************************)
EXTENDS DrizzlePeer

CONSTANTS
  ApiCalls,       \* what the application calls
  Disciplined,    \* it finishes a call and a reply before the next command
  MaxConnects,    \* bound: attempts to connect
  MaxCommands     \* bound: commands sent

Calls == Commands \cup {"connect", "columns", "skip", "row"}

ASSUME ClientAssumption ==
  /\ ApiCalls \subseteq Calls \cup {"close", "free_result"}
  /\ Disciplined \in BOOLEAN
  /\ MaxConnects \in Nat /\ MaxCommands \in Nat

Init ==
  /\ stack = <<>> /\ sock = "invalid" /\ ready = FALSE
  /\ events = {} /\ revents = {} /\ watch = {}
  /\ packet_number = 0 /\ addrinfo_next = 0
  /\ buf = <<>> /\ packet_size = 0
  /\ result = EmptyResult
  /\ command = [k |-> 0, name |-> "query", left |-> 0]
  /\ pc = "app" /\ op = "close" /\ inConnect = FALSE /\ rc = "OK" /\ skipped = 0
  /\ stage = "done" /\ commands = 0
  /\ s2c = <<>> /\ c2s = <<>> /\ server = "none"
  /\ faults = 0 /\ connects = 0

----------------------------------------------------------------------------
(* The end of drizzle_state_loop.                                          *)

(* Mutant of StateLoopStops: a wait that timed out closes nothing.         *)
StateLoopStopsLeniently ==
  /\ pc = "stop"
  /\ IF rc \in {"IO_WAIT", "PAUSE", "ERROR_CODE", "TIMEOUT"}
     THEN UNCHANGED <<stack, ioVars, conVars, pollVars, buf>>
     ELSE drizzle_close
  /\ pc' = "leave"
  /\ UNCHANGED <<rc, addrinfo_next, packet_size, cmdVars, callVars, appVars,
                 budgetVars>>

StateLoopStops ==
  /\ pc = "stop"
  /\ IF rc \in {"IO_WAIT", "PAUSE", "ERROR_CODE"}
     THEN UNCHANGED <<stack, ioVars, conVars, pollVars, buf>>
     ELSE drizzle_close
  /\ pc' = "leave"
  /\ UNCHANGED <<rc, addrinfo_next, packet_size, cmdVars, callVars, appVars,
                 budgetVars>>

StateLoopEnds ==
  /\ pc = "loop" /\ stack = <<>>
  /\ rc' = "OK" /\ pc' = "leave"
  /\ UNCHANGED <<stack, ioVars, conVars, pollVars, addrinfo_next, dataVars,
                 cmdVars, callVars, appVars, budgetVars>>

----------------------------------------------------------------------------
(* What the API functions do before drizzle_state_loop.                    *)

Start(name) == op' = name /\ pc' = "loop" /\ UNCHANGED rc

(* What no API function touches but through drizzle_close.                 *)
ApiOnly == UNCHANGED <<ioVars, conVars, pollVars, addrinfo_next, dataVars, faults>>

(* drizzle_connect: a pending attempt is taken up where it stopped.        *)
EnterConnect ==
  /\ IF stack = <<>>
     THEN /\ connects < MaxConnects /\ connects' = connects + 1
          /\ Push(<<"addrinfo", "connect", "packet_read", "handshake_server_read">>)
     ELSE UNCHANGED <<stack, connects>>
  /\ inConnect' = TRUE
  /\ UNCHANGED <<cmdVars, commands>>

(* Mutant of EnterCommand: no result is made for the command.              *)
EnterCommandWithoutResult(name) ==
  /\ IF stack = <<>>
     THEN /\ commands < MaxCommands /\ commands' = commands + 1
          /\ command' = [k |-> commands + 1, name |-> name, left |-> Chunks(name)]
          /\ Push(<<"command_write">>)
     ELSE UNCHANGED <<commands, command, stack>>
  /\ inConnect' = FALSE
  /\ UNCHANGED <<result, connects>>

(* drizzle_command_write, connected: a pending state is taken up, whatever *)
(* command it belongs to.                                                  *)
EnterCommand(name) ==
  /\ IF stack = <<>>
     THEN /\ commands < MaxCommands /\ commands' = commands + 1
          /\ command' = [k |-> commands + 1, name |-> name, left |-> Chunks(name)]
          /\ result' = IF name = "noreply" THEN EmptyResult ELSE NewResult
          /\ Push(<<"command_write">>)
     ELSE UNCHANGED <<commands, command, result, stack>>
  /\ inConnect' = FALSE
  /\ UNCHANGED connects

(* The readers of the reply push their states on an empty stack only.      *)
EnterReader(h, r) ==
  /\ IF stack = <<>>
     THEN Push(<<"packet_read", h>>) /\ result' = r
     ELSE UNCHANGED stack /\ result' = [r EXCEPT !.skip = result.skip]
  /\ UNCHANGED <<command, commands, connects>>

(* drizzle_column_buffer points column at the next element of its array.   *)
EnterColumn == EnterReader("column_read", [result EXCEPT !.column = TRUE])
EnterSkip   == EnterReader("column_read", [result EXCEPT !.skip = TRUE])
EnterRow    == EnterReader("row_read", result)

----------------------------------------------------------------------------
(* What they do after it.  A call that returns IO_WAIT is to be made again.*)

(* The application's view of the reply, r being the result it is given.    *)
StageAfter(name, code, r) ==
  CASE code = "IO_WAIT" \/ name = "connect" -> stage
    [] name = "query" /\ code = "OK" /\ r.columns > 0 -> "columns"
    [] name \in {"columns", "skip"} /\ code = "OK" -> "rows"
    [] name = "row" /\ code = "OK" /\ r.row_current # 0 -> "rows"
    [] name = "row" /\ code = "NOT_READY" -> stage
    [] OTHER -> "done"

Finish(name, code, r) ==
  /\ op' = name /\ rc' = code
  /\ pc' = IF code = "IO_WAIT" THEN "again" ELSE "app"
  /\ result' = r
  /\ stage' = StageAfter(name, code, r)
  /\ inConnect' = FALSE /\ skipped' = 0
  /\ UNCHANGED <<stack, command, commands, connects>>

ConnectReturns ==
  /\ pc = "leave" /\ inConnect
  /\ \/ /\ rc = "IO_WAIT" /\ ~ NonBlocking
        /\ pc' = "wait"
        /\ UNCHANGED <<stack, rc, cmdVars, callVars, appVars, connects>>
     \/ /\ rc = "OK" /\ op \in Commands
        /\ pc' = "loop"
        /\ EnterCommand(op)
        /\ UNCHANGED <<rc, op, skipped, stage>>
     \/ /\ ~ (rc = "IO_WAIT" /\ ~ NonBlocking)
        /\ ~ (rc = "OK" /\ op \in Commands)
        /\ op # "quit"
        /\ Finish(op, rc, result)
  /\ ApiOnly

(* drizzle_command_write and its caller.  drizzle_select_db frees what it  *)
(* is returned.                                                            *)
CommandReturns ==
  /\ pc = "leave" /\ ~ inConnect /\ op \in Commands \ {"quit"}
  /\ LET code == IF rc = "PAUSE" THEN "OK" ELSE rc
         left == IF code \in {"OK", "IO_WAIT", "ERROR_CODE"} THEN result
                 ELSE EmptyResult
     IN  Finish(op, code, IF op = "init_db" THEN Free(left) ELSE left)
  /\ ApiOnly

(* drizzle_quit frees the connection, whatever became of the command.      *)
QuitReturns ==
  /\ pc = "leave" /\ op = "quit"
  /\ ~ (inConnect /\ rc = "OK")
  /\ ~ (inConnect /\ rc = "IO_WAIT" /\ ~ NonBlocking)
  /\ drizzle_close
  /\ addrinfo_next' = 0
  /\ result' = Free(result)
  /\ rc' = IF rc = "LOST_CONNECTION" THEN "OK" ELSE rc
  /\ pc' = "freed"
  /\ UNCHANGED <<packet_size, command, callVars, appVars, budgetVars>>

(* drizzle_column_buffer goes on while a column was read; what column is   *)
(* left at is of no use to anyone after that.                              *)
ColumnsReturn ==
  /\ pc = "leave" /\ op = "columns"
  /\ IF rc = "OK" /\ result.column
     THEN EnterColumn /\ Start(op) /\ UNCHANGED <<inConnect, skipped, stage>>
     ELSE Finish(op, rc, IF rc = "OK"
                         THEN [result EXCEPT !.column_current = 0, !.buffered = TRUE]
                         ELSE result)
  /\ ApiOnly

(* drizzle_column_skip_all counts from 1 on every call.                    *)
SkipReturns ==
  /\ pc = "leave" /\ op = "skip"
  /\ LET r == [result EXCEPT !.skip = FALSE]
     IN  IF rc = "OK" /\ skipped + 1 < result.columns
         THEN /\ EnterSkip /\ Start(op)
              /\ skipped' = skipped + 1
              /\ UNCHANGED <<inConnect, stage>>
         ELSE Finish(op, rc, r)
  /\ ApiOnly

(* drizzle_row_buffer reads the fields of the row drizzle_row_read found.  *)
RowReturns ==
  /\ pc = "leave" /\ op \in {"row", "fields"}
  /\ IF op = "row" /\ rc = "OK" /\ result.row_current # 0
     THEN /\ Push(<<"field_read">>)
          /\ Start("fields")
          /\ UNCHANGED <<inConnect, skipped, stage, cmdVars, commands, connects>>
     ELSE Finish("row", rc, result)
  /\ ApiOnly

----------------------------------------------------------------------------
(* The application.                                                        *)

AppRuns == pc \in {"app", "again"}

(* A call that returned IO_WAIT is made again, with the same arguments; a  *)
(* disciplined application makes no other call before that one completes.  *)
May(name, when) ==
  /\ AppRuns /\ name \in ApiCalls
  /\ (pc = "again" /\ Disciplined) => op = name
  /\ (pc = "app" /\ Disciplined) => when

CallConnect ==
  /\ May("connect", stage = "done")
  /\ IF ready
     THEN /\ Finish("connect", "OK", result)
     ELSE /\ EnterConnect
          /\ Start("connect")
          /\ UNCHANGED <<skipped, stage>>
  /\ ApiOnly

CallCommand(name) ==
  /\ May(name, stage = "done")
  /\ commands < MaxCommands \/ (ready /\ stack # <<>>)
  /\ IF ready THEN EnterCommand(name) ELSE EnterConnect
  /\ Start(name)
  /\ UNCHANGED <<skipped, stage>>
  /\ ApiOnly

CallColumns ==
  /\ May("columns", stage = "columns")
  /\ result.at = "live"
  /\ IF result.columns = 0
     THEN Finish("columns", "OK", [result EXCEPT !.buffered = TRUE])
     ELSE /\ EnterColumn
          /\ Start("columns")
          /\ UNCHANGED <<inConnect, skipped, stage>>
  /\ ApiOnly

CallSkip ==
  /\ May("skip", stage = "columns")
  /\ result.at = "live"
  /\ IF result.columns = 0
     THEN Finish("skip", "OK", result)
     ELSE /\ EnterSkip
          /\ Start("skip")
          /\ UNCHANGED <<inConnect, skipped, stage>>
  /\ ApiOnly

CallRow ==
  /\ May("row", stage = "rows")
  /\ result.at = "live"
  /\ IF result.column_current # result.columns /\ ~ result.buffered
     THEN Finish("row", "NOT_READY", result)
     ELSE /\ EnterRow
          /\ Start("row")
          /\ UNCHANGED <<inConnect, skipped, stage>>
  /\ ApiOnly

(* drizzle_result_free of con->result, which con->result still points to.  *)
CallResultFree ==
  /\ AppRuns /\ "free_result" \in ApiCalls
  /\ Disciplined => pc = "app" /\ stage = "done"
  /\ result.at = "live"
  /\ result' = Free(result)
  /\ UNCHANGED <<stack, command, pc, rc, callVars, appVars, connects>>
  /\ ApiOnly

(* drizzle_close gives up whatever was going on.                           *)
CallClose ==
  /\ AppRuns /\ "close" \in ApiCalls
  /\ sock # "invalid"
  /\ drizzle_close
  /\ pc' = "app" /\ op' = "close" /\ rc' = "OK" /\ stage' = "done"
  /\ UNCHANGED <<inConnect, skipped, commands, addrinfo_next, packet_size,
                 cmdVars, budgetVars>>

----------------------------------------------------------------------------
(* Between two calls of the library: poll() done by drizzle_wait at the    *)
(* application's request, or by an event loop that the callback instructs  *)
(* and that reports to drizzle_set_revents.  An application that is not    *)
(* disciplined does either.                                                *)

AroundCalls == UNCHANGED <<addrinfo_next, packet_size, cmdVars, pc, rc,
                           callVars, appVars, budgetVars>>

AppWait ==
  /\ pc = "again" /\ ~ (HasCallback /\ Disciplined) /\ events # {}
  /\ \E r \in Reported(events) : SetRevents(r, watch)
  /\ AroundCalls

(* An event loop may forget an event it has reported, or keep watching it. *)
AppEventLoop ==
  /\ AppRuns /\ HasCallback /\ watch # {}
  /\ \E r \in Reported(watch) :
       \/ \E w \in {watch, watch \ r} : SetRevents(r, w)
       \/ UnwantedOut(r) /\ CallbackErrors # {} /\ drizzle_close
  /\ AroundCalls

(* An event loop still asked to watch a closed descriptor.                 *)
AppLoopStale ==
  /\ AppRuns /\ HasCallback /\ watch # {} /\ sock = "invalid"
  /\ SetRevents({"NVAL"}, watch)
  /\ AroundCalls

(* The application need not call again.                                    *)
AppRests == pc \in {"app", "again", "freed"} /\ UNCHANGED vars

----------------------------------------------------------------------------
Handler ==
  \/ drizzle_state_addrinfo \/ drizzle_state_connect \/ drizzle_state_connecting
  \/ drizzle_state_read \/ drizzle_state_write \/ drizzle_state_packet_read
  \/ drizzle_state_handshake_server_read \/ drizzle_state_handshake_client_write
  \/ drizzle_state_handshake_result_read \/ drizzle_state_command_write
  \/ drizzle_state_result_read \/ drizzle_state_column_read
  \/ drizzle_state_row_read \/ drizzle_state_field_read

LibraryNext ==
  \/ Handler \/ drizzle_wait \/ StateLoopStops \/ StateLoopEnds
  \/ ConnectReturns \/ CommandReturns \/ QuitReturns
  \/ ColumnsReturn \/ SkipReturns \/ RowReturns

Call ==
  \/ CallConnect \/ CallColumns \/ CallSkip \/ CallRow
  \/ \E name \in Commands : CallCommand(name)

AppNext == Call \/ CallResultFree \/ CallClose \/ AppRests

LoopNext == AppWait \/ AppEventLoop \/ AppLoopStale

Next == LibraryNext \/ AppNext \/ LoopNext \/ PeerNext

Spec == Init /\ [][Next]_vars
=============================================================================
