---------------------------- MODULE DrizzleStatement ----------------------------
(***************************************************************************)
(* A prepared statement from drizzle_stmt_prepare to drizzle_stmt_close,   *)
(* next to the other results of its connection.  The connection blocks, so *)
(* that each call of the library is one step; its outcomes are those of    *)
(* the commands it sends: an answer, an error from the server, or a lost   *)
(* connection, which the next command makes anew (without the statements   *)
(* the server knew).  A row is its position in the result; DrizzleRows has *)
(* what is in it.  A call that would wait for ever is not made.            *)
(***************************************************************************)
EXTENDS DrizzleResults

CONSTANTS
  MaxRows,      \* bound on the rows of a result
  MaxLosses     \* bound on the connections lost

ASSUME StatementAssumption ==
  MaxRows \in Nat /\ MaxLosses \in Nat

VARIABLES
  heap,      \* the results of the connection
  made,      \* how many there were
  info,      \* columns, buffered, row_count, row_current of execute_result
  held,      \* the results the application holds itself
  stmt,      \* the statement
  reading,   \* the rows still to come: of which result, and how many
  losses,    \* connections lost; names the session, too
  connected, \* the last one is not lost, or the next was made
  fetched,   \* rows the application got since drizzle_stmt_execute
  sent,      \* rows the server had for it
  freeing,   \* drizzle_result_free_all is under way
  stolen,    \* it took the results of a statement
  last       \* what the last call returned, when it was a fetch

connection == <<losses, connected>>
vars == <<heap, made, info, held, stmt, reading, connection, fetched, sent,
          freeing, stolen, last>>

NoInfo == [columns |-> 0, buffered |-> FALSE, row_count |-> 0,
           row_current |-> 0]
NoStmt == [exists |-> FALSE, state |-> "NONE", params |-> 0, bound |-> FALSE,
           prepare_result |-> 0, execute_result |-> 0,
           result_params |-> "null", session |-> 0]
Nothing == [result |-> 0, left |-> 0]

Init ==
  /\ heap = EmptyHeap /\ made = 0 /\ info = NoInfo
  /\ held = {} /\ stmt = NoStmt /\ reading = Nothing
  /\ losses = 0 /\ connected = FALSE
  /\ fetched = 0 /\ sent = 0 /\ freeing = FALSE /\ stolen = FALSE /\ last = "none"

New == made + 1
Answers == {"OK", "ERROR_CODE", "LOST_CONNECTION"}
Lost(code) ==
  /\ code = "LOST_CONNECTION" => losses < MaxLosses
  /\ losses' = IF code = "LOST_CONNECTION" THEN losses + 1 ELSE losses
  /\ connected' = (code # "LOST_CONNECTION")

(* No command is sent while rows are still to come.                        *)
Quiet == reading = Nothing

----------------------------------------------------------------------------
(* Results of the application's own, which have no rows.                   *)

drizzle_query ==
  /\ Quiet /\ made < MaxResults
  /\ \E code \in Answers :
       /\ Lost(code)
       /\ heap' = Command(heap, New, code)
       /\ held' = IF code = "LOST_CONNECTION" THEN held ELSE held \cup {New}
  /\ made' = New
  /\ UNCHANGED <<info, stmt, reading, fetched, sent, stolen>>

FreeHeld ==
  /\ \E r \in held : /\ heap' = drizzle_result_free(heap, r)
                     /\ held' = held \ {r}
  /\ UNCHANGED <<made, info, stmt, reading, connection, fetched, sent, stolen>>

(* drizzle_result_free_all takes the results of a statement, too: the first*)
(* of the list, for as long as there is one.                               *)
FreeAll ==
  /\ ~ freeing /\ Quiet
  /\ held' = {} /\ stolen' = (stolen \/ stmt.exists)
  /\ freeing' = (heap.result_list # 0) /\ last' = "none"
  /\ UNCHANGED <<heap, made, info, stmt, reading, connection, fetched, sent>>

FreeFirst ==
  /\ freeing
  /\ heap' = drizzle_result_free(heap, heap.result_list)
  /\ freeing' = (heap'.result_list # 0)
  /\ UNCHANGED <<made, info, held, stmt, reading, connection, fetched, sent, stolen, last>>

----------------------------------------------------------------------------
(* drizzle_stmt_prepare.                                                   *)

(* The statement is freed; the result of a server's error is not.          *)
PrepareFails ==
  /\ \E code \in Answers \ {"OK"} :
       /\ Lost(code)
       /\ heap' = Command(heap, New, code)
  /\ UNCHANGED stmt

(* The connection is lost while the parameters are skipped: the statement  *)
(* is freed, its result stays on the list.                                 *)
SkippingFails ==
  /\ Lost("LOST_CONNECTION")
  /\ heap' = Command(heap, New, "OK")
  /\ UNCHANGED stmt

(* The connection may be lost while the columns are buffered, which        *)
(* drizzle_stmt_prepare does not look at.                                  *)
Prepared ==
  /\ \E code \in {"OK", "LOST_CONNECTION"}, params \in 0..1 :
       /\ Lost(code)
       /\ stmt' = [NoStmt EXCEPT !.exists = TRUE, !.state = "PREPARED",
                     !.params = params, !.prepare_result = New,
                     !.session = losses]
  /\ heap' = Command(heap, New, "OK")

drizzle_stmt_prepare ==
  /\ Quiet /\ ~ stmt.exists /\ made < MaxResults
  /\ PrepareFails \/ SkippingFails \/ Prepared
  /\ made' = New /\ info' = NoInfo /\ fetched' = 0 /\ sent' = 0
  /\ UNCHANGED <<held, reading, stolen>>

----------------------------------------------------------------------------
drizzle_stmt_set_param ==
  /\ stmt.exists /\ stmt.params > 0 /\ ~ stmt.bound
  /\ stmt' = [stmt EXCEPT !.bound = TRUE]
  /\ UNCHANGED <<heap, made, info, held, reading, connection, fetched, sent, stolen>>

(* drizzle_stmt_execute: sends nothing when a parameter is not bound.      *)
Unbound == stmt.params > 0 /\ ~ stmt.bound

ExecuteUnbound ==
  /\ Unbound
  /\ UNCHANGED <<heap, made, info, stmt, reading, connection, fetched, sent>>

ExecuteHeap(code) ==
  Command(drizzle_result_free(heap, stmt.execute_result), New, code)

(* The state and result_params stay as they were; a lost connection leaves *)
(* no result, a server's error leaves one without columns.                 *)
ExecuteFails ==
  /\ \E code \in Answers \ {"OK"} :
       /\ Lost(code)
       /\ heap' = ExecuteHeap(code)
       /\ stmt' = [stmt EXCEPT !.execute_result =
                     IF code = "ERROR_CODE" THEN New ELSE 0]
  /\ info' = NoInfo /\ sent' = 0
  /\ UNCHANGED reading

(* Columns come with the answer to a query: they are buffered, and the     *)
(* fetched values get their place whether or not that worked.              *)
Executed ==
  /\ stmt.session = losses
  /\ \E code \in {"OK", "LOST_CONNECTION"}, columns \in 0..1, n \in 0..MaxRows :
       /\ columns = 0 => n = 0 /\ code = "OK"
       /\ Lost(code)
       /\ info' = [NoInfo EXCEPT !.columns = columns]
       /\ stmt' = [stmt EXCEPT !.state = "EXECUTED", !.execute_result = New,
                     !.result_params = IF columns > 0 THEN "live" ELSE @]
       /\ reading' = IF columns > 0 /\ code = "OK"
                     THEN [result |-> New, left |-> n] ELSE Nothing
       /\ sent' = n
  /\ heap' = ExecuteHeap("OK")

drizzle_stmt_execute ==
  /\ Quiet /\ stmt.exists
  /\ \/ ExecuteUnbound
     \/ /\ ~ Unbound /\ made < MaxResults
        /\ made' = New /\ fetched' = 0
        /\ ExecuteFails \/ Executed
  /\ UNCHANGED <<held, stolen>>

(* drizzle_stmt_reset.  The server does not answer, as the code has it.    *)
Freed(h) ==
  IF stmt.result_params = "freed" THEN Faulty(h, "params_freed_twice") ELSE h

(* Mutant of ResetStmt: the pointer to the freed result is kept.           *)
ResetStmtKeeps ==
  [stmt EXCEPT !.state = "PREPARED",
     !.result_params = IF @ = "null" THEN @ ELSE "freed"]

ResetStmt ==
  [stmt EXCEPT !.state = "PREPARED", !.execute_result = 0,
     !.result_params = IF @ = "null" THEN @ ELSE "freed"]

drizzle_stmt_reset ==
  /\ Quiet /\ stmt.exists
  /\ \E code \in {"OK", "LOST_CONNECTION"} : Lost(code)
  /\ heap' = Freed(drizzle_result_free(heap, stmt.execute_result))
  /\ stmt' = ResetStmt /\ info' = NoInfo
  /\ UNCHANGED <<made, held, reading, fetched, sent, stolen>>

----------------------------------------------------------------------------
(* drizzle_stmt_fetch.                                                     *)

R == stmt.execute_result

FetchUnexecuted ==
  /\ stmt.state \in {"NONE", "PREPARED"}
  /\ last' = "UNEXPECTED_DATA"
  /\ UNCHANGED <<heap, info, stmt, reading, connection, fetched>>

FetchWithoutResult ==
  /\ R = 0
  /\ heap' = Faulty(heap, "null_pointer")
  /\ UNCHANGED <<info, stmt, reading, connection, fetched, last>>

FetchFreedResult ==
  /\ R # 0 /\ R \notin heap.live
  /\ heap' = Faulty(heap, "freed_memory")
  /\ UNCHANGED <<info, stmt, reading, connection, fetched, last>>

GotRow ==
  /\ stmt' = [stmt EXCEPT !.state = "FETCHED"]
  /\ fetched' = fetched + 1
  /\ last' = "OK"

NoRow == last' = "ROW_END" /\ UNCHANGED <<stmt, fetched>>

AllShown == info.row_current = info.row_count

FetchBuffered ==
  /\ info.buffered
  /\ \/ /\ ~ AllShown
        /\ info' = [info EXCEPT !.row_current = @ + 1]
        /\ GotRow
     \/ AllShown /\ NoRow /\ UNCHANGED info
  /\ UNCHANGED <<heap, reading, connection>>

FetchRow ==
  /\ reading.left > 0
  /\ info' = [info EXCEPT !.row_count = @ + 1, !.row_current = @ + 1]
  /\ reading' = [reading EXCEPT !.left = @ - 1]
  /\ GotRow
  /\ UNCHANGED connection

FetchEof ==
  /\ reading.left = 0
  /\ info' = [info EXCEPT !.row_current = 0]
  /\ reading' = Nothing
  /\ NoRow
  /\ UNCHANGED connection

(* An error packet in place of a row, or a lost connection.                *)
FetchFails ==
  /\ \E code \in Answers \ {"OK"} : Lost(code)
  /\ reading' = Nothing
  /\ NoRow
  /\ UNCHANGED info

(* The connection that had the rows is gone, and no other was made yet.    *)
FetchTooLate ==
  /\ reading = Nothing /\ ~ connected
  /\ NoRow
  /\ UNCHANGED <<info, reading, connection>>

FetchUnbuffered ==
  /\ ~ info.buffered
  /\ \/ reading.result = R /\ (FetchRow \/ FetchEof \/ FetchFails)
     \/ FetchTooLate
  /\ UNCHANGED heap

drizzle_stmt_fetch ==
  /\ stmt.exists
  /\ \/ FetchUnexecuted
     \/ /\ stmt.state \in {"EXECUTED", "FETCHED"}
        /\ \/ FetchWithoutResult
           \/ FetchFreedResult
           \/ R \in heap.live /\ (FetchBuffered \/ FetchUnbuffered)
  /\ UNCHANGED <<made, held, sent, stolen>>

----------------------------------------------------------------------------
(* drizzle_stmt_buffer.                                                    *)

BufferTwice ==
  /\ stmt.state = "FETCHED"
  /\ UNCHANGED <<heap, info, stmt, reading, connection>>

BufferWithoutResult ==
  /\ stmt.state # "FETCHED" /\ R = 0
  /\ stmt' = [stmt EXCEPT !.state = "FETCHED"]
  /\ UNCHANGED <<heap, info, reading, connection>>

BufferFreedResult ==
  /\ stmt.state # "FETCHED" /\ R # 0 /\ R \notin heap.live
  /\ heap' = Faulty(heap, "freed_memory")
  /\ UNCHANGED <<info, stmt, reading, connection>>

(* Mutant of Buffered: the cursor stays behind the last row.               *)
BufferedAtEnd(n) ==
  [info EXCEPT !.buffered = TRUE, !.row_count = n, !.row_current = n]

(* drizzle_result_buffer, all rows read: the EOF packet resets row_current.*)
Buffered(n) ==
  [info EXCEPT !.buffered = TRUE, !.row_count = n, !.row_current = 0]

BufferAll ==
  /\ \/ info.columns = 0 /\ info' = [info EXCEPT !.buffered = TRUE]
     \/ reading.result = R /\ info' = Buffered(reading.left)
  /\ reading' = Nothing
  /\ UNCHANGED connection

(* It ends early, after k rows, or finds the connection gone.              *)
BufferFails ==
  /\ info.columns > 0
  /\ \/ /\ reading.result = R
        /\ \E code \in Answers \ {"OK"}, k \in 0..reading.left :
             /\ Lost(code)
             /\ info' = [info EXCEPT !.row_count = k, !.row_current = k]
     \/ /\ reading = Nothing /\ ~ connected
        /\ UNCHANGED <<info, connection>>
  /\ reading' = Nothing

drizzle_stmt_buffer ==
  /\ stmt.exists
  /\ \/ BufferTwice
     \/ BufferWithoutResult
     \/ BufferFreedResult
     \/ /\ stmt.state # "FETCHED" /\ R \in heap.live
        /\ stmt' = [stmt EXCEPT !.state = "FETCHED"]
        /\ BufferAll \/ BufferFails
        /\ UNCHANGED heap
  /\ UNCHANGED <<made, held, fetched, sent, stolen>>

----------------------------------------------------------------------------
(* drizzle_stmt_close.                                                     *)

drizzle_stmt_close ==
  /\ Quiet /\ stmt.exists
  /\ \E code \in {"OK", "LOST_CONNECTION"} : Lost(code)
  /\ LET executed == IF R = 0 THEN heap
                     ELSE drizzle_result_free(Freed(heap), R)
     IN heap' = drizzle_result_free(executed, stmt.prepare_result)
  /\ stmt' = NoStmt /\ info' = NoInfo
  /\ UNCHANGED <<made, held, reading, fetched, sent, stolen>>

(* A call may go on only while no memory has been misused.                 *)
Next ==
  /\ heap.fault = "none"
  /\ \/ FreeAll \/ FreeFirst
     \/ /\ ~ freeing /\ UNCHANGED freeing
        /\ \/ drizzle_stmt_fetch
           \/ /\ \/ drizzle_query \/ FreeHeld
                 \/ drizzle_stmt_prepare \/ drizzle_stmt_set_param
                 \/ drizzle_stmt_execute \/ drizzle_stmt_reset
                 \/ drizzle_stmt_buffer \/ drizzle_stmt_close
              /\ last' = "none"

Spec == Init /\ [][Next]_vars

----------------------------------------------------------------------------
(* result_list is exactly the results not freed yet, newest first, linked  *)
(* both ways, with result_count of them, whatever results were freed and   *)
(* in which order (drizzle_result_create, drizzle_result_free).            *)
ResultListExact == heap.fault = "none" => ExactList(heap)

(* No result is freed twice or used after it was freed, whatever calls     *)
(* succeed or fail, unless the application had drizzle_result_free_all     *)
(* take the results of its statement away (statement.cc, conn.cc).         *)
ResultsFreedOnce == heap.fault \in {"double_free", "freed_memory"} => stolen

(* The results an application holds and the two of its statement are       *)
(* allocated, and no two of them are the same: none is freed on behalf of  *)
(* another (drizzle_stmt_execute, drizzle_stmt_reset, drizzle_stmt_close). *)
OwnersApart ==
  (~ stolen /\ heap.fault = "none") =>
    /\ held \subseteq heap.live
    /\ held \cap {stmt.prepare_result, stmt.execute_result} = {}
    /\ {stmt.prepare_result, stmt.execute_result} \ {0} \subseteq heap.live
    /\ stmt.exists => stmt.prepare_result # stmt.execute_result

(* Once the rows of a statement are buffered, fetching gives all the       *)
(* server had, each once, before it says that there are no more            *)
(* (drizzle_stmt_buffer, drizzle_stmt_fetch, drizzle_row_next).            *)
BufferedFetchGivesAll == last = "ROW_END" /\ info.buffered => fetched = sent

(* Resetting or closing a statement frees the place of the fetched values  *)
(* once (drizzle_stmt_reset: back to the prepared state).                  *)
ParamsFreedOnce == heap.fault # "params_freed_twice"
===============================================================================
