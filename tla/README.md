# libdrizzle-redux in TLA+

libdrizzle-redux is a C++ client library for the MySQL protocol. This
directory models its core: the stack of handlers that every call of the API
pushes and runs, the non-blocking socket below it, the memory of the buffer,
the exchange of packets with a server, the rows and fields of a result,
prepared statements with their parameters and values, and the binlog. TLC
checks the modules on small instances; TLAPS proves, for all values of the
constants, the central invariant of the handlers and that of the session they
hold with a server, that every wait is for what the library goes on with, the
invariant of the buffer and that it implements the stream
of packets the other modules rely on, and what is checked of prepared statements
and of the binlog.

Line numbers below are those of `src/`, file names without a directory are in
its directory `src/`.

## 1. The system

A `drizzle_st` is one connection. It has no locks and belongs to one thread
(`include/libdrizzle-redux/drizzle.h`), so what happens in an unforeseen order
is not thread against thread but:

- the library against the kernel and the server: a packet arrives in pieces, a
  command is sent in pieces, a connection ends, at any moment;
- the library against its caller: any call of a non-blocking connection may
  return `DRIZZLE_RETURN_IO_WAIT` and has to be made again; an application may
  call something else instead, give up, or close;
- the library against an event loop that waits on its behalf
  (`drizzle_set_event_watch_fn`, `drizzle_set_revents`);
- one step of a call that succeeds against the next that fails.

### Inventory

| Component | State | Operations | What makes it correct |
|---|---|---|---|
| State machine (`state.cc`, `structs.h`, `packet.h`) | the stack of handlers, from a pool of 8 packets inside `drizzle_st` | `push_state`, `pop_state`, `drizzle_state_loop`, `drizzle_state_packet_read` | the stack is that of one operation, whatever was called; it never needs more than the pool; a handler finds the packet it is for |
| The buffer (`conn.cc:1315`, `command.cc`) | `buffer`, `buffer_ptr`, `buffer_size`, `buffer_allocation`, `packet_size` | `drizzle_state_read` moves and doubles it, `command_write` fills it | the next bytes found are the next bytes sent; nothing outside the allocation |
| Connection I/O (`conn.cc`) | `fd`, `events`, `revents`, the one buffer of both directions, `addrinfo_next`, `state.ready`, `packet_number` | `drizzle_connect`, handlers `addrinfo`, `connect`, `connecting`, `read`, `write`; `drizzle_close`, `drizzle_set_events`, `drizzle_set_revents`, `drizzle_command_write`, `drizzle_quit`, `drizzle_select_db` | nothing of a failed connection reaches the next one; no pending attempt loses its address; no wait is for an event that is not coming |
| Waiting (`drizzle.cc`) | `timeout`, `pfds` | `drizzle_wait`, options | a call that waits goes on when it can |
| Handshake (`handshake.cc`) | capabilities, scramble, a result of its own | `handshake_server_read`, `handshake_client_write`, `handshake_result_read` | `ready` only after the server accepted |
| Commands (`command.cc`) | `command_data`, `command_size`, `command_offset`, `command_total` | `command_write` | each piece of a command is sent once, in order, with nothing in front of it |
| Results (`result.cc`) | `drizzle_result_st`, on the list of its connection | `drizzle_result_create`, `_free`, `_free_all`, `_buffer`, handler `result_read` | freed once, never used after; the list is exact; buffered rows are the rows sent |
| Columns (`column.cc`) | `column_list`, `column_current` | `drizzle_column_read`, `_skip`, `_skip_all`, `_buffer` | the end of the columns is consumed before rows are read |
| Rows (`row.cc`) | `row_count`, `row_current`, `field_current`, `row_list` | `drizzle_row_read`, `_buffer`, `_free`, `_next`, `_prev`, `_seek`, `_index` | no row is lost, and the end is reported only at the end |
| Fields (`field.cc`) | `field_offset`, `field_size`, `field_total`, the NULL bitmap | `drizzle_field_read`, `drizzle_field_buffer`, three handlers | values byte for byte in column order, the packet used up |
| Statements (`statement.cc`, `statement_param.cc`) | `drizzle_stmt_st`: state, two results, bound parameters, fetched values | prepare, set a parameter, execute, send long data, reset, fetch, buffer, close | each result and array freed once whatever fails; all rows fetched; state and results agree |
| Queries and escaping (`query.cc`) | none | `drizzle_query`, `drizzle_escape_str` | escaped text fits its buffer and can be read back |
| Binlog (`binlog.cc`) | event, whether there are checksums, callbacks | start, the handler, what an event says | every event told once, in order, with its own length; an error told last; no result freed while in use |
| Packing (`pack.cc`, macros of `constants.h`) | none | integers, lengths, strings, times and dates, the authentication packet | what is packed is unpacked to the same, and no more of a packet is taken than it has |
| SSL (`ssl.cc`), SHA-1, errors and logging, `poll()` for Windows, Unix sockets | | | |

Calls go down: an API function pushes handlers and runs `drizzle_state_loop`;
handlers push further handlers (`read`, `write`), call `drizzle_wait` when the
connection blocks, and `drizzle_set_events`, which calls the application's
callback. Data comes up in `con->buffer` and `con->result`. A statement uses
`drizzle_command_write`, `drizzle_column_buffer`, `drizzle_row_buffer` and
`drizzle_result_buffer`, and sets `con->result` itself. `drizzle_binlog_start`
sends a query and the dump command, and then runs a handler that calls the
application once for each event.

The file `PROJECT.json` lists the hazards of this code with the line where each
bites and the properties that cover it.

## 2. The modules

```
DrizzleState      the fields, the stack, drizzle_close, drizzle_set_events
  DrizzleIO         addrinfo, connect, connecting, read, write, packet_read, drizzle_wait
    DrizzleProtocol   handshake, command, result, column, row, field handlers
      DrizzlePeer       kernel and server (external)
        DrizzleClient     drizzle_state_loop, the API, the application: Next, Spec
          DrizzleProperties  invariants, action properties, fairness
            DrizzlePackets     what is left of a reply: the invariant
              MCDrizzleClient    for TLC
              DrizzleWaiting     what is waited for: the invariant
                MCDrizzleWaiting   for TLC, with two more ways to wait
            DrizzleProofs      the stack, connecting, the handshake, for TLAPS
              DrizzlePacketProofs   packets and replies (and DrizzlePackets)
                DrizzleWaitingProofs  waiting (and DrizzleWaiting)

DrizzleStream     what a handler is promised: whole packets (abstract)
DrizzleBuffer     the memory behind it              MCDrizzleBuffer
  DrizzleBufferProofs   its invariant, and that it implements
                        DrizzleStream, for TLAPS

DrizzleRows       rows and fields of one result     MCDrizzleRows
  DrizzleRowsProofs       for TLAPS
DrizzleResults    the list of results, as operators
  DrizzleStatement  a prepared statement beside them  MCDrizzleStatement
    DrizzleStatementProofs  for TLAPS

DrizzlePack       packing and unpacking, as operators
  DrizzleReader     packets of packed values, read from a socket
  DrizzleBind       parameters, requests, and the server that reads them
  DrizzleFetch      the values made of a row
  DrizzleValues     the three as INSTANCEs      MCDrizzleValues
    DrizzleValuesProofs  for TLAPS

DrizzleBinlog     drizzle_binlog_start and its handler  MCDrizzleBinlog
  DrizzleBinlogProofs     for TLAPS
```

An indented module EXTENDS the one above it, except `DrizzleValues`, which
instantiates. `MCDrizzleWaiting` instantiates `DrizzleProperties` besides, and
`DrizzleBuffer` instantiates `DrizzleStream`.

### The connection (DrizzleState to DrizzleProperties)

One step is one invocation of a handler, or one stretch of an API function
before or after `drizzle_state_loop`, or one thing the environment does.

- `stack` is the list of handlers with the top first; `Push`, `Pop`, `Replace`
  are `push_state` and `pop_state`.
- `pc` says who runs: `app` and `again` (the application, without and with a
  call to repeat), `loop` (a handler is called), `stop` (a handler returned
  something else than OK), `leave` (the API function goes on after the loop),
  `wait` (the library's own `drizzle_wait`), `freed`.
- `sock` joins `fd` with what the kernel knows of it: `open` (no connection),
  `pending` (`EINPROGRESS`), `failed`, `connected`.
- `buf` is `buffer_ptr` with `buffer_size`, a sequence of units: the head and
  the body of a packet of the server, or a whole piece of a command. `recv()`
  gives any non-empty prefix of what arrived and `send()` takes any prefix of
  the buffer that fits, so packets are split and joined where a handler can tell.
- `command` has the number of the command, its name and how many pieces
  `command_write` still has to put in the buffer. `noreply` stands for the
  commands sent with `state.no_result_read`.
- `result` is what the handlers read of `con->result`, with `at` saying whether
  the pointer is NULL, valid or dangling.
- `packet_number` wraps at `PacketMod` (256 in the code).
- The application of `Disciplined = TRUE` repeats a call that returned
  `IO_WAIT` and finishes a reply before it sends the next command; with
  `FALSE` it calls anything at any time, `drizzle_wait` beside an event loop too.
- `watch` is what an event loop watches. It follows the callback; after an event
  it may go on watching it or, as `drizzle.h` asks, stop.
- Failures of system calls and hang-ups of the server are drawn from the
  budget `MaxFaults`, refused addresses among them, so that every handler
  meets each of its errors.

The server of `DrizzlePeer` answers as the handlers expect: a greeting, an
error, or a greeting of a version that the client refuses; OK, EOF or an error
to the authentication; OK, an error or a result set to a query. It can hang up
at any time, with or without an error packet first.

### Waiting (MCDrizzleWaiting)

An application waits in one of three ways: `again` (a non-blocking connection,
`drizzle_wait`, the call again), `loop` (a non-blocking connection in an event
loop which the callback instructs) and `block` (inside the library, over a Unix
socket, which the other runs do not have). The module EXTENDS `DrizzleWaiting`,
with the constants of `loop`, has an instance of `DrizzleProperties` for each of
the other two, and a variable `way`, chosen in `Init`, so that one run checks
all three under one fairness condition.

### The buffer (DrizzleBuffer, DrizzleStream)

In the other modules a connection is a sequence. `DrizzleBuffer` has the memory:
`con.ptr`, `con.size`, `con.allocation` are `buffer_ptr`, `buffer_size` and
`buffer_allocation` as numbers, `con.memory` what there really is, which differs
after a `realloc()` that failed. `Compacted`, `Doubled` and `Received` are the
steps of `drizzle_state_read`; `StartCommand`, `ContinueCommand` and `Write`
reuse the same memory for commands, the last two also with `buffer_ptr` in the
caller's memory (`con.caller`). Each byte from a server is its position in all
that servers ever sent, so that a byte of an old connection, or one moved to a
wrong place, is seen to be wrong. `packet_size` is read from the buffer as the
code does it: if the bytes there are not the head of the packet, any size may
be found.

`DrizzleStream` is the abstract specification, in seven short actions: whoever
asks for a packet gets all of it at once and uses it up from its start, or the
connection is lost and goes on at a later byte. The refinement mapping
(`Stream` in `DrizzleBuffer`) takes `reader` from the handler on top of the
stack, `position` from `consumed`, and `visible` from the memory itself: the
bytes from `buffer_ptr` on, as many as the handler has left. Receiving, moving
and doubling are stutters; `PacketFound` is `Deliver`.

### Rows (DrizzleRows)

One result whose columns have been read. `wire` is what the server sends and
the client has not parsed, in units: the head of a packet, a length, the NULL
marker, the bitmap, a byte of a value, EOF or an error. The rows the server
sends are chosen in `Init` from all rows with NULL, empty and longer values.
`drizzle_state_packet_read` waits until a packet is complete, so the
interleavings with I/O come down to "not there yet" (`pending`: the call
returned `IO_WAIT` and is repeated) and "lost". The application reads fields,
whole fields, whole rows or everything, mixes the first three, may begin to
buffer after it has read some rows one by one (`BufferLate`; `skipped` counts
them), and walks the buffered rows with next, prev and seek. Memory that nobody
has written is `Junk`; `RowBufferStores` makes it where `new drizzle_field_t[]`
does.

### Statements (DrizzleResults, DrizzleStatement)

A blocking connection, so that a call is one step, with results the
application owns beside the two of a statement. The heap is a record (list,
count, links, which results are allocated, the first misuse); results are never
numbered twice, so a stale pointer stays visible. Each command may be answered,
refused, or lose its connection; the statement is unknown to the server of a
later connection. `drizzle_result_free_all` is a loop, and a step here for each
result it frees (`freeing`). `ResultListExact` states the list by order instead
of by walking: since a number is never used twice and `drizzle_result_create` puts
a result in front, the list is exact when each result points to the next older
and the next newer one. A misuse of memory ends the behaviour.

### Values (DrizzlePack, DrizzleReader, DrizzleBind, DrizzleFetch, DrizzleValues)

`DrizzlePack` has the functions of `pack.cc` and the macros for integers as
operators on sequences of bytes. A byte is a number below `Base`, 256 in the
program and 18 for TLC, so that one, two, three and eight bytes of a length are
all met with small numbers. The three modules on top ask one question each; they
do not share state, and `DrizzleValues` picks one of them in `Init` (`of`); what is bound
and sent are its constants, to which `MCDrizzleValues` gives values.

- `DrizzleReader`: a server packs values into numbered packets, the bytes arrive
  in any pieces, and the client unpacks field after field.
- `DrizzleBind`: the application binds parameters by number, valid or not, sends
  long data, executes, meets failures, resets, in any order.
  `drizzle_stmt_execute` makes the bytes of its request; an external server
  reads them by the documented layout and by what it remembers (the types of an
  earlier request, long data). What it reads is compared with what was bound.
- `DrizzleFetch`: a row of columns of any types, with NULL at any place, goes
  into the same `result_params` again and again, and comes out by
  `drizzle_stmt_get_*`, by number or by name. Integers are their bits, of 2, 3, 4
  and 6 instead of 8, 16, 32 and 64, so that narrowing and sign extension are
  those of the casts in the code.

### The binlog (DrizzleBinlog)

`drizzle_binlog_start` is one action for each of its lines that calls something
(`call.at`), with the loop of handlers between them; each handler is one action
with whatever it may meet. Results are numbered and `results` are those there are;
`fault` is set by the use or freeing of one that is not there, and nothing
follows a fault. Modes are blocking or not, with a socket of the library's or
the application's own (for which no handler is pushed). A server has a version
and, whatever the version, checksums or none; it begins with ROTATE and FORMAT_DESCRIPTION, as servers do,
and may send an event whose length disagrees with its packet, a wrong checksum,
an error, the end, or nothing. `told` is what the callbacks were called with.

## 3. What is checked

All runs finish with no other bounds than those in their `.cfg`. `blocking`,
`waiting` and `any_calls` are checked for deadlock: a state in which a call of
the library can neither go on nor return. The others may stop (a row read to its
end, no more results, executions or events to make, memory misused) and say so.

| Run | Distinct states | Question |
|---|---|---|
| `blocking` | 673,786 | Do the handlers meet the packets they are for, whatever fails? `AddressInStep ReadyWhenConnected FailureResets FreshConnection HeaderAtHand PacketAtHand DoneMeansDrained CommandStream ResultLive` |
| `waiting` | 118,088 | Does every call return or complete, in each of the three ways to wait, and does nothing wait for what does not come? `WaitsForWhatItNeeds WatchCovers CallReturns CallCompletes` |
| `any_calls` | 771,904 | Is the stack well formed under any order of calls? `WellFormedStack StackInvariant` (of which `TypeOK` is a part) |
| `buffer` | 137,868 | Are the bytes found the bytes sent, inside the allocation, and does that implement the stream? `WithinAllocation BytesInOrder GrowthBounded PacketsArrive PacketStream` |
| `rows` | 1,901,656 | Do rows, fields and buffered rows arrive as sent? `FieldsAsSent PacketUsedUp EndMeansAllRows BufferedRowsAsSent ShownAsSent` |
| `statements` | 179,323 | Is everything freed once, and every row fetched? `ResultListExact ResultsFreedOnce OwnersApart BufferedFetchGivesAll` |
| `values` | 762,043 | Are values the same after packing, in a request, in a fetched row? `UnpackedAsPacked PacketAccounted ParamsArrive RequestFits FetchedAsSent TextsFit DecimalsShown` |
| `binlog` | 539,728 | Is each event told once and in order, and each command sent in its turn? `DeliveredAsSent ErrorsComeLast ResultLive OneAtATime` |

Each property has a mutant in `PROJECT.json`: an operator beside the modelled
definition, with a mistake one could make in that code, under which the property
fails. Each stands in front of the definition it changes.

### Bounds

- `blocking`, `waiting`: two addresses (`NAddr`), so that there is a next one and
  then none; two connections and two commands, so that what is left of the first
  can harm the second; two columns and two rows, so that first, middle and last
  differ; two pieces of a command, so that the remainder from the caller's
  memory occurs; `SendCap = 2`, so that a send is cut short; up to two faults, so
  that one can follow another; `PacketMod = 4`, so that the number wraps within
  one reply. `waiting` uses one command, one row and one column, because waiting
  does not depend on how many there are, and the way `block` one connection, the
  others two; in the way `again` the server's side holds one piece (`SendCap = 1`), so that
  a non-blocking write has to wait, and a read may begin while POLLOUT is still wanted.
- `any_calls` has one command and one connection: the stack depends on
  neither (that is what the proofs establish), but on every call being made at
  every point, which multiplies the states.
- `buffer`: a header of 2 bytes, packets of up to 2 more, a buffer that starts
  with 4, so that it has to grow when a packet begins in its middle; a `MaxSize`
  one doubling away, which is reached; 14 bytes in all, enough for three packets
  of the largest size and a lost connection between them. The proofs have no such
  bounds.
- `rows`: two columns (the second has a fixed size in a binary row), up to three
  rows, values of 0 and 2 bytes or NULL, lists that grow by two (`GrowSize`), so
  that they grow for the third row, and one row or two may be read before
  buffering begins. Packets are longer than a row; the run `large_row` is about
  those that are not.
- `statements`: five results in all, which is enough for prepare, execute,
  execute again and two of the application's own; two rows; one lost connection.
- `values`: lengths on both sides of every border; packets of up to three
  values; two parameters of six kinds of value and numbers 0 to 3, two executions;
  five lists of columns with up to three columns. Everything a row leaves behind
  is in `result_params`, so that rows may follow each other without a bound.
- `binlog`: two starts and five events, the two that a server begins with and three
  of any kind; servers before, of and after 5.6.1, each with and without checksums.

### Fairness

`FairSpec` of `DrizzleProperties`, and `WaySpec` of `MCDrizzleWaiting` for whichever
way was picked, has weak fairness for `LibraryNext` (a thread inside a call goes
on), weak fairness for `PeerWorks` (the kernel decides a pending `connect()`; a
server that has not failed answers), and strong fairness for the application's wait
(`AppWait`, `AppEventLoop`) and for repeating its call. The last is strong because
waiting and calling alternate, and neither stays enabled while the other happens:
the documentation of the library asks for exactly this loop ("To resume processing,
the libdrizzle function that returned DRIZZLE_RETURN_IO_WAIT should be called
again"). Nothing is assumed of failures, of closing or of starting new calls,
and no timeout has to fire.

`DrizzleBuffer` has weak fairness for the arrival of what a server has begun to
send (TCP delivers it while the connection lasts, and a loss ends the wait) and
for the steps of `drizzle_state_packet_read`, which the loop of handlers calls
again after every read. Nothing is assumed of commands, or of new packets.

### Disagreements

Four runs end in a violation on purpose: the property states what a comment or
the documentation promises, and the code does something else.

| Run | Property | What happens |
|---|---|---|
| `skipped_columns` | `EndOfRows` | `drizzle_column_skip_all` (`column.cc:341`) leaves the EOF packet of the columns; the next `drizzle_row_read` takes it for the end of the rows. |
| `large_row` | `PartsMakeProgress` | the "special case when a row is larger than the packet size" (`field.cc:330`) compares a size already limited to the packet, so a value continued in a further packet is never read on. `MaxPayload = 4` stands for 16 MB. |
| `reset_twice` | `ParamsFreedOnce` | `drizzle_stmt_reset` (`statement.cc:390`) frees `result_params` and keeps the pointer. |
| `freed_result` | `ResultDone` | `drizzle_binlog_start` (`binlog.cc:166`) frees its result on a non-blocking connection and then pushes a handler through it; the handler of the answer fills in a result that is gone. |

Other properties hold with an exception that they name. Each exception is a place
where the code does not do what one would expect:

| Property | Exception | Where |
|---|---|---|
| `WatchCovers`, `WaitsForWhatItNeeds` of an event loop | only with a `poll()` that reports `POLLOUT` together with an error. `drizzle_set_events` calls the callback only for an event not in `con->events`; after an attempt that ended with an error event alone `POLLOUT` stays there, and for the next address the callback is not called, though `drizzle.h:172` tells the event loop that it will be, and the application waits for a socket nobody watches. (`HangupAlone` makes the kernel report them alone.) | `conn.cc:143` |
| `WithinAllocation` | after a failed `realloc()` (`starved`), `buffer_allocation` is twice the memory | `conn.cc:1357` |
| `BufferedRowsAsSent`, `ShownAsSent` | rows read one by one before buffering have no entries, and if there were `GrowSize` of them or more the lists, which grow once, are too short | `result.cc:334`, `result.cc:376` |
| `ParamsArrive` | a parameter bound anew with another type: `new_bind` is not set again; and one bound to NULL with long data | `statement.cc:311` |
| `RequestFits` | a time longer than "8 byte header"; and the values, by an assumption, have no string of 16 MB or more, whose length takes nine bytes and which no packet can hold | `statement.cc:136` |
| `FetchedAsSent` | `drizzle_stmt_get_int` cuts values of more than 32 bits without `TRUNCATED`; the text of a negative TINY or SHORT is that of a large number | `statement_param.cc:388`, `statement_param.cc:272` |
| `TextsFit` | a negative time of a hundred hours or more with microseconds | `statement_param.cc:643` |
| `DecimalsShown` | after a NULL, the decimals are those of another column | `statement.cc:492` |
| `DeliveredAsSent` | the first event is taken for the answer to the command | `binlog.cc:159` |
| `DeliveredAsSent` (`IsShort` in `AsSent`) | an event of 27 bytes or less (STOP, XID without a checksum) comes with length 0 and data NULL, while `binlog.h:131` promises "the length of the event data" and `tests/unit/binlog.c:160` and `:181` expect a length and data of every event | `binlog.cc:355` |
| `DeliveredAsSent` (`ChecksumsGuessed`) | whether a server has checksums is guessed from its version, and `<= 0` takes it to have them up to 5.6.1, not from 5.6.1 on, as the comments at `binlog.cc:380` and `constants.h:95` and `docs/api/constants.rst:183` ("From this version and higher automatic checksums is on") say. A newer server that has them is not verified, in spite of `verify_checksums`, and its checksums are given as the last four bytes of the data; a server of 5.6.1x or before it that has none, as `SET @master_binlog_checksum='NONE'` asks for, loses four bytes of data, or is refused with `BINLOG_CRC`. Of both, only number, order, type, raw length and the presence of data are claimed. | `binlog.cc:383`, `binlog.cc:109` |
| `ErrorsComeLast` | says nothing of a lost connection, of which `error_fn` is not told | `binlog.cc:184` |
| `ResultLive`, `OneAtATime` of the binlog | a non-blocking connection, which uses a result that is gone and may ask for the binlog before its query was answered | `binlog.cc:112` |

`statements` also reaches `drizzle_stmt_fetch` with a NULL `execute_result` (after an
execute that failed, or `drizzle_stmt_buffer` on a statement never executed), and
`ROW_END` from a fetch that failed (`statement.cc:425`). No document says what should
happen; the first ends the behaviour, the second is left as it is.

## 4. What is proved

Eight modules hold proofs. `DrizzleProofs` proves, for every value of the constants
that meets the named assumptions, any number of addresses, columns, rows, pieces
of a command, faults, connections and commands, and an application that calls
anything at any time:

| Theorem | Statement |
|---|---|
| `StackIsInvariant` | `Spec => []StackInvariant` |
| `TypeCorrect` | `Spec => []TypeOK` |
| `StackIsWellFormed` | `Spec => []WellFormedStack` |
| `StackAlwaysFits` | `Spec => []StackFits` |
| `AddressAlwaysInStep` | `Spec => []AddressInStep` |

It goes on with the session, for a callback that does not refuse the mask of a TCP
connection (`CallbackAccepts`):

| Theorem | Statement |
|---|---|
| `SessionIsInvariant` | `CallbackAccepts` gives `Spec => []SessionInvariant` |
| `AlwaysReadyWhenConnected` | `Spec => []ReadyWhenConnected` |
| `FailuresAlwaysReset` | `Spec => []FailureResets` |
| `ConnectionsStartFresh` | `Spec => FreshConnection` |

`DrizzlePacketProofs` builds on that, for an orderly use of the connection
(`OrderlyUse`):

| Theorem | Statement |
|---|---|
| `PacketIsInvariant` | `OrderlyUse` gives `Spec => []PacketInvariant` |
| `HeadersAlwaysAtHand` | `Spec => []HeaderAtHand` |
| `PacketsAlwaysAtHand` | `Spec => []PacketAtHand` |
| `RepliesAlwaysDrained` | `Spec => []DoneMeansDrained` |
| `RowsEndAtTheirEnd` | `Spec => []EndOfRows` |
| `ResultsLiveInUse` | with `SelectsAtOnce`, `Spec => []ResultLive` |
| `CommandsSentInOrder` | `Spec => []CommandStream` |

`DrizzleWaitingProofs` needs all of these, and an event loop that is told of a hang-up as
`poll()` of Linux tells it (`HangupsTold`):

| Theorem | Statement |
|---|---|
| `WaitIsInvariant` | `OrderlyUse` and `HangupsTold` give `Spec => []WaitInvariant` |
| `WaitsAreForNeeds` | `Spec => []WaitsForWhatItNeeds` |
| `LoopsWatchAll` | `Spec => []WatchCovers` |

`DrizzleBufferProofs` proves, for every size of header, packet, command, buffer and
stream:

| Theorem | Statement |
|---|---|
| `BufferIsInvariant` | `Spec => []BufferInvariant` |
| `BufferTypeCorrect` | `Spec => []BufferTypeOK` |
| `BufferStaysWithin` | `Spec => []WithinAllocation` |
| `BytesStayInOrder` | `Spec => []BytesInOrder` |
| `GrowthStaysBounded` | `Spec => []GrowthBounded` |
| `BufferImplementsStream` | `Spec => PacketStream` |

`DrizzleRowsProofs` proves, for any number of columns and rows, any sizes of values and
both formats, if no row is as long as a packet (`RowsFit`):

| Theorem | Statement |
|---|---|
| `RowsIsInvariant` | `RowsFit` gives `Spec => []RowsInvariant` |
| `GivenAsSent` | `Spec => []FieldsAsSent` |
| `RowsUseUpPackets` | `Spec => []PacketUsedUp` |
| `EndIsTheEnd` | `Spec => []EndMeansAllRows` |
| `BufferedAsSent` | `Spec => []BufferedRowsAsSent` |
| `ShownWithItsSizes` | `Spec => []ShownAsSent` |
| `FieldsComeWhole` | `Spec => []PartsMakeProgress` |

`DrizzleStatementProofs` and `DrizzleBinlogProofs` prove, for any number of results, rows,
lost connections, events and calls, and any modes, servers and events within the
assumptions:

| Theorem | Statement |
|---|---|
| `StatementIsInvariant`, `StatementTypeCorrect` | `[]StatementInvariant`, `[]StatementTypeOK` |
| `ResultListAlwaysExact` | `Spec => []ResultListExact` |
| `FreedOnce` | `Spec => []ResultsFreedOnce` |
| `OwnersAlwaysApart` | `Spec => []OwnersApart` |
| `BufferedFetchComplete` | `Spec => []BufferedFetchGivesAll` |
| `BinlogIsInvariant`, `BinlogTypeCorrect` | `[]BinlogInvariant`, `[]BinlogTypeOK` |
| `EventsDeliveredAsSent` | `Spec => []DeliveredAsSent` |
| `ErrorsAlwaysLast` | `Spec => []ErrorsComeLast` |
| `ResultAlwaysLive` | `Spec => []ResultLive` |
| `AlwaysOneAtATime` | `Spec => []OneAtATime` |

`DrizzleValuesProofs` proves, for any width of a byte, any number of parameters, any lists of
columns and any values that meet the assumptions below:

| Theorem | Statement |
|---|---|
| `RequestsAreInvariant` | `Spec => []RequestsInvariant` |
| `RequestsAlwaysFit` | `Spec => []RequestFits` |
| `RowsAreInvariant` | `Spec => []RowInvariant` |
| `RowsHoldWhatWasSent` | `Spec => []FetchedAsSent` |
| `TextsOfTimesFit` | `Spec => []TextsFit` |
| `DecimalsOfTheColumn` | `Spec => []DecimalsShown` |

`TypeOK` is a part of `StackInvariant`, which TLC checks; `StackFits` and `BufferTypeOK` are
proved only.

### The stack

The assumptions are the ASSUMEs of the modules: `ConfigAssumption`,
`IOAssumption`, `ProtocolAssumption`, `PeerAssumption`, `ClientAssumption`.
They give the constants their types, and ask for at least one address, room for
one unit in the kernel and a packet number that can count.

**Why the invariant is what it is.** `WellFormedStack` says that the stack is one
of a finite list of shapes (`StackStates`). It is not inductive by itself. A
handler pops itself and goes on; that the result is a shape of the list depends
on what the handler relies on without a test, and `StackInvariant` adds that:

- `LoopOutcome`: `drizzle_state_loop` returns OK only with an empty stack, so the
  caller that pushes next starts from nothing; and the one odd shape, which
  `ECONNREFUSED` from `recv()` leaves (`RefusedStates`), is closed at once,
  because its code is not one that keeps the connection.
- `ParserHasPacket`: a parser (`column_read`, `row_read`, ...) is on top only
  while the loop runs and its packet is in the buffer. Otherwise its test
  "do I have to read" would push `read` where no shape has it, or a call would
  return `IO_WAIT` with a parser on top.
- `AddressKept`: an address is left over only until a socket is connected. That
  is why `ECONNREFUSED` from `recv()` finds `addrinfo_next = NULL` and cannot
  restart the connection below a handler of a command.
- `CommandLeft`: a command has no more pieces left than it has, so
  `command_write` ends.
- `TypeOK`, for the elements of `buf` and `s2c` above all: the case distinctions
  of the parsers are over their types.

**How it is laid out.** First, lemmas about sequences (`Extend`, `SameEnds`,
`Extensions`) and about shapes (`Shapes`: what every shape has for head and
tail). Then what handlers have in common: `Close` (everything is undone),
`Waits` (`drizzle_set_events`, `IO_WAIT`, polling), `Conclude`. Then one lemma per action
of `Next`, named after it (`ReadStep`, `CommandWriteStep`, ...), with one case
for each disjunct. `InitInvariant` and `NextInvariant` join them, and the theorems
follow by temporal logic. `StackFits` and `AddressInStep` are consequences: every
shape is at most four long, and `AddressKept` decides the rest.

### The session

**Why the hypothesis.** `drizzle_state_connect` ignores what `drizzle_set_events`
returns (`conn.cc:1161`). If the callback refuses, the connection has been closed and
the stack emptied, and `drizzle_state_connecting` is pushed alone: nothing makes the
handshake when it is done, and `drizzle_connect` returns OK all the same. So the
theorems are false without `CallbackAccepts`, which a connection without a callback,
one over a Unix socket, or a callback that returns OK satisfies.

**Why the invariant is what it is.** `ReadyWhenConnected`, `FailureResets` and
`FreshConnection` each say something of one moment. That it holds there depends on
what was true all the way to it, and `SessionInvariant`, with `StackInvariant`, says
what that is:

- `CleanApart`: while the socket is not connected nothing of a connection is in
  `drizzle_st`, the server is not there and no handler of the handshake is on the
  stack; the same when the connection is about to be made. The exception is
  `Closing`, between the error and the `drizzle_close` at the end of the loop: an
  `ECONNREFUSED` from `recv()` puts `connect` on a stack that still has a command.
- `PendingAwaited`: a `connect()` in progress has its handler on top, and the kernel
  has not reported anything. Were an old report left in `revents`,
  `drizzle_state_connecting` would go on before the socket is connected.
- `StackTellsReady`: handlers of connecting and of the handshake run on a connection
  that is not ready, a command on one that is, and a connected socket that is not
  ready has them on the stack. The last part is why a call that returns with the
  handshake half done does not leave a connection that only looks free.
- `CodesMean`: what a code says at each place on its way from the handler to the
  application: OK is for a ready connection, `IO_WAIT` for a stack that is not
  empty, and any other that is not the server's own error for a closed connection.
- `RepliesFollow`: before the server has accepted the client neither it nor the
  buffer holds a packet of a reply, so that no handler of the handshake takes one for
  an OK.
- `GreetingFirst`: a greeting can only be the first packet of a connection, so the
  handler of the answer to the login never finds one, which it would take for an OK.

The first attempt at `CleanApart` held in every run and was not inductive: it allowed
a handler of the handshake over a socket that had failed, and said of a handler
about to connect that nothing is left even after `ECONNREFUSED`. TLC then checked the
strengthened one over the configurations of `blocking` and `waiting` and over an
undisciplined application, before the proof.

**How it is laid out.** Lemmas about the kinds of packets in a sequence (`ConcatKinds`,
`CutKinds`), then what steps have in common: `CloseStep`, `HandlerMoves` for the four
parts about `drizzle_st`, `NothingSaid` and `ReplyConsumed` for the two about
packets, `AttemptMoves` for connecting. Then one lemma per action. `GreetedOnConnect`
says that only `connect` and the kernel make the server greet, which turns
`FreshConnection` into a fact about two actions.

### Packets and replies

**Why the hypotheses.** `OrderlyUse` is what the configuration of `blocking` says, and each
part is needed:

- `Disciplined`: the application finishes a call, and reads a reply to its end, before
  it starts the next. The code relies on it: `drizzle_state_command_write` puts the command
  behind whatever is left in the buffer, and both are sent (`command.cc:78`).
- No `drizzle_column_skip`: the rows behind skipped columns may be lost, which is the
  finding of `skipped_columns`. `RowsEndAtTheirEnd` is the property violated there; the
  proof shows that nothing but skipping is needed to save it.
- `~ ServerGoodbye`: a packet that no command asked for is not part of a reply.
- `CallbackAccepts`, as for the session.

`ResultsLiveInUse` has one more, `SelectsAtOnce`: `drizzle_select_db` is called on blocking
connections only. It frees the result of its command whatever the command returned
(`conn.cc:775`), IO_WAIT included, and the handlers that are left on the stack fill in
`con->result`, which still points to it. `blocking`, whose calls include `init_db`,
satisfies the hypothesis.

Nothing is assumed of faults, of hangups, of how the bytes are cut into reads and writes, of
timeouts, or of the number of connections, commands, columns and rows.

**Why the invariant is what it is.** What `HeaderAtHand` and `PacketAtHand` say of the first
unit in the buffer is true because of all units behind it and all calls before it.
`PacketInvariant` says of `buf \o s2c` as a whole what it is:

- `Framed`: heads and bodies alternate, all answer one command, and the packets are
  numbered on from `packet_number`, modulo its size.
- `ReplyInOrder`: which rest of a reply that is, for each shape of the stack: the
  whole reply, columns (`ColumnsLeft`), rows (`RowsLeft`), or one packet. `After` says the
  same for each operation that has emptied the stack, and `Between` for the
  application, by the stage of the reply it has reached.
- `Requests`: the server is sent the last piece of a command only when the library has
  nothing left to parse, and answers only when it waits for the answer. Without it a reply
  could start behind another one.
- `HandshakeInOrder`: the same for the greeting, the login and its result.
- `CallsMatch`: the operation, the stage, the stack and the result belong together: that
  `stage` is `columns` only if there are some, that the row the application is
  given is buffered, that nothing is on the stack of a ready connection when
  `drizzle_connect` runs.

TLC checked all four over the configuration of `blocking`, over Unix sockets, and over
non-blocking connections before they were proved. One conjunct held in every run and
was not inductive: that `field_read` runs only for a call that asks for fields had to
say, too, that the loop runs and that the connection is ready.

`ResultLive` and `CommandStream` take one more invariant each, checked on the same
configurations, which `PacketInvariant` does not depend on:

- `ResultHeld`: from the call that makes a result until that call returns for good, the
  result is there, unless the command has none. The invariants above say which call a handler
  with a reply in front of it belongs to; this one says that it was not freed between
  two attempts at that call.
- `PiecesInOrder`: `Written`, what the server has still to take followed by what waits in the
  buffer to be sent, is in order as a whole and ends right in front of the next piece of
  the command at hand. `CommandStream` sees `c2s` only, where a partial write may
  leave any part of it. It is claimed only while the server takes commands, since one
  that has hung up loses pieces.

**How it is laid out.** The first part is about data only: what is left of a `Framed` sequence when a head (`HeadFramed`) or a body (`BodyFramed`) is consumed, for each
kind of rest; that what the server of the model says is such a reply; what a partial read
and a partial write make of the two sequences. The second has what steps share
(`Stays`: nothing said or consumed; `ReaderNext`, `WriterNext`, `ParserNext`: a handler
pops itself), one lemma per action of `Next`, `PacketNext`, and the theorems. The two
further invariants follow the same way: `ResultNext` from what a handler `Keeps` of the call,
`PiecesNext` from `PiecesMove`, for the steps that write nothing, and `CopiedFollows`,
`FrontFollows` and `TailFollows`, for copying, sending and taking pieces.

### Waiting

**Why the hypotheses.** `OrderlyUse`, as for packets: an application that starts a call in
the middle of another waits for an event of the first. `HangupsTold` says that an event loop
is not told of a hang-up without `POLLOUT`. Where it is, both properties are
false, which TLC shows on two addresses: `drizzle_set_revents` takes away from `events`
what was reported, `POLLOUT` stays behind with the socket that failed, and for the next
one `drizzle_set_events` finds nothing to tell (`conn.cc:143`). Without a callback nothing
is assumed of hang-ups; nothing is assumed of timeouts and failures, nor of a callback
over a Unix socket, which may refuse.

**Why the invariant is what it is.** A handler that gives up asks for its event in the same
step; the hard part is that the event is still asked for, or has been reported, when
the application makes its call again, after it has polled any number of times and the
connection has come and gone. `drizzle_set_revents` overwrites the last report and takes
it out of `events`, so a second poll may lose what the first has found.

- `EventsPolled`: only `drizzle_state_read` wants `POLLIN`, and never one that was reported.
- `Awaits`: a handler that gives up wants what it needs.
- `FailedApart`: a socket that never was connected is given up, by `connect` or
  `drizzle_close`, before anybody reads from it, writes to it or waits for it.
- `Uncrossed`: the server takes all of a command before it answers it. So whenever there is
  something to read there is room to write, and a poll for both that has found the one
  finds the other again. It rests on `Requests` of `PacketInvariant`.
- `LoopTold`: the mask of the event loop covers `events`, and `events` is empty when a connection
  is begun; in between, `POLLIN` may be left in the mask of the loop, which has already reported
  it, until `POLLOUT` is asked for.
- `AgainCovered`: between two calls, what the handler on top needs is either wanted still, or
  reported; and if reported, whatever may be reported over it includes it.

Before it was proved, TLC checked `WaitInvariant` on non-blocking connections (in an event
loop, without a callback, and over Unix sockets with a callback that refuses) and on blocking ones,
each with two faults and two commands. (The blocking connection of `waiting` has a server that
says goodbye, which `OrderlyUse` excludes; the properties hold there too.) Two conjuncts of earlier attempts held in every run and were
not inductive: that `events` is empty when `connect` is on top had to leave out the
`connect` that `ECONNREFUSED` puts on the stack and the end of the loop closes, and
`AgainCovered` has to say that there is a handler on top at all.

**How it is laid out.** Three groups of parts, each preserved by itself given the invariants
before it: `Crossing` (the socket and what is in flight), `Masks` (`events`, `revents` and the
loop's mask), `Awaiting` (what is needed). Each starts with what `drizzle_close` and a
wait do to it and has one lemma for each kind of step that can disturb it.

### The buffer

The only assumption is `BufferAssumption`: the sizes are natural numbers, and the first
buffer is larger than a header.

**Why the invariant is what it is.** `BytesInOrder` is about `con.buffer`, so its
preservation needs that every index used is one of the memory (`WithinAllocation`)
and that the pointers are numbers (`BufferTypeOK`). Two parts are added:

- `Phases`: `buffer_ptr` points into the caller's memory only in the handler
  `write`; when a command is written everything received was used, because
  `drizzle_state_command_write` overwrites the buffer without looking; and
  `drizzle_state_read` is entered only with less than a packet, which
  `drizzle_state_packet_read` sees to.
- `AllocationBounded`: the allocation is the first one, or less than four times
  the largest packet. It follows from the last part of `Phases`: the buffer
  doubles only when it is full of less than one packet that does not start in
  its second half. So "buffer too small" is never said with the sizes of the
  library (`GrowthBounded`).

**How it is laid out.** Lemmas about the operators first, on any buffer that is
`Sound` (within its bounds, holding the stream from some position): moving,
compacting, doubling, receiving, using, closing (`MovedSound` to `NotDoubledSound`).
Then one lemma per action. The refinement maps each action to a step of
`DrizzleStream` or a stutter; the step that carries the weight is
`DeliverImplements`, where `BytesInOrder` says that what lies at `buffer_ptr` is
what the abstract step shows.

### Rows

`RowsAssumption` types the constants; `PointersAssumption` says that NULL, an index and
memory nobody has written are told apart.

**Why the hypothesis.** `RowsFit` says that the payload of a row is shorter than the longest
packet. It is what `drizzle_state_field_read` takes for granted: the request for a row's
second packet is behind a test that is never true. The run `large_row` drops it, and
finds `PartsMakeProgress` violated; `FieldsComeWhole` is that property with the hypothesis.
A bitmap and, for each column, a length and the longest value, together shorter
than a packet, are enough for it, which TLC evaluates with the constants of `rows`
(`RowsFitAssumption` in `MCDrizzleRows`; 7 units there, and a packet holds 100).

**Why the invariant is what it is.** The properties compare what the application has with
what the server chose in `Init`; in between there are a stream consumed from the front, two
counts of columns that differ in a binary row, and memory filled place by place.

- `WireInStep`: at the boundary of a row the stream is `RestOf(row_count)`, all that the
  server sends after that row. Inside it is what is left of the row behind the column
  read last (`Rest`), followed by that, and `packet_size` is the length of the former.
  `NO_MORE_ROWS` is claimed only with `row_count = Len(rows)` and an EOF.
- `Counted`: `field_current` counts the values up to that column (`Upto`). In a text row the
  two are the same; in a binary row `field_current_read` skips NULLs and `field_current` does
  not count them.
- `BitmapKept`, `AtHand`: once the first field was read the bitmap is that of the row, and
  the field just read is the whole value of its column.
- `GivenInOrder`, `RowInPlace`: the fields the application has, or those in place in
  the row being buffered, are the first `Done` values of the row; the places behind them
  have not been written.
- `ListsInOrder`: between any two steps of `drizzle_result_buffer`, and across an `IO_WAIT`,
  the lists hold every row before the one at hand. The list of bitmaps is as long as that
  of the rows, which is what growing it in step with them is for.
- `CallsInOrder`: which call gets where, and in which of them the application is
  inside of a row.

Before it was proved, TLC checked `RowsInvariant` with the constants of `rows` and with three
columns, two of a fixed size. The order in which a row's values are delivered is written
as the inverse of a count (`Delivered`, `Upto`), because that can be reasoned about without
an induction over the columns.

**How it is laid out.** Sequences first: `FlattenSeq` of a sequence of sequences is its
first one followed by the rest (`FlattenFirst`). `FlattenSeq` is a recursive function; the
theorems of the library that have an operator for the induction hypothesis cannot be used,
so induction is by sets: a subset of `Nat` that has 0 and each successor is `Nat` (`Numbers`,
from the well-foundedness of `<`). Then the stream: a row is one head and its payload
(`FitsOne`), and what is behind a column is the value of the next stored column and what is
behind that one (`RestNext`). Then one lemma per action, and the properties.

### Statements

The assumptions are `ResultsAssumption` and `StatementAssumption`: the limits are
natural numbers.

**Why the invariant is what it is.** The four properties are kept together with

- `NumbersNew`: no pointer and no allocated result has a number still to be given.
  So a new result is the newest of all, the list stays in order, and the neighbours
  of a result are found by comparing numbers. Without an order one would need
  induction along the list to say that it is linked.
- `StatementKept`: a statement that exists has the result of its preparation, and
  while `drizzle_result_free_all` runs the application holds none of its own; if there
  is a statement then, its results are `stolen`, the exception that the properties name.
- `RowsCounted`: rows fetched, rows buffered and rows still on the connection add up
  to those sent, whichever way the statement reads them.

**How it is laid out.** What `drizzle_result_create` and `drizzle_result_free` do to each
field of the heap (`CreateFields`, `FreeFields`), that they keep the list exact
(`CreateExact`, `FreeExact`), then one lemma per action; the failures of
`drizzle_stmt_execute` have a lemma of their own (`ExecuteHeapFields`).

### The binlog

`BinlogAssumption` types the constants. `FormatAssumption` says that the data of a format
description is at least 50 bytes, the version string being that long. Nothing is assumed
of which servers have checksums: where the code's guess is wrong (`~ChecksumsGuessed`),
`EventsDeliveredAsSent`, and `AsSent` in the invariant, say less, as the table of
exceptions in section 3 lists. What the other theorems state does not depend on it.

**Why the invariant is what it is.** Each handler replaces or pops itself
(`OneHandler`), so the stack is one handler. Which call of `drizzle_binlog_start` it
belongs to, and with which result, differs between blocking and non-blocking:
`BlockingLines` says for each line what holds when it is reached, and
`NonBlockingLines` why there no event is ever delivered without a fault before it.
`ResultsCounted` bounds the results by the calls made, so that there is always a number
for another one. `Answered` alternates commands and answers, `ChecksumsKnown` ties what
the code believes of checksums to the version of the server, `FirstEvent` follows the first two
events, and `History` relates `told` to `sent`, position by position.

**How it is laid out.** One lemma per handler, then one per line of
`drizzle_binlog_start`, with `CommandStarts` for what the two commands share.
`DeliveredAsSent` and `ErrorsComeLast` follow from `History` by splitting `told` in
front of its last element (`ToldSplits`); that no good event is refused is an
invariant of its own (`OnlyFaultyRefused`), which only the reading of a binlog can
disturb (`OthersKeepHistory`, `ReadRefusesFaulty`).

### Values

**What is assumed.** `RequestsAssumption`: a string that is bound is made of bytes and shorter
than `Base^3`, the 16 MB of a packet. `ColumnsAssumption`: there are four types of
integers, and no column before an integer has its name (by a name the first column
is found). `RowValuesAssumption`: a value of an integer type is a
natural number, and each time and date that a server sends is unpacked as it was packed
when its length is taken off. The last is about values, not about behaviours: it is what
`UnpackedAsPacked` checks for packets, and TLC evaluates it for every value of `values`.

**Why the invariants are what they are.** `RequestsInvariant` says of a parameter only what
the API leaves of it: once bound it has one of the types that can be bound, and
a string within the assumption. That is enough, because `drizzle_stmt_execute` adds up its sum
anew each time: `WrittenFits` compares one parameter's share of the sum with its bytes, by
type, and `DataFits` all of them. `RowInvariant` says what `FetchedAsSent` does without the
functions that get a value: each parameter has the value that was sent for its column,
unpacked with the decimals of whatever column is at its place. Its other part is for the rows
to come: a NULL leaves `is_unsigned` as it was for the row before, and the next
value can only add to it, so it must never have been set for a column that is not unsigned.
TLC checked both invariants with the constants of `values`.

**How it is laid out.** Lengths first: `FlattenSeq` and `ParamLengths` are recursive
functions, unfolded one value at a time (`Flattened`, `LengthsSummed`) with induction by sets,
as for the rows (`CountingUp`). Then places: `Position` counts the columns before one that
are not NULL, so it grows from one such column to the next, no two of them share a place, and
the `CHOOSE` by which a row is made of values can be undone (`Places`). One turn of the loop of
`drizzle_stmt_fetch` (`ParamFetched`), then all of them (`RowFetched`), then the functions that
get values, by type. `PlaceOfColumn`, that without a NULL before it a value is where its column
is, is why `DecimalsShown` needs its exception and no more than that.

**What stays with TLC.** `CallReturns`, `CallCompletes` and `PacketsArrive`, which are
liveness under fairness (`PacketStream` has none and is proved whole), and three properties
of the values, `UnpackedAsPacked`, `PacketAccounted` and `ParamsArrive`. These say that what was
packed is unpacked again: remainders and quotients by powers of a base that is a parameter,
which the solver cannot do (it knows no powers). TLC goes through values on both sides of every
border between widths.

## 5. What is not modelled

- `state.raw_packet`, `COM_CHANGE_USER`, which nothing in the library sends.
- SSL (`ssl.cc` and its parts of `conn.cc`): a build without `ssl_context`. Its
  codes for "want to read" and "want to write" would be further reasons to wait.
- Escaping (`query.cc`): one loop over characters that keeps no state.
- `drizzle_binlog_get_filename`, a query of its own, and the names of event types.
- The fields of the greeting, of columns and of the OK packet, apart from those
  that decide what is read next; the login packet (`drizzle_pack_auth`), password
  hashes; texts of errors; logging; getters and setters.
- The text of a floating-point number.
- Replies to commands sent with `no_result_read`: the code awaits none and the
  server of the model sends none.
- Failing allocations, apart from those whose return code the loop passes on
  (`MEMORY` in `drizzle_state_read`) and `realloc()` of the buffer.
- `EINTR` from `recv`, `send` and `poll`, which is retried with nothing changed.
- A callback that refuses an event while `connect()` is pending (`conn.cc:1161`
  ignores what it returns) is modelled in `any_calls` only; there it can make
  `drizzle_connect` return OK with no handshake done. No document says what a
  callback may return.
- The other components do not run beside each other: `DrizzleRows`, `DrizzleBind`,
  `DrizzleFetch` and `DrizzleBinlog` take whole packets from a connection, which is what
  `DrizzleStream` promises; and a statement's ownership (`DrizzleStatement`) and its
  values are separate, since no value decides what is freed.

## 6. What could follow

In this order:

1. **An abstract session** (disconnected, connecting, ready, busy with one
   command) which `DrizzleClient` implements.
2. **SSL** as alternatives of reading and writing; escaping against its inverse.

## 7. Running it

`tlc -config blocking.cfg MCDrizzleClient.tla`, and likewise

| Module | Configurations |
|---|---|
| `MCDrizzleClient` | `blocking.cfg`, `any_calls.cfg`, `skipped_columns.cfg` |
| `MCDrizzleWaiting` | `waiting.cfg` |
| `MCDrizzleBuffer` | `buffer.cfg` |
| `MCDrizzleRows` | `rows.cfg`, `large_row.cfg` |
| `MCDrizzleStatement` | `statements.cfg`, `reset_twice.cfg` |
| `MCDrizzleValues` | `values.cfg` |
| `MCDrizzleBinlog` | `binlog.cfg`, `freed_result.cfg` |

`waiting` and `values` take about a minute and a half, the others less than one.
`tlapm` with `DrizzleProofs.tla`, `DrizzlePacketProofs.tla`, `DrizzleWaitingProofs.tla`,
`DrizzleBufferProofs.tla`, `DrizzleRowsProofs.tla`, `DrizzleStatementProofs.tla`,
`DrizzleValuesProofs.tla` and `DrizzleBinlogProofs.tla` checks the proofs.
