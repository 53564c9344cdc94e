----------------------------- MODULE DrizzlePeer -----------------------------
(***************************************************************************)
(* The other side of the socket, which is not in the repository: the       *)
(* kernel's asynchronous connect, and a MySQL server that follows the      *)
(* protocol as the handlers of the library expect it: one greeting, one    *)
(* answer to the authentication, one reply to each command, the packets of *)
(* an exchange numbered from 0.  Apart from what it may answer, a server   *)
(* can fail: hang up, or (ServerGoodbye) say why before it does.           *)
(***************************************************************************)
EXTENDS DrizzleProtocol

CONSTANT ServerGoodbye
ASSUME PeerAssumption == ServerGoodbye \in BOOLEAN

Library == UNCHANGED <<stack, conVars, pollVars, addrinfo_next, dataVars,
                       cmdVars, pc, rc, callVars, appVars, connects>>

(* The units of packets of these kinds, numbered from seq on.              *)
Stream(kinds, seq, k, columns) ==
  [j \in 1..(2 * Len(kinds)) |->
     LET p == (j + 1) \div 2
     IN  Unit(IF j % 2 = 1 THEN "head" ELSE "body", kinds[p],
              (seq + p - 1) % PacketMod, k,
              IF kinds[p] = "count" THEN columns ELSE 0)]

(* A result set: column count, columns, EOF, rows, and EOF or an error.    *)
ResultSet(columns, rows, last) ==
  [p \in 1..(columns + rows + 3) |->
     CASE p = 1 -> "count"
       [] p \in 2..(columns + 1) -> "column"
       [] p = columns + 2 -> "eof"
       [] p \in (columns + 3)..(columns + rows + 2) -> "row"
       [] OTHER -> last]

----------------------------------------------------------------------------
KernelConnects ==
  /\ sock = "pending"
  /\ \/ sock' = "connected" /\ server' = "greet" /\ NoFault
     \/ sock' = "failed" /\ UNCHANGED server /\ Fault
  /\ UNCHANGED <<watch, s2c, c2s>> /\ Library

Say(kinds, seq, k, columns) == s2c' = s2c \o Stream(kinds, seq, k, columns)

ServerGreets ==
  /\ server = "greet"
  /\ \/ Say(<<"greeting">>, 0, 0, 0) /\ server' = "auth" /\ NoFault
     \/ \E kind \in {"err", "refusal"} :
          Say(<<kind>>, 0, 0, 0) /\ server' = "refused" /\ Fault
  /\ UNCHANGED <<sock, watch, c2s>> /\ Library

ServerAuthenticates ==
  /\ server = "auth" /\ c2s # <<>>
  /\ c2s' = Tail(c2s)
  /\ IF Head(c2s).kind = "auth"
     THEN LET seq == (Head(c2s).seq + 1) % PacketMod
          IN  \/ Say(<<"ok">>, seq, 0, 0) /\ server' = "idle" /\ NoFault
              \/ \E kind \in {"err", "eof"} :
                   Say(<<kind>>, seq, 0, 0) /\ server' = "refused" /\ Fault
     ELSE server' = "refused" /\ UNCHANGED s2c /\ NoFault
  /\ UNCHANGED <<sock, watch>> /\ Library

(* The server takes a command piece by piece and answers the last piece.   *)
(* What no client sends makes it hang up.                                  *)
ServerAnswers ==
  /\ server = "idle" /\ c2s # <<>>
  /\ c2s' = Tail(c2s)
  /\ LET u == Head(c2s)
     IN  CASE u.kind \notin Commands \/ u.kind = "quit" ->
                server' = "closed" /\ UNCHANGED s2c
           [] u.kind = "noreply" \/ (u.kind \in Commands /\ u.n < Chunks(u.kind)) ->
                UNCHANGED <<server, s2c>>
           [] OTHER ->
                /\ UNCHANGED server
                /\ \/ \E kind \in {"ok", "err"} : Say(<<kind>>, 1, u.k, 0)
                   \/ /\ u.kind = "query"
                      /\ \E c \in 1..MaxColumns, r \in 0..MaxRows, last \in {"eof", "err"} :
                           Say(ResultSet(c, r, last), 1, u.k, c)
  /\ UNCHANGED <<sock, watch>> /\ NoFault /\ Library

ServerFails ==
  /\ server \in {"greet", "auth", "idle"}
  /\ server' = (IF server = "idle" THEN "closed" ELSE "refused") /\ Fault
  /\ \/ UNCHANGED s2c
     \/ ServerGoodbye /\ Say(<<"err">>, 0, 0, 0)
  /\ UNCHANGED <<sock, watch, c2s>> /\ Library

PeerNext == \/ KernelConnects \/ ServerGreets \/ ServerAuthenticates
            \/ ServerAnswers \/ ServerFails
=============================================================================
