------------------------- MODULE DrizzleStatementProofs -------------------------
(***************************************************************************)
(* Proofs about the results of a connection and the prepared statement     *)
(* that owns some of them, for any number of results, rows and losses of   *)
(* the connection.                                                         *)
(*                                                                         *)
(* A result has a number that no earlier one had.  This is what makes the  *)
(* list say more than that it is linked: it is in the order of the numbers,*)
(* so that the neighbours of a result are found without walking.           *)
(***************************************************************************)
EXTENDS DrizzleStatement, FiniteSetTheorems, TLAPS

Faults == {"none", "double_free", "freed_memory", "null_pointer", "params_freed_twice"}
Pointers == 0..MaxResults
Heaps == [result_list : Pointers, result_count : Int, next : [Results -> Pointers],
          prev : [Results -> Pointers], live : SUBSET Results, fault : Faults]
Infos == [columns : 0..1, buffered : BOOLEAN, row_count : Nat, row_current : Nat]
Stmts == [exists : BOOLEAN, state : {"NONE", "PREPARED", "EXECUTED", "FETCHED"}, params : 0..1,
          bound : BOOLEAN, prepare_result : Pointers, execute_result : Pointers,
          result_params : {"null", "live", "freed"}, session : Nat]
Readings == [result : Pointers, left : Nat]

StatementTypeOK ==
  /\ heap \in Heaps /\ info \in Infos /\ stmt \in Stmts /\ reading \in Readings
  /\ made \in 0..MaxResults /\ held \subseteq Results
  /\ losses \in 0..MaxLosses /\ connected \in BOOLEAN
  /\ fetched \in Nat /\ sent \in Nat /\ freeing \in BOOLEAN /\ stolen \in BOOLEAN
  /\ last \in {"none", "OK", "ROW_END", "UNEXPECTED_DATA"}

(* No pointer is to a result that is still to be made.                     *)
NumbersNew ==
  /\ heap.live \subseteq 1..made /\ held \subseteq 1..made
  /\ stmt.prepare_result <= made /\ stmt.execute_result <= made

(* A statement has the result of its preparation.                          *)
StatementKept ==
  /\ ~stmt.exists => stmt = NoStmt
  /\ stmt.exists => stmt.prepare_result # 0
  /\ freeing => held = {} /\ (stmt.exists => stolen)

(* The rows of the statement's result that the application got, that are   *)
(* kept, and that are still to come.                                       *)
RowsCounted ==
  /\ R = 0 => ~info.buffered
  /\ R # 0 /\ info.columns = 0 =>
       fetched = 0 /\ sent = 0 /\ info.row_count = 0 /\ info.row_current = 0
  /\ reading # Nothing =>
       /\ R # 0 /\ reading.result = R /\ info.columns # 0 /\ ~info.buffered
       /\ fetched + reading.left = sent
       /\ stmt.state \in {"EXECUTED", "FETCHED"}
       /\ stmt.state = "EXECUTED" => fetched = 0
  /\ info.buffered =>
       info.row_count = sent /\ info.row_current = fetched /\ info.row_current <= info.row_count

StatementInvariant ==
  /\ StatementTypeOK /\ NumbersNew /\ StatementKept /\ RowsCounted
  /\ ResultListExact /\ ResultsFreedOnce /\ OwnersApart /\ BufferedFetchGivesAll

----------------------------------------------------------------------------
(* The list of results.                                                    *)

(* What drizzle_result_create does to each field of the heap.              *)
LEMMA CreateFields ==
  ASSUME NEW h \in Heaps, NEW r \in Results
  PROVE  LET g == drizzle_result_create(h, r)
         IN /\ g \in Heaps /\ g.fault = h.fault /\ g.live = h.live \cup {r}
            /\ g.result_list = r /\ g.result_count = h.result_count + 1
            /\ g.next[r] = h.result_list /\ g.prev[r] = 0
            /\ \A q \in Results \ {r} :
                 /\ g.next[q] = h.next[q]
                 /\ g.prev[q] = IF q = h.result_list THEN r ELSE h.prev[q]
<1> DEFINE g == drizzle_result_create(h, r)
           back == [q \in Results |-> IF q = r THEN 0
                                      ELSE IF q = h.result_list THEN r
                                      ELSE h.prev[q]]
<1>1. Results \subseteq Pointers /\ 0 \in Pointers
  BY ResultsAssumption DEF Results, Pointers
<1>2. back \in [Results -> Pointers]
  <2>1. \A q \in Results : h.prev[q] \in Pointers
    BY DEF Heaps
  <2> QED BY <1>1, <2>1
<1>3. \A q \in Results :
        back[q] = IF q = r THEN 0 ELSE IF q = h.result_list THEN r ELSE h.prev[q]
  OBVIOUS
<1> HIDE DEF back
<1>4. g = [h EXCEPT !.result_list = r, !.result_count = @ + 1, !.next[r] = h.result_list,
                    !.prev = back, !.live = @ \cup {r}]
  BY DEF drizzle_result_create, back
<1> HIDE DEF g
<1>5. /\ h.result_list \in Pointers /\ h.result_count \in Int
      /\ h.next \in [Results -> Pointers] /\ h.live \subseteq Results /\ h.fault \in Faults
  BY DEF Heaps
<1>6. g = [result_list |-> r, result_count |-> h.result_count + 1,
           next |-> [h.next EXCEPT ![r] = h.result_list], prev |-> back,
           live |-> h.live \cup {r}, fault |-> h.fault]
  BY <1>4 DEF Heaps
<1>7. [h.next EXCEPT ![r] = h.result_list] \in [Results -> Pointers]
  BY <1>5
<1>8. r \in Pointers /\ h.live \cup {r} \subseteq Results
  BY <1>1, <1>5
<1>9. g \in Heaps
  BY <1>2, <1>5, <1>6, <1>7, <1>8 DEF Heaps
<1>10. \A q \in Results :
         [h.next EXCEPT ![r] = h.result_list][q] = IF q = r THEN h.result_list ELSE h.next[q]
  BY <1>5
<1> QED
  BY <1>3, <1>6, <1>9, <1>10 DEF g

(* What drizzle_result_free does.                                          *)
LEMMA FreeFields ==
  ASSUME NEW h \in Heaps, NEW r \in Pointers
  PROVE  LET g == drizzle_result_free(h, r)
         IN /\ g \in Heaps /\ g.live = h.live \ {r}
            /\ g.fault = IF h.fault = "none" /\ r # 0 /\ r \notin h.live
                         THEN "double_free" ELSE h.fault
            /\ r = 0 => g = h
            /\ r \in h.live =>
                 /\ g.result_count = h.result_count - 1
                 /\ g.result_list = IF h.result_list = r THEN h.next[r] ELSE h.result_list
                 /\ \A q \in Results \ {r} :
                      /\ g.next[q] = IF q = h.prev[r] THEN h.next[r] ELSE h.next[q]
                      /\ g.prev[q] = IF q = h.next[r] THEN h.prev[r] ELSE h.prev[q]
<1> DEFINE g == drizzle_result_free(h, r)
           forth == [q \in Results |-> CASE q = r -> 0
                                         [] q = h.prev[r] -> h.next[r]
                                         [] OTHER -> h.next[q]]
           back == [q \in Results |-> CASE q = r -> 0
                                        [] q = h.next[r] -> h.prev[r]
                                        [] OTHER -> h.prev[q]]
<1>1. 0 \in Pointers /\ 0 \notin Results
  BY ResultsAssumption DEF Results, Pointers
<1>2. CASE r = 0
  BY <1>1, <1>2 DEF drizzle_result_free, Heaps
<1>3. CASE r # 0 /\ r \notin h.live
  BY <1>3 DEF drizzle_result_free, Faulty, Heaps, Faults
<1>4. CASE r # 0 /\ r \in h.live
  <2>1. r \in Results
    BY <1>4 DEF Heaps
  <2>2. \A q \in Results : h.next[q] \in Pointers /\ h.prev[q] \in Pointers
    BY DEF Heaps
  <2>3. forth \in [Results -> Pointers] /\ back \in [Results -> Pointers]
    BY <1>1, <2>1, <2>2
  <2>4. \A q \in Results \ {r} :
          /\ forth[q] = IF q = h.prev[r] THEN h.next[r] ELSE h.next[q]
          /\ back[q] = IF q = h.next[r] THEN h.prev[r] ELSE h.prev[q]
    OBVIOUS
  <2> HIDE DEF forth, back
  <2> DEFINE first == IF h.result_list = r THEN h.next[r] ELSE h.result_list
  <2>5. g = [h EXCEPT !.result_count = @ - 1, !.result_list = first,
                      !.next = forth, !.prev = back, !.live = @ \ {r}]
    BY <1>4 DEF drizzle_result_free, forth, back
  <2>6. /\ first \in Pointers /\ h.result_count \in Int /\ h.live \ {r} \subseteq Results
        /\ h.fault \in Faults
    BY <2>1, <2>2 DEF Heaps
  <2> HIDE DEF g, first
  <2>7. g = [result_list |-> first, result_count |-> h.result_count - 1,
             next |-> forth, prev |-> back, live |-> h.live \ {r}, fault |-> h.fault]
    BY <2>5 DEF Heaps
  <2>8. g \in Heaps
    BY <2>3, <2>6, <2>7 DEF Heaps
  <2> QED BY <1>4, <2>4, <2>7, <2>8 DEF g, first
<1> QED BY <1>2, <1>3, <1>4

(* The neighbours of a result, said without the sets they are the newest   *)
(* and the oldest of.                                                      *)
First(r, of) == \/ r = 0 /\ of = {}
                \/ r \in of /\ \A q \in of : q <= r
Before(r, q, of) == \/ r = 0 /\ \A p \in of : ~(p < q)
                    \/ r \in of /\ r < q /\ \A p \in of : p < q => p <= r
After(r, q, of) == \/ r = 0 /\ \A p \in of : ~(p > q)
                   \/ r \in of /\ r > q /\ \A p \in of : p > q => r <= p

(* The list is exact as its definition has it, and as the proofs below     *)
(* use it.                                                                 *)
LEMMA ExactIs ==
  ASSUME NEW h \in Heaps
  PROVE  ExactList(h) <=>
           /\ h.result_count = Cardinality(h.live)
           /\ First(h.result_list, h.live)
           /\ \A r \in h.live : Before(h.next[r], r, h.live) /\ After(h.prev[r], r, h.live)
<1>1. 0 \notin h.live
  BY DEF Heaps, Results
<1>2. Newest(h.result_list, h.live) <=> First(h.result_list, h.live)
  BY <1>1 DEF Newest, First
<1>3. ASSUME NEW r \in h.live
      PROVE  Newest(h.next[r], {q \in h.live : q < r}) <=> Before(h.next[r], r, h.live)
  <2>1. {q \in h.live : q < r} = {} <=> \A p \in h.live : ~(p < r)
    OBVIOUS
  <2> QED BY <1>1, <2>1 DEF Newest, Before
<1>4. ASSUME NEW r \in h.live
      PROVE  Oldest(h.prev[r], {q \in h.live : q > r}) <=> After(h.prev[r], r, h.live)
  <2>1. {q \in h.live : q > r} = {} <=> \A p \in h.live : ~(p > r)
    OBVIOUS
  <2> QED BY <1>1, <2>1 DEF Oldest, After
<1> QED BY <1>2, <1>3, <1>4 DEF ExactList

(* The allocated results are finitely many, and none is the NULL pointer.  *)
LEMMA LiveFinite ==
  ASSUME NEW h \in Heaps
  PROVE  /\ IsFiniteSet(h.live) /\ Cardinality(h.live) \in Nat /\ h.live \subseteq Results
         /\ \A q \in h.live : q \in Results /\ q \in Nat /\ q # 0
         /\ \A q \in Results : q \in Nat /\ q # 0 /\ q \in Pointers
<1>1. h.live \subseteq Results
  BY DEF Heaps
<1>2. IsFiniteSet(Results)
  BY ResultsAssumption, FS_Interval DEF Results
<1>3. IsFiniteSet(h.live) /\ Cardinality(h.live) \in Nat
  BY <1>1, <1>2, FS_Subset, FS_CardinalityType
<1>4. \A q \in Results : q \in Nat /\ q # 0 /\ q \in Pointers
  BY ResultsAssumption DEF Results, Pointers
<1> QED BY <1>1, <1>3, <1>4

(* A new result is put in front of an exact list.                          *)
LEMMA CreateExact ==
  ASSUME NEW h \in Heaps, NEW r \in Results, ExactList(h), \A q \in h.live : q < r
  PROVE  ExactList(drizzle_result_create(h, r))
<1> DEFINE g == drizzle_result_create(h, r)
<1>1. /\ g \in Heaps /\ g.live = h.live \cup {r}
      /\ g.result_list = r /\ g.result_count = h.result_count + 1
      /\ g.next[r] = h.result_list /\ g.prev[r] = 0
      /\ \A q \in Results \ {r} : /\ g.next[q] = h.next[q]
                                  /\ g.prev[q] = IF q = h.result_list THEN r ELSE h.prev[q]
  BY CreateFields
<1> HIDE DEF g
<1>2. /\ r \in Nat /\ r # 0 /\ r \notin h.live
      /\ \A q \in h.live : q \in Results /\ q \in Nat /\ q # 0 /\ q < r
  <2>1. r \in Nat /\ r # 0 /\ ~(r < r)
    BY LiveFinite
  <2> QED BY <2>1, LiveFinite
<1>3. /\ h.result_count = Cardinality(h.live) /\ First(h.result_list, h.live)
      /\ \A q \in h.live : Before(h.next[q], q, h.live) /\ After(h.prev[q], q, h.live)
  BY ExactIs
<1>4. g.result_count = Cardinality(g.live)
  <2>1. Cardinality(h.live \cup {r}) = Cardinality(h.live) + 1
    BY <1>2, LiveFinite, FS_AddElement
  <2> QED BY <1>1, <1>3, <2>1
<1>5. First(g.result_list, g.live)
  BY <1>1, <1>2 DEF First
<1>6. Before(g.next[r], r, g.live) /\ After(g.prev[r], r, g.live)
  BY <1>1, <1>2, <1>3 DEF First, Before, After
<1>7. ASSUME NEW q \in h.live
      PROVE  Before(g.next[q], q, g.live) /\ After(g.prev[q], q, g.live)
  <2>1. /\ q < r /\ g.next[q] = h.next[q]
        /\ g.prev[q] = IF q = h.result_list THEN r ELSE h.prev[q]
    BY <1>1, <1>2
  <2>2. Before(h.next[q], q, g.live)
    BY <1>1, <1>2, <1>3, <2>1 DEF Before
  <2>3. CASE q = h.result_list
    <3>1. \A p \in h.live : ~(p > q)
      BY <1>2, <1>3, <2>3 DEF First
    <3>2. After(r, q, g.live)
      BY <1>1, <1>2, <2>1, <3>1 DEF After
    <3> QED BY <2>1, <2>2, <2>3, <3>2
  <2>4. CASE q # h.result_list
    <3>1. h.result_list \in h.live /\ h.result_list > q
      BY <1>2, <1>3, <2>4 DEF First
    <3>2. After(h.prev[q], q, g.live)
      BY <1>1, <1>2, <1>3, <2>1, <3>1 DEF After
    <3> QED BY <2>1, <2>2, <2>4, <3>2
  <2> QED BY <2>3, <2>4
<1>8. ExactList(g)
  BY <1>1, <1>4, <1>5, <1>6, <1>7, ExactIs
<1> QED BY <1>8 DEF g

(* An exact list stays exact whichever of its results is taken off.        *)
LEMMA FreeExact ==
  ASSUME NEW h \in Heaps, NEW r \in h.live, ExactList(h)
  PROVE  ExactList(drizzle_result_free(h, r))
<1> DEFINE g == drizzle_result_free(h, r)
<1>1. /\ r \in Results /\ r \in Pointers /\ r \in Nat /\ r # 0
      /\ \A q \in h.live : q \in Results /\ q \in Nat /\ q # 0
  BY LiveFinite
<1>2. /\ g \in Heaps /\ g.live = h.live \ {r} /\ g.result_count = h.result_count - 1
      /\ g.result_list = IF h.result_list = r THEN h.next[r] ELSE h.result_list
      /\ \A q \in Results \ {r} :
           /\ g.next[q] = IF q = h.prev[r] THEN h.next[r] ELSE h.next[q]
           /\ g.prev[q] = IF q = h.next[r] THEN h.prev[r] ELSE h.prev[q]
  BY <1>1, FreeFields
<1> HIDE DEF g
<1>3. /\ h.result_count = Cardinality(h.live) /\ First(h.result_list, h.live)
      /\ \A q \in h.live : Before(h.next[q], q, h.live) /\ After(h.prev[q], q, h.live)
  BY ExactIs
<1>4. g.result_count = Cardinality(g.live)
  <2>1. Cardinality(h.live \ {r}) = Cardinality(h.live) - 1
    BY LiveFinite, FS_RemoveElement
  <2> QED BY <1>2, <1>3, <2>1
<1>5. First(g.result_list, g.live)
  BY <1>1, <1>2, <1>3 DEF First, Before
<1>6. ASSUME NEW q \in g.live
      PROVE  Before(g.next[q], q, g.live)
  <2>1. /\ q \in h.live /\ q # r /\ q \in Nat /\ q # 0
        /\ g.next[q] = IF q = h.prev[r] THEN h.next[r] ELSE h.next[q]
        /\ Before(h.next[q], q, h.live) /\ Before(h.next[r], r, h.live)
        /\ After(h.prev[r], r, h.live)
    BY <1>1, <1>2, <1>3
  <2>2. CASE q = h.prev[r]
    <3>1. q > r /\ \A p \in h.live : p > r => q <= p
      BY <1>1, <2>1, <2>2 DEF After
    <3>2. Before(h.next[r], q, g.live)
      BY <1>1, <1>2, <2>1, <3>1 DEF Before
    <3> QED BY <2>1, <2>2, <3>2
  <2>3. CASE q # h.prev[r]
    <3>1. h.next[q] # r
      BY <1>1, <2>1, <2>3 DEF Before, After
    <3>2. Before(h.next[q], q, g.live)
      BY <1>2, <2>1, <3>1 DEF Before
    <3> QED BY <2>1, <2>3, <3>2
  <2> QED BY <2>2, <2>3
<1>7. ASSUME NEW q \in g.live
      PROVE  After(g.prev[q], q, g.live)
  <2>1. /\ q \in h.live /\ q # r /\ q \in Nat /\ q # 0
        /\ g.prev[q] = IF q = h.next[r] THEN h.prev[r] ELSE h.prev[q]
        /\ After(h.prev[q], q, h.live) /\ After(h.prev[r], r, h.live)
        /\ Before(h.next[r], r, h.live)
    BY <1>1, <1>2, <1>3
  <2>2. CASE q = h.next[r]
    <3>1. q < r /\ \A p \in h.live : p < r => p <= q
      BY <1>1, <2>1, <2>2 DEF Before
    <3>2. After(h.prev[r], q, g.live)
      BY <1>1, <1>2, <2>1, <3>1 DEF After
    <3> QED BY <2>1, <2>2, <3>2
  <2>3. CASE q # h.next[r]
    <3>1. h.prev[q] # r
      BY <1>1, <2>1, <2>3 DEF Before, After
    <3>2. After(h.prev[q], q, g.live)
      BY <1>2, <2>1, <3>1 DEF After
    <3> QED BY <2>1, <2>3, <3>2
  <2> QED BY <2>2, <2>3
<1>8. ExactList(g)
  BY <1>2, <1>4, <1>5, <1>6, <1>7, ExactIs
<1> QED BY <1>8 DEF g

(* What drizzle_command_write does to the list.                            *)
LEMMA CommandFields ==
  ASSUME NEW h \in Heaps, NEW r \in Results, NEW code \in Answers, h.fault = "none",
         ExactList(h), \A q \in h.live : q < r
  PROVE  /\ Command(h, r, code) \in Heaps /\ Command(h, r, code).fault = "none"
         /\ ExactList(Command(h, r, code))
         /\ Command(h, r, code).live = IF code = "LOST_CONNECTION" THEN h.live ELSE h.live \cup {r}
<1> DEFINE g == drizzle_result_create(h, r)
<1>1. /\ g \in Heaps /\ g.fault = "none" /\ g.live = h.live \cup {r} /\ ExactList(g)
  BY CreateFields, CreateExact
<1>2. r \in Pointers /\ r # 0 /\ r \in g.live /\ r \notin h.live
  <2>1. r \in Pointers /\ r # 0 /\ r \in Nat /\ ~(r < r)
    BY LiveFinite
  <2> QED BY <1>1, <2>1
<1> HIDE DEF g
<1>3. /\ drizzle_result_free(g, r) \in Heaps /\ drizzle_result_free(g, r).fault = "none"
      /\ drizzle_result_free(g, r).live = h.live /\ ExactList(drizzle_result_free(g, r))
  <2>1. /\ drizzle_result_free(g, r) \in Heaps /\ drizzle_result_free(g, r).live = g.live \ {r}
        /\ drizzle_result_free(g, r).fault = "none"
    BY <1>1, <1>2, FreeFields
  <2>2. ExactList(drizzle_result_free(g, r))
    BY <1>1, <1>2, FreeExact
  <2>3. g.live \ {r} = h.live
    BY <1>1, <1>2
  <2> QED BY <2>1, <2>2, <2>3
<1>4. Command(h, r, code) = IF code = "LOST_CONNECTION" THEN drizzle_result_free(g, r) ELSE g
  BY DEF Command, Answers, g
<1> QED BY <1>1, <1>3, <1>4

(* What it does to a heap that something was wrong with before.            *)
LEMMA CommandTypes ==
  ASSUME NEW h \in Heaps, NEW r \in Results, NEW code \in Answers
  PROVE  /\ Command(h, r, code) \in Heaps /\ Command(h, r, code).fault = h.fault
         /\ Command(h, r, code).live \subseteq h.live \cup {r}
<1> DEFINE g == drizzle_result_create(h, r)
<1>1. g \in Heaps /\ g.fault = h.fault /\ g.live = h.live \cup {r}
  BY CreateFields
<1>2. r \in Pointers /\ r \in g.live
  BY <1>1, LiveFinite
<1> HIDE DEF g
<1>3. /\ drizzle_result_free(g, r) \in Heaps /\ drizzle_result_free(g, r).live = g.live \ {r}
      /\ drizzle_result_free(g, r).fault = h.fault
  BY <1>1, <1>2, FreeFields
<1>4. Command(h, r, code) = IF code = "LOST_CONNECTION" THEN drizzle_result_free(g, r) ELSE g
  BY DEF Command, Answers, g
<1> QED BY <1>1, <1>3, <1>4

----------------------------------------------------------------------------
(* The invariant holds at first, and every call keeps it.                  *)

(* A connection without results or statement.                              *)
LEMMA InitInvariant == Init => StatementInvariant
<1> SUFFICES ASSUME Init PROVE StatementInvariant
  OBVIOUS
<1> DEFINE zeroes == [r \in Results |-> 0]
<1>1. 0 \in Pointers /\ MaxResults \in Nat /\ MaxLosses \in Nat
  BY ResultsAssumption, StatementAssumption DEF Pointers
<1>2. heap = [result_list |-> 0, result_count |-> 0, next |-> zeroes, prev |-> zeroes,
              live |-> {}, fault |-> "none"]
  BY DEF Init, EmptyHeap
<1>3. zeroes \in [Results -> Pointers]
  BY <1>1
<1> HIDE DEF zeroes
<1>4. heap \in Heaps
  BY <1>1, <1>2, <1>3 DEF Heaps, Faults
<1>5. NoStmt \in Stmts /\ NoInfo \in Infos /\ Nothing \in Readings
  BY <1>1 DEF NoStmt, NoInfo, Nothing, Stmts, Infos, Readings
<1>6. StatementTypeOK
  <2>1. /\ made = 0 /\ held = {} /\ losses = 0 /\ connected = FALSE /\ fetched = 0 /\ sent = 0
        /\ freeing = FALSE /\ stolen = FALSE /\ last = "none"
        /\ info = NoInfo /\ stmt = NoStmt /\ reading = Nothing
    BY DEF Init
  <2>2. made \in 0..MaxResults /\ losses \in 0..MaxLosses
    BY <1>1, <2>1
  <2> QED BY <1>4, <1>5, <2>1, <2>2 DEF StatementTypeOK
<1>7. NumbersNew /\ StatementKept /\ RowsCounted
  BY <1>2 DEF Init, NumbersNew, StatementKept, RowsCounted, NoStmt, NoInfo, R
<1>8. ResultListExact
  BY <1>2, FS_EmptySet DEF ResultListExact, ExactList, Newest
<1>9. ResultsFreedOnce /\ OwnersApart /\ BufferedFetchGivesAll
  BY <1>2 DEF Init, ResultsFreedOnce, OwnersApart, BufferedFetchGivesAll, NoStmt, NoInfo
<1> QED BY <1>6, <1>7, <1>8, <1>9 DEF StatementInvariant

(* What a command finds: the result it makes is like no other.             *)
LEMMA NewResult ==
  ASSUME StatementInvariant, heap.fault = "none", made < MaxResults
  PROVE  /\ New \in Results /\ New \in Pointers /\ New # 0 /\ New \in 0..MaxResults
         /\ \A q \in heap.live : q < New
         /\ heap.live \subseteq 1..New /\ held \subseteq 1..New
         /\ New \notin heap.live /\ New \notin held
         /\ New # stmt.prepare_result /\ New # stmt.execute_result
         /\ stmt.prepare_result <= New /\ stmt.execute_result <= New
<1>1. made \in Nat /\ MaxResults \in Nat /\ New = made + 1
  BY ResultsAssumption DEF StatementInvariant, StatementTypeOK, New
<1>2. \A q \in heap.live \cup held : q \in Nat /\ 1 <= q /\ q <= made
  <2>1. heap.live \subseteq 1..made /\ held \subseteq 1..made
    BY DEF StatementInvariant, NumbersNew
  <2>2. \A q \in 1..made : q \in Nat /\ 1 <= q /\ q <= made
    BY <1>1
  <2> QED BY <2>1, <2>2
<1>3. /\ stmt.prepare_result \in Nat /\ stmt.execute_result \in Nat
      /\ stmt.prepare_result <= made /\ stmt.execute_result <= made
  BY DEF StatementInvariant, StatementTypeOK, NumbersNew, Stmts, Pointers
<1>4. New \in Results /\ New \in Pointers /\ New # 0 /\ New \in 0..MaxResults
  BY <1>1 DEF Results, Pointers
<1>5. /\ \A q \in heap.live \cup held : q < New
      /\ New # stmt.prepare_result /\ New # stmt.execute_result
      /\ stmt.prepare_result <= New /\ stmt.execute_result <= New
  BY <1>1, <1>2, <1>3
<1>6. heap.live \subseteq 1..New /\ held \subseteq 1..New
  BY <1>1, <1>2, <1>5
<1>7. ~(New < New)
  BY <1>1
<1> QED BY <1>4, <1>5, <1>6, <1>7

(* Whatever a command comes to, the connection is there or lost.           *)
LEMMA LostType ==
  ASSUME losses \in 0..MaxLosses, NEW code \in Answers, Lost(code)
  PROVE  losses' \in 0..MaxLosses /\ connected' \in BOOLEAN
BY StatementAssumption DEF Lost

(* drizzle_query gives the application a result of its own, or none.       *)
LEMMA QueryStep ==
  ASSUME StatementInvariant, heap.fault = "none", UNCHANGED freeing, ~freeing, drizzle_query, last' = "none"
  PROVE  StatementInvariant'
<1>1. PICK code \in Answers :
        /\ Lost(code) /\ heap' = Command(heap, New, code)
        /\ held' = IF code = "LOST_CONNECTION" THEN held ELSE held \cup {New}
  BY DEF drizzle_query
<1>2. /\ made < MaxResults /\ made' = New
      /\ UNCHANGED <<info, stmt, reading, fetched, sent, stolen, freeing>>
  BY DEF drizzle_query
<1>3. /\ New \in Results /\ New \in Pointers /\ New \in 0..MaxResults
      /\ \A q \in heap.live : q < New
      /\ heap.live \subseteq 1..New /\ held \subseteq 1..New /\ New \in 1..New
      /\ New \notin heap.live /\ New \notin held
      /\ New # stmt.prepare_result /\ New # stmt.execute_result
      /\ stmt.prepare_result <= New /\ stmt.execute_result <= New
  BY <1>2, NewResult DEF Results
<1>4. heap \in Heaps /\ ExactList(heap)
  BY DEF StatementInvariant, StatementTypeOK, ResultListExact
<1>5. /\ heap' \in Heaps /\ heap'.fault = "none" /\ ExactList(heap')
      /\ heap'.live = IF code = "LOST_CONNECTION" THEN heap.live ELSE heap.live \cup {New}
  BY <1>1, <1>3, <1>4, CommandFields
<1>6. StatementTypeOK'
  <2>1. losses' \in 0..MaxLosses /\ connected' \in BOOLEAN
    BY <1>1, LostType DEF StatementInvariant, StatementTypeOK
  <2> QED BY <1>1, <1>2, <1>3, <1>5, <2>1 DEF StatementInvariant, StatementTypeOK
<1>7. NumbersNew'
  BY <1>1, <1>2, <1>3, <1>5 DEF NumbersNew
<1>8. StatementKept' /\ RowsCounted'
  BY <1>2 DEF StatementInvariant, StatementKept, RowsCounted, R
<1>9. ResultListExact' /\ ResultsFreedOnce' /\ BufferedFetchGivesAll'
  BY <1>5 DEF ResultListExact, ResultsFreedOnce, BufferedFetchGivesAll
<1>10. OwnersApart'
  BY <1>1, <1>2, <1>3, <1>5 DEF StatementInvariant, OwnersApart
<1> QED
  BY <1>6, <1>7, <1>8, <1>9, <1>10 DEF StatementInvariant

(* The application frees one of its own results, which are no              *)
(* statement's.                                                            *)
LEMMA FreeHeldStep ==
  ASSUME StatementInvariant, heap.fault = "none", UNCHANGED freeing, ~freeing, FreeHeld, last' = "none"
  PROVE  StatementInvariant'
<1>1. PICK r \in held : heap' = drizzle_result_free(heap, r) /\ held' = held \ {r}
  BY DEF FreeHeld
<1>2. /\ UNCHANGED <<made, info, stmt, reading, fetched, sent, stolen, freeing>>
      /\ losses' = losses /\ connected' = connected
  BY DEF FreeHeld, connection
<1>3. heap \in Heaps /\ ExactList(heap) /\ r \in Pointers
  BY LiveFinite DEF StatementInvariant, StatementTypeOK, ResultListExact
<1>4. /\ heap' \in Heaps /\ heap'.live = heap.live \ {r}
      /\ heap'.fault = IF r # 0 /\ r \notin heap.live THEN "double_free" ELSE "none"
  BY <1>1, <1>3, FreeFields
<1>5. r # 0
  BY <1>3, LiveFinite DEF StatementInvariant, StatementTypeOK
<1>6. r \notin heap.live => stolen
  BY DEF StatementInvariant, OwnersApart
<1>7. StatementTypeOK' /\ NumbersNew'
  BY <1>1, <1>2, <1>4 DEF StatementInvariant, StatementTypeOK, NumbersNew
<1>8. StatementKept' /\ RowsCounted'
  BY <1>1, <1>2 DEF StatementInvariant, StatementKept, RowsCounted, R
<1>9. ResultListExact'
  BY <1>1, <1>3, <1>4, <1>5, FreeExact DEF ResultListExact
<1>10. ResultsFreedOnce' /\ BufferedFetchGivesAll'
  BY <1>2, <1>4, <1>6 DEF ResultsFreedOnce, BufferedFetchGivesAll
<1>11. OwnersApart'
  BY <1>1, <1>2, <1>4 DEF StatementInvariant, OwnersApart
<1> QED
  BY <1>7, <1>8, <1>9, <1>10, <1>11 DEF StatementInvariant

(* Once drizzle_result_free_all has begun, the application has no results, *)
(* and a statement only pointers to what is freed.                         *)
LEMMA FreeAllStep ==
  ASSUME StatementInvariant, heap.fault = "none", FreeAll
  PROVE  StatementInvariant'
<1>1. /\ held' = {} /\ stolen' = (stolen \/ stmt.exists) /\ last' = "none"
      /\ freeing' = (heap.result_list # 0)
      /\ UNCHANGED <<heap, made, info, stmt, reading, fetched, sent>>
      /\ losses' = losses /\ connected' = connected
  BY DEF FreeAll, connection
<1>2. StatementTypeOK' /\ NumbersNew'
  BY <1>1 DEF StatementInvariant, StatementTypeOK, NumbersNew
<1>3. StatementKept' /\ RowsCounted'
  BY <1>1 DEF StatementInvariant, StatementTypeOK, StatementKept, RowsCounted, R
<1>4. ResultListExact' /\ ResultsFreedOnce' /\ BufferedFetchGivesAll'
  BY <1>1 DEF StatementInvariant, ResultListExact, ResultsFreedOnce, BufferedFetchGivesAll
<1>5. OwnersApart'
  BY <1>1 DEF StatementInvariant, StatementTypeOK, OwnersApart
<1> QED
  BY <1>2, <1>3, <1>4, <1>5 DEF StatementInvariant

(* drizzle_result_free_all frees the head of the list, which is            *)
(* allocated.                                                              *)
LEMMA FreeFirstStep ==
  ASSUME StatementInvariant, heap.fault = "none", FreeFirst
  PROVE  StatementInvariant'
<1> DEFINE r == heap.result_list
<1>1. /\ freeing /\ heap' = drizzle_result_free(heap, r) /\ freeing' \in BOOLEAN
      /\ UNCHANGED <<made, info, held, stmt, reading, fetched, sent, stolen, last>>
      /\ losses' = losses /\ connected' = connected
  BY DEF FreeFirst, connection
<1>2. heap \in Heaps /\ ExactList(heap) /\ r \in Pointers
  BY DEF StatementInvariant, StatementTypeOK, ResultListExact, Heaps
<1>3. r = 0 \/ r \in heap.live
  BY <1>2 DEF ExactList, Newest
<1>4. /\ heap' \in Heaps /\ heap'.live = heap.live \ {r} /\ heap'.fault = "none"
      /\ r = 0 => heap' = heap
  BY <1>1, <1>2, <1>3, FreeFields
<1>5. StatementTypeOK' /\ NumbersNew'
  BY <1>1, <1>4 DEF StatementInvariant, StatementTypeOK, NumbersNew
<1>6. StatementKept' /\ RowsCounted'
  BY <1>1 DEF StatementInvariant, StatementKept, RowsCounted, R
<1>7. ResultListExact'
  BY <1>1, <1>2, <1>3, <1>4, FreeExact DEF ResultListExact
<1>8. ResultsFreedOnce' /\ BufferedFetchGivesAll'
  BY <1>1, <1>4 DEF StatementInvariant, ResultsFreedOnce, BufferedFetchGivesAll
<1>9. OwnersApart'
  <2>1. held' = {} /\ (stolen' \/ stmt' = NoStmt)
    BY <1>1 DEF StatementInvariant, StatementKept
  <2> QED BY <2>1 DEF OwnersApart, NoStmt
<1> QED
  BY <1>5, <1>6, <1>7, <1>8, <1>9 DEF StatementInvariant

(* drizzle_stmt_prepare leaves a statement with the result it made, or     *)
(* none.                                                                   *)
LEMMA PrepareStep ==
  ASSUME StatementInvariant, heap.fault = "none", UNCHANGED freeing, ~freeing,
         drizzle_stmt_prepare, last' = "none"
  PROVE  StatementInvariant'
<1> DEFINE Made(params) ==
             [NoStmt EXCEPT !.exists = TRUE, !.state = "PREPARED", !.params = params,
                            !.prepare_result = New, !.session = losses]
<1>1. \E code \in Answers :
        /\ heap' = Command(heap, New, code)
        /\ stmt' = stmt \/ (code = "OK" /\ \E params \in 0..1 : stmt' = Made(params))
  <2>1. CASE PrepareFails
    BY <2>1 DEF PrepareFails
  <2>2. CASE SkippingFails
    BY <2>2 DEF SkippingFails, Answers
  <2>3. CASE Prepared
    BY <2>3 DEF Prepared, Answers
  <2> QED BY <2>1, <2>2, <2>3 DEF drizzle_stmt_prepare
<1>2. \E code \in Answers : Lost(code)
  BY DEF drizzle_stmt_prepare, PrepareFails, SkippingFails, Prepared, Answers
<1>3. /\ made < MaxResults /\ made' = New /\ reading = Nothing /\ ~stmt.exists
      /\ info' = NoInfo /\ fetched' = 0 /\ sent' = 0
      /\ UNCHANGED <<held, reading, stolen, freeing>>
  BY DEF drizzle_stmt_prepare, Quiet
<1>4. PICK code \in Answers :
        /\ heap' = Command(heap, New, code)
        /\ stmt' = stmt \/ (code = "OK" /\ \E params \in 0..1 : stmt' = Made(params))
  BY <1>1
<1>5. /\ New \in Results /\ New \in Pointers /\ New # 0 /\ New \in 0..MaxResults
      /\ \A q \in heap.live : q < New
      /\ heap.live \subseteq 1..New /\ held \subseteq 1..New /\ New \in 1..New
      /\ New \notin held /\ 0 <= New /\ New <= New /\ 0 \notin held
  <2>1. \A q \in held : q # 0
    BY LiveFinite DEF StatementInvariant, StatementTypeOK
  <2> QED BY <1>3, <2>1, NewResult DEF Results
<1>6. heap \in Heaps /\ ExactList(heap)
  BY DEF StatementInvariant, StatementTypeOK, ResultListExact
<1>7. /\ heap' \in Heaps /\ heap'.fault = "none" /\ ExactList(heap')
      /\ heap'.live = IF code = "LOST_CONNECTION" THEN heap.live ELSE heap.live \cup {New}
  BY <1>4, <1>5, <1>6, CommandFields
<1>8. /\ stmt' \in Stmts /\ stmt'.execute_result = 0
      /\ \/ ~stmt'.exists /\ stmt' = NoStmt /\ stmt'.prepare_result = 0
         \/ stmt'.exists /\ stmt'.prepare_result = New /\ code = "OK"
  <2>1. CASE stmt' = stmt
    BY <1>3, <2>1 DEF StatementInvariant, StatementTypeOK, StatementKept, NoStmt
  <2>2. CASE code = "OK" /\ \E params \in 0..1 : stmt' = Made(params)
    <3>1. PICK params \in 0..1 : stmt' = Made(params)
      BY <2>2
    <3>2. losses \in Nat /\ 0 \in Pointers
      BY StatementAssumption, ResultsAssumption DEF StatementInvariant, StatementTypeOK, Pointers
    <3> QED BY <1>5, <2>2, <3>1, <3>2 DEF NoStmt, Stmts
  <2> QED BY <1>4, <2>1, <2>2
<1>9. StatementTypeOK'
  <2>1. losses' \in 0..MaxLosses /\ connected' \in BOOLEAN
    BY <1>2, LostType DEF StatementInvariant, StatementTypeOK
  <2>2. info' \in Infos
    BY <1>3 DEF NoInfo, Infos
  <2> QED BY <1>3, <1>5, <1>7, <1>8, <2>1, <2>2 DEF StatementInvariant, StatementTypeOK
<1>10. NumbersNew'
  BY <1>3, <1>5, <1>7, <1>8 DEF NumbersNew
<1>11. StatementKept' /\ RowsCounted'
  BY <1>3, <1>5, <1>8 DEF StatementKept, RowsCounted, R, NoInfo
<1>12. ResultListExact' /\ ResultsFreedOnce' /\ BufferedFetchGivesAll'
  BY <1>7 DEF ResultListExact, ResultsFreedOnce, BufferedFetchGivesAll
<1>13. OwnersApart'
  BY <1>3, <1>5, <1>7, <1>8 DEF StatementInvariant, OwnersApart
<1> QED
  BY <1>9, <1>10, <1>11, <1>12, <1>13 DEF StatementInvariant

(* Binding a parameter leaves the results alone.                           *)
LEMMA SetParamStep ==
  ASSUME StatementInvariant, heap.fault = "none", UNCHANGED freeing, ~freeing,
         drizzle_stmt_set_param, last' = "none"
  PROVE  StatementInvariant'
<1>1. /\ stmt.exists /\ stmt' = [stmt EXCEPT !.bound = TRUE]
      /\ UNCHANGED <<heap, made, info, held, reading, fetched, sent, stolen, freeing>>
      /\ losses' = losses /\ connected' = connected
  BY DEF drizzle_stmt_set_param, connection
<1>2. /\ stmt' \in Stmts /\ stmt'.exists /\ stmt'.state = stmt.state
      /\ stmt'.prepare_result = stmt.prepare_result /\ stmt'.execute_result = stmt.execute_result
  BY <1>1 DEF StatementInvariant, StatementTypeOK, Stmts
<1>3. StatementTypeOK' /\ NumbersNew'
  BY <1>1, <1>2 DEF StatementInvariant, StatementTypeOK, NumbersNew
<1>4. StatementKept' /\ RowsCounted'
  BY <1>1, <1>2 DEF StatementInvariant, StatementKept, RowsCounted, R
<1>5. ResultListExact' /\ ResultsFreedOnce' /\ BufferedFetchGivesAll'
  BY <1>1 DEF StatementInvariant, ResultListExact, ResultsFreedOnce, BufferedFetchGivesAll
<1>6. OwnersApart'
  BY <1>1, <1>2 DEF StatementInvariant, OwnersApart
<1> QED
  BY <1>3, <1>4, <1>5, <1>6 DEF StatementInvariant

(* The heap after drizzle_stmt_execute has freed the result of the last    *)
(* execution and made a new one.                                           *)
LEMMA ExecuteHeapFields ==
  ASSUME StatementInvariant, heap.fault = "none", stmt.exists, made < MaxResults,
         NEW code \in Answers
  PROVE  LET h == ExecuteHeap(code)
         IN /\ h \in Heaps /\ h.live \subseteq heap.live \cup {New}
            /\ h.fault \in {"none", "double_free"} /\ (h.fault # "none" => stolen)
            /\ h.fault = "none" =>
                 /\ ExactList(h)
                 /\ h.live = (heap.live \ {stmt.execute_result})
                             \cup (IF code = "LOST_CONNECTION" THEN {} ELSE {New})
<1> DEFINE freed == drizzle_result_free(heap, stmt.execute_result)
<1>1. /\ heap \in Heaps /\ ExactList(heap) /\ stmt.execute_result \in Pointers
      /\ New \in Results /\ \A q \in heap.live : q < New
  BY NewResult DEF StatementInvariant, StatementTypeOK, ResultListExact, Stmts
<1>2. /\ freed \in Heaps /\ freed.live = heap.live \ {stmt.execute_result}
      /\ freed.fault = IF stmt.execute_result # 0 /\ stmt.execute_result \notin heap.live
                       THEN "double_free" ELSE "none"
      /\ stmt.execute_result = 0 => freed = heap
  BY <1>1, FreeFields
<1>3. freed.fault = "none" => ExactList(freed)
  BY <1>1, <1>2, FreeExact
<1>4. freed.fault # "none" => stolen
  BY <1>2 DEF StatementInvariant, OwnersApart
<1>5. /\ freed \in Heaps /\ freed.live \subseteq heap.live /\ \A q \in freed.live : q < New
      /\ freed.fault \in {"none", "double_free"}
  BY <1>1, <1>2
<1>6. ExecuteHeap(code) = Command(freed, New, code)
  BY DEF ExecuteHeap
<1> HIDE DEF freed
<1>7. /\ Command(freed, New, code) \in Heaps /\ Command(freed, New, code).fault = freed.fault
      /\ Command(freed, New, code).live \subseteq freed.live \cup {New}
  BY <1>1, <1>5, CommandTypes
<1>8. ASSUME freed.fault = "none"
      PROVE  /\ ExactList(Command(freed, New, code))
             /\ Command(freed, New, code).live =
                  IF code = "LOST_CONNECTION" THEN freed.live ELSE freed.live \cup {New}
  <2>1. ExactList(freed) /\ New \in Results
    BY <1>1, <1>3, <1>8
  <2> HIDE DEF New
  <2> QED BY <1>5, <1>8, <2>1, CommandFields
<1> DEFINE h == Command(freed, New, code)
<1> HIDE DEF h
<1>9. /\ h \in Heaps /\ h.fault = freed.fault /\ h.live \subseteq freed.live \cup {New}
      /\ ExecuteHeap(code) = h
      /\ freed.fault = "none" =>
           /\ ExactList(h)
           /\ h.live = IF code = "LOST_CONNECTION" THEN freed.live ELSE freed.live \cup {New}
  BY <1>6, <1>7, <1>8 DEF h
<1>10. h.live \subseteq heap.live \cup {New}
  BY <1>5, <1>9
<1> QED BY <1>2, <1>4, <1>5, <1>9, <1>10

(* Whether the command of drizzle_stmt_execute fails or not, it leaves a   *)
(* statement with the result it made, or with none.                        *)
LEMMA ExecuteStep ==
  ASSUME StatementInvariant, heap.fault = "none", UNCHANGED freeing, ~freeing,
         drizzle_stmt_execute, last' = "none"
  PROVE  StatementInvariant'
<1>1. CASE ExecuteUnbound
  <2>1. /\ UNCHANGED <<heap, made, info, held, stmt, reading, fetched, sent, stolen, freeing>>
        /\ losses' = losses /\ connected' = connected
    BY <1>1 DEF ExecuteUnbound, drizzle_stmt_execute, connection
  <2>2. StatementTypeOK' /\ NumbersNew'
    BY <2>1 DEF StatementInvariant, StatementTypeOK, NumbersNew
  <2>3. StatementKept' /\ RowsCounted'
    BY <2>1 DEF StatementInvariant, StatementKept, RowsCounted, R
  <2>4. ResultListExact' /\ ResultsFreedOnce' /\ BufferedFetchGivesAll'
    BY <2>1 DEF StatementInvariant, ResultListExact, ResultsFreedOnce, BufferedFetchGivesAll
  <2>5. OwnersApart'
    BY <2>1 DEF StatementInvariant, OwnersApart
  <2> QED
    BY <2>2, <2>3, <2>4, <2>5 DEF StatementInvariant
<1>2. CASE /\ made < MaxResults /\ made' = New /\ fetched' = 0
           /\ ExecuteFails \/ Executed
  <2>1. /\ reading = Nothing /\ stmt.exists /\ UNCHANGED <<held, stolen, freeing>>
        /\ made < MaxResults /\ made' = New /\ fetched' = 0
    BY <1>2 DEF drizzle_stmt_execute, Quiet
  <2>2. /\ New \in Pointers /\ New # 0 /\ New \in 0..MaxResults /\ 0 \in Pointers
        /\ heap.live \subseteq 1..New /\ held \subseteq 1..New /\ New \in 1..New
        /\ New \notin held /\ New # stmt.prepare_result
        /\ stmt.prepare_result <= New /\ 0 <= New /\ New <= New /\ 0 \notin held
    <3>1. \A q \in held : q # 0
      BY LiveFinite DEF StatementInvariant, StatementTypeOK
    <3>2. 0 \in Pointers
      BY ResultsAssumption DEF Pointers
    <3>3. New \in Results /\ New \in 1..New /\ 0 <= New /\ New <= New
      BY <2>1, NewResult DEF Results
    <3> QED BY <2>1, <3>1, <3>2, <3>3, NewResult
  <2>3. PICK code \in Answers :
          /\ heap' = ExecuteHeap(code)
          /\ stmt' \in Stmts /\ stmt'.exists /\ stmt'.prepare_result = stmt.prepare_result
          /\ stmt'.execute_result = IF code = "LOST_CONNECTION" THEN 0 ELSE New
    <3>1. stmt \in Stmts
      BY DEF StatementInvariant, StatementTypeOK
    <3>2. CASE ExecuteFails
      <4>1. PICK code \in Answers \ {"OK"} :
              /\ heap' = ExecuteHeap(code)
              /\ stmt' = [stmt EXCEPT !.execute_result = IF code = "ERROR_CODE" THEN New ELSE 0]
        BY <3>2 DEF ExecuteFails
      <4> QED BY <2>1, <2>2, <3>1, <4>1 DEF Answers, Stmts
    <3>3. CASE Executed
      <4>1. PICK columns \in 0..1 :
              stmt' = [stmt EXCEPT !.state = "EXECUTED", !.execute_result = New,
                                   !.result_params = IF columns > 0 THEN "live" ELSE @]
        BY <3>3 DEF Executed
      <4>2. "OK" \in Answers /\ heap' = ExecuteHeap("OK")
        BY <3>3 DEF Executed, Answers
      <4>3. /\ stmt' \in Stmts /\ stmt'.exists /\ stmt'.prepare_result = stmt.prepare_result
            /\ stmt'.execute_result = New
        BY <2>1, <2>2, <3>1, <4>1 DEF Stmts
      <4> QED BY <4>2, <4>3
    <3> QED BY <1>2, <3>2, <3>3
  <2>4. /\ heap' \in Heaps /\ heap'.live \subseteq heap.live \cup {New}
        /\ heap'.fault \in {"none", "double_free"} /\ (heap'.fault # "none" => stolen)
        /\ heap'.fault = "none" =>
             /\ ExactList(heap')
             /\ heap'.live = (heap.live \ {stmt.execute_result})
                             \cup (IF code = "LOST_CONNECTION" THEN {} ELSE {New})
    BY <2>1, <2>3, ExecuteHeapFields
  <2>5. losses' \in 0..MaxLosses /\ connected' \in BOOLEAN
    <3>1. \E c \in Answers : Lost(c)
      BY <1>2 DEF ExecuteFails, Executed, Answers
    <3> QED BY <3>1, LostType DEF StatementInvariant, StatementTypeOK
  <2>6. info' \in Infos /\ reading' \in Readings /\ sent' \in Nat /\ RowsCounted'
    <3>1. CASE ExecuteFails
      <4>1. info' = NoInfo /\ sent' = 0 /\ reading' = Nothing
        BY <2>1, <3>1 DEF ExecuteFails
      <4> QED BY <2>1, <2>2, <4>1 DEF RowsCounted, NoInfo, Infos, Nothing, Readings
    <3>2. CASE Executed
      <4>1. PICK c \in {"OK", "LOST_CONNECTION"}, columns \in 0..1, n \in 0..MaxRows :
              /\ columns = 0 => n = 0
              /\ info' = [NoInfo EXCEPT !.columns = columns]
              /\ stmt'.state = "EXECUTED" /\ stmt'.execute_result = New
              /\ reading' = IF columns > 0 /\ c = "OK" THEN [result |-> New, left |-> n]
                            ELSE Nothing
              /\ sent' = n
        <5>1. stmt \in Stmts
          BY DEF StatementInvariant, StatementTypeOK
        <5> QED BY <3>2, <5>1 DEF Executed, Stmts
      <4>2. n \in Nat
        BY StatementAssumption
      <4>3. info' = [columns |-> columns, buffered |-> FALSE, row_count |-> 0, row_current |-> 0]
        BY <4>1 DEF NoInfo
      <4>4. info' \in Infos /\ reading' \in Readings /\ sent' \in Nat
        <5>1. columns \in 0..1 /\ 0 \in Nat /\ FALSE \in BOOLEAN
          OBVIOUS
        <5>2. info' \in Infos
          BY <4>3, <5>1 DEF Infos
        <5>3. [result |-> New, left |-> n] \in Readings /\ Nothing \in Readings
          BY <2>2, <4>2 DEF Nothing, Readings
        <5> QED BY <4>1, <4>2, <5>2, <5>3
      <4>5. RowsCounted'
        BY <2>1, <2>2, <4>1, <4>2, <4>3 DEF RowsCounted, R, Nothing
      <4> QED BY <4>4, <4>5
    <3> QED BY <1>2, <3>1, <3>2
  <2>7. StatementTypeOK'
    BY <2>1, <2>2, <2>3, <2>4, <2>5, <2>6 DEF StatementInvariant, StatementTypeOK
  <2>8. NumbersNew'
    BY <2>1, <2>2, <2>3, <2>4 DEF NumbersNew
  <2>9. StatementKept'
    BY <2>1, <2>3 DEF StatementInvariant, StatementKept
  <2>10. ResultListExact' /\ ResultsFreedOnce' /\ BufferedFetchGivesAll'
    BY <2>1, <2>4 DEF ResultListExact, ResultsFreedOnce, BufferedFetchGivesAll
  <2>11. OwnersApart'
    BY <2>1, <2>2, <2>3, <2>4 DEF StatementInvariant, StatementKept, OwnersApart
  <2> QED
    BY <2>6, <2>7, <2>8, <2>9, <2>10, <2>11 DEF StatementInvariant
<1> QED BY <1>1, <1>2 DEF drizzle_stmt_execute

(* Freeing the place of the fetched values spoils the heap or leaves it    *)
(* as it was.                                                              *)
LEMMA FreedFields ==
  ASSUME NEW h \in Heaps
  PROVE  /\ Freed(h) \in Heaps /\ Freed(h).live = h.live
         /\ Freed(h).fault \in {h.fault, "params_freed_twice"}
         /\ h.fault # "none" \/ Freed(h).fault = "none" => Freed(h) = h
<1>1. CASE Freed(h) = h
  BY <1>1
<1>2. CASE h.fault = "none" /\ Freed(h) = [h EXCEPT !.fault = "params_freed_twice"]
  BY <1>2 DEF Heaps, Faults
<1> QED BY <1>1, <1>2 DEF Freed, Faulty

(* The statement gives up the result of its execution and keeps the one of *)
(* its preparation.                                                        *)
LEMMA ResetStep ==
  ASSUME StatementInvariant, heap.fault = "none", UNCHANGED freeing, ~freeing,
         drizzle_stmt_reset, last' = "none"
  PROVE  StatementInvariant'
<1> DEFINE g == drizzle_result_free(heap, stmt.execute_result)
<1>1. /\ heap' = Freed(g) /\ stmt' = ResetStmt /\ info' = NoInfo /\ stmt.exists
      /\ reading = Nothing
      /\ UNCHANGED <<made, held, reading, fetched, sent, stolen, freeing>>
  BY DEF drizzle_stmt_reset, Quiet
<1>2. heap \in Heaps /\ ExactList(heap) /\ stmt.execute_result \in Pointers /\ stmt \in Stmts
  BY DEF StatementInvariant, StatementTypeOK, ResultListExact, Stmts
<1>3. /\ g \in Heaps /\ g.live = heap.live \ {stmt.execute_result}
      /\ g.fault = IF stmt.execute_result # 0 /\ stmt.execute_result \notin heap.live
                   THEN "double_free" ELSE "none"
      /\ stmt.execute_result = 0 => g = heap
  BY <1>2, FreeFields
<1>4. g.fault = "none" => ExactList(g)
  BY <1>2, <1>3, FreeExact
<1>5. g.fault # "none" => stolen
  BY <1>3 DEF StatementInvariant, OwnersApart
<1> HIDE DEF g
<1>6. /\ heap' \in Heaps /\ heap'.live = heap.live \ {stmt.execute_result}
      /\ heap'.fault \in {g.fault, "params_freed_twice"}
      /\ heap'.fault = "none" => heap' = g
  BY <1>1, <1>3, FreedFields
<1>7. /\ stmt' \in Stmts /\ stmt'.exists /\ stmt'.execute_result = 0
      /\ stmt'.prepare_result = stmt.prepare_result
  <2>1. 0 \in Pointers
    BY ResultsAssumption DEF Pointers
  <2> QED BY <1>1, <1>2, <2>1 DEF ResetStmt, Stmts
<1>8. StatementTypeOK'
  <2>1. losses' \in 0..MaxLosses /\ connected' \in BOOLEAN
    <3>1. \E c \in Answers : Lost(c)
      BY DEF drizzle_stmt_reset, Answers
    <3> QED BY <3>1, LostType DEF StatementInvariant, StatementTypeOK
  <2>2. info' \in Infos
    BY <1>1 DEF NoInfo, Infos
  <2> QED BY <1>1, <1>6, <1>7, <2>1, <2>2 DEF StatementInvariant, StatementTypeOK
<1>9. NumbersNew'
  <2>1. 0 <= made
    BY DEF StatementInvariant, StatementTypeOK
  <2> QED BY <1>1, <1>6, <1>7, <2>1 DEF StatementInvariant, NumbersNew
<1>10. StatementKept' /\ RowsCounted'
  BY <1>1, <1>7 DEF StatementInvariant, StatementKept, RowsCounted, R, NoInfo
<1>11. ResultListExact' /\ ResultsFreedOnce' /\ BufferedFetchGivesAll'
  BY <1>1, <1>4, <1>5, <1>6 DEF ResultListExact, ResultsFreedOnce, BufferedFetchGivesAll
<1>12. OwnersApart'
  <2>1. 0 \notin held
    BY LiveFinite DEF StatementInvariant, StatementTypeOK
  <2> QED BY <1>1, <1>6, <1>7, <2>1 DEF StatementInvariant, StatementKept, OwnersApart
<1> QED
  BY <1>8, <1>9, <1>10, <1>11, <1>12 DEF StatementInvariant

(* Both results of the statement are freed; what the application holds is  *)
(* neither of them.                                                        *)
LEMMA CloseStep ==
  ASSUME StatementInvariant, heap.fault = "none", UNCHANGED freeing, ~freeing,
         drizzle_stmt_close, last' = "none"
  PROVE  StatementInvariant'
<1> DEFINE e == IF R = 0 THEN heap ELSE drizzle_result_free(Freed(heap), R)
           P == stmt.prepare_result
<1>1. /\ heap' = drizzle_result_free(e, P) /\ stmt' = NoStmt /\ info' = NoInfo /\ stmt.exists
      /\ reading = Nothing
      /\ UNCHANGED <<made, held, reading, fetched, sent, stolen, freeing>>
  BY DEF drizzle_stmt_close, Quiet
<1>2. /\ heap \in Heaps /\ ExactList(heap) /\ R \in Pointers /\ P \in Pointers
      /\ P # 0
  BY <1>1 DEF StatementInvariant, StatementTypeOK, StatementKept, ResultListExact, Stmts, R
<1>3. /\ e \in Heaps /\ e.live \subseteq heap.live
      /\ e.fault \in {"none", "double_free", "params_freed_twice"}
      /\ e.fault = "double_free" => R # 0 /\ R \notin heap.live
      /\ e.fault = "none" => ExactList(e) /\ e.live = heap.live \ {R}
  <2>1. CASE R = 0
    <3>1. e = heap /\ R \notin heap.live
      BY <1>2, <2>1, LiveFinite
    <3> QED BY <1>2, <3>1
  <2>2. CASE R # 0
    <3> DEFINE f == Freed(heap)
    <3>1. /\ f \in Heaps /\ f.live = heap.live /\ f.fault \in {"none", "params_freed_twice"}
          /\ f.fault = "none" => f = heap
      BY <1>2, FreedFields
    <3>2. e = drizzle_result_free(f, R)
      BY <2>2
    <3> HIDE DEF f, e
    <3>3. /\ e \in Heaps /\ e.live = heap.live \ {R}
          /\ e.fault = IF f.fault = "none" /\ R \notin heap.live THEN "double_free" ELSE f.fault
      BY <1>2, <2>2, <3>1, <3>2, FreeFields
    <3>4. ASSUME e.fault = "none" PROVE ExactList(e)
      <4>1. R \in heap.live /\ f = heap
        BY <3>1, <3>3, <3>4
      <4> QED BY <1>2, <3>2, <4>1, FreeExact
    <3> QED BY <2>2, <3>1, <3>3, <3>4
  <2> QED BY <2>1, <2>2
<1> HIDE DEF e
<1>4. /\ heap' \in Heaps /\ heap'.live = e.live \ {P}
      /\ heap'.fault = IF e.fault = "none" /\ P \notin e.live THEN "double_free" ELSE e.fault
  BY <1>1, <1>2, <1>3, FreeFields
<1>5. ASSUME heap'.fault = "none" PROVE ExactList(heap') /\ heap'.live = (heap.live \ {R}) \ {P}
  <2>1. e.fault = "none" /\ P \in e.live
    BY <1>4, <1>5
  <2> QED BY <1>1, <1>3, <1>4, <2>1, FreeExact
<1>6. ASSUME heap'.fault \in {"double_free", "freed_memory"} PROVE stolen
  <2>1. (R # 0 /\ R \notin heap.live) \/ P \notin heap.live \ {R}
    BY <1>3, <1>4, <1>6
  <2> QED BY <1>1, <1>2, <2>1 DEF StatementInvariant, OwnersApart, R
<1>7. StatementTypeOK'
  <2>1. losses' \in 0..MaxLosses /\ connected' \in BOOLEAN
    <3>1. \E c \in Answers : Lost(c)
      BY DEF drizzle_stmt_close, Answers
    <3> QED BY <3>1, LostType DEF StatementInvariant, StatementTypeOK
  <2>2. info' \in Infos
    BY <1>1 DEF NoInfo, Infos
  <2>3. stmt' \in Stmts
    <3>1. 0 \in Pointers
      BY ResultsAssumption DEF Pointers
    <3> QED BY <1>1, <3>1 DEF NoStmt, Stmts
  <2> QED BY <1>1, <1>4, <2>1, <2>2, <2>3 DEF StatementInvariant, StatementTypeOK
<1>8. NumbersNew'
  <2>1. 0 <= made
    BY DEF StatementInvariant, StatementTypeOK
  <2> QED BY <1>1, <1>3, <1>4, <2>1 DEF StatementInvariant, NumbersNew, NoStmt
<1>9. StatementKept' /\ RowsCounted'
  BY <1>1 DEF StatementInvariant, StatementKept, RowsCounted, R, NoInfo, NoStmt
<1>10. ResultListExact' /\ ResultsFreedOnce' /\ BufferedFetchGivesAll'
  BY <1>1, <1>5, <1>6 DEF ResultListExact, ResultsFreedOnce, BufferedFetchGivesAll
<1>11. OwnersApart'
  <2>1. 0 \notin held
    BY LiveFinite DEF StatementInvariant, StatementTypeOK
  <2> QED BY <1>1, <1>5, <2>1 DEF StatementInvariant, OwnersApart, NoStmt, R
<1> QED
  BY <1>7, <1>8, <1>9, <1>10, <1>11 DEF StatementInvariant

(* A fetch changes the rows counted, the state FETCHED, or the fault.      *)
LEMMA FetchStep ==
  ASSUME StatementInvariant, heap.fault = "none", UNCHANGED freeing, ~freeing,
         drizzle_stmt_fetch
  PROVE  StatementInvariant'
<1>1. stmt.exists /\ UNCHANGED <<made, held, sent, stolen, freeing>>
  BY DEF drizzle_stmt_fetch
<1>2. /\ heap \in Heaps /\ ExactList(heap) /\ stmt \in Stmts /\ info \in Infos
      /\ reading \in Readings /\ fetched \in Nat /\ sent \in Nat /\ R \in Pointers
      /\ losses \in 0..MaxLosses /\ connected \in BOOLEAN
      /\ last \in {"none", "OK", "ROW_END", "UNEXPECTED_DATA"}
  BY DEF StatementInvariant, StatementTypeOK, ResultListExact, Stmts, R
<1> DEFINE Counts ==
      /\ info' \in Infos /\ reading' \in Readings /\ fetched' \in Nat
      /\ losses' \in 0..MaxLosses /\ connected' \in BOOLEAN
      /\ last' \in {"none", "OK", "ROW_END", "UNEXPECTED_DATA"}
      /\ stmt' = stmt \/ stmt' = [stmt EXCEPT !.state = "FETCHED"]
      /\ RowsCounted' /\ BufferedFetchGivesAll'
           Misused == \E what \in {"null_pointer", "freed_memory"} :
                        /\ heap' = Faulty(heap, what)
                        /\ what = "freed_memory" => R # 0 /\ R \notin heap.live
<1>3. ASSUME Counts, heap' = heap \/ Misused
      PROVE  StatementInvariant'
  <2>1. /\ heap' \in Heaps /\ heap'.live = heap.live
        /\ heap' = heap \/ heap'.fault = "null_pointer"
           \/ (heap'.fault = "freed_memory" /\ R # 0 /\ R \notin heap.live)
    BY <1>2, <1>3 DEF Faulty, Heaps, Faults
  <2>2. /\ stmt' \in Stmts /\ stmt'.exists /\ stmt'.prepare_result = stmt.prepare_result
        /\ stmt'.execute_result = stmt.execute_result
    BY <1>1, <1>2, <1>3 DEF Stmts
  <2>3. StatementTypeOK' /\ NumbersNew'
    BY <1>1, <1>3, <2>1, <2>2 DEF StatementInvariant, StatementTypeOK, NumbersNew
  <2>4. StatementKept'
    BY <1>1, <2>2 DEF StatementInvariant, StatementKept
  <2>5. ResultListExact'
    BY <1>2, <2>1 DEF ResultListExact
  <2>6. ResultsFreedOnce'
    BY <1>1, <2>1 DEF StatementInvariant, ResultsFreedOnce, OwnersApart, R
  <2>7. OwnersApart'
    BY <1>1, <2>1, <2>2 DEF StatementInvariant, OwnersApart
  <2> QED
    BY <1>3, <2>3, <2>4, <2>5, <2>6, <2>7 DEF StatementInvariant
<1>4. ASSUME stmt' = stmt \/ stmt' = [stmt EXCEPT !.state = "FETCHED"]
      PROVE  /\ R' = R /\ (stmt'.state = stmt.state \/ stmt'.state = "FETCHED")
  BY <1>2, <1>4 DEF Stmts, R
<1>5. /\ R = 0 => ~info.buffered
      /\ R # 0 /\ info.columns = 0 =>
           fetched = 0 /\ sent = 0 /\ info.row_count = 0 /\ info.row_current = 0
      /\ reading # Nothing =>
           /\ R # 0 /\ reading.result = R /\ info.columns # 0 /\ ~info.buffered
           /\ fetched + reading.left = sent
           /\ stmt.state \in {"EXECUTED", "FETCHED"}
           /\ stmt.state = "EXECUTED" => fetched = 0
      /\ info.buffered =>
           /\ info.row_count = sent /\ info.row_current = fetched
           /\ info.row_current <= info.row_count
      /\ last = "ROW_END" /\ info.buffered => fetched = sent
  BY DEF StatementInvariant, RowsCounted, BufferedFetchGivesAll
<1>6. CASE FetchUnexecuted
  <2>1. /\ last' = "UNEXPECTED_DATA" /\ losses' = losses /\ connected' = connected
        /\ UNCHANGED <<heap, info, stmt, reading, fetched>>
    BY <1>6 DEF FetchUnexecuted, connection
  <2>2. Counts
    BY <1>1, <1>2, <1>5, <2>1 DEF RowsCounted, BufferedFetchGivesAll, R
  <2> QED BY <1>3, <2>1, <2>2
<1>7. CASE FetchWithoutResult \/ FetchFreedResult
  <2>1. /\ last' = last /\ losses' = losses /\ connected' = connected
        /\ UNCHANGED <<info, stmt, reading, fetched>>
    BY <1>7 DEF FetchWithoutResult, FetchFreedResult, connection
  <2>2. Misused
    BY <1>7 DEF FetchWithoutResult, FetchFreedResult
  <2>3. Counts
    BY <1>1, <1>2, <1>5, <2>1 DEF RowsCounted, BufferedFetchGivesAll, R
  <2> QED BY <1>3, <2>2, <2>3
<1>8. CASE R \in heap.live /\ FetchBuffered
  <2>1. /\ info.buffered /\ heap' = heap /\ reading' = reading
        /\ losses' = losses /\ connected' = connected
    BY <1>8 DEF FetchBuffered, connection
  <2>2. R # 0 /\ reading = Nothing
    BY <1>2, <1>5, <2>1
  <2>3. CASE /\ ~AllShown /\ GotRow
             /\ info' = [info EXCEPT !.row_current = @ + 1]
    <3>1. /\ info' \in Infos /\ info'.columns = info.columns /\ info'.buffered
          /\ info'.row_count = info.row_count /\ info'.row_current = info.row_current + 1
          /\ fetched' = fetched + 1 /\ last' = "OK" /\ info.row_current # info.row_count
          /\ info.row_count \in Nat /\ info.row_current \in Nat
          /\ stmt' = [stmt EXCEPT !.state = "FETCHED"]
      BY <1>2, <2>1, <2>3 DEF Infos, GotRow, AllShown
    <3>2. Counts
      BY <1>1, <1>2, <1>4, <1>5, <2>1, <2>2, <3>1 DEF RowsCounted, BufferedFetchGivesAll
    <3> QED BY <1>3, <2>1, <3>2
  <2>4. CASE AllShown /\ NoRow /\ UNCHANGED info
    <3>1. /\ info.row_current = info.row_count /\ last' = "ROW_END"
          /\ stmt' = stmt /\ fetched' = fetched /\ info' = info
      BY <2>4 DEF AllShown, NoRow
    <3>2. Counts
      BY <1>1, <1>2, <1>4, <1>5, <2>1, <2>2, <3>1 DEF RowsCounted, BufferedFetchGivesAll
    <3> QED BY <1>3, <2>1, <3>2
  <2> QED BY <1>8, <2>3, <2>4 DEF FetchBuffered
<1>9. CASE R \in heap.live /\ FetchUnbuffered
  <2>1. ~info.buffered /\ heap' = heap /\ R # 0
    BY <1>2, <1>9, LiveFinite DEF FetchUnbuffered
  <2>2. reading = Nothing \/ reading.result = R
    BY <1>5
  <2>3. CASE reading.result = R /\ FetchRow
    <3>1. /\ reading.left \in Nat /\ reading.left > 0 /\ reading # Nothing
          /\ reading'.result = R /\ reading'.left = reading.left - 1 /\ reading' \in Readings
      <4>1. reading' = [reading EXCEPT !.left = @ - 1] /\ reading.left > 0
        BY <2>3 DEF FetchRow
      <4> QED BY <1>2, <2>1, <2>3, <4>1 DEF Readings, Nothing
    <3>2. /\ info' \in Infos /\ info'.columns = info.columns /\ info'.buffered = info.buffered
          /\ fetched' = fetched + 1 /\ last' = "OK"
          /\ stmt' = [stmt EXCEPT !.state = "FETCHED"] /\ stmt'.state = "FETCHED"
          /\ losses' = losses /\ connected' = connected
      <4>1. /\ info' = [info EXCEPT !.row_count = @ + 1, !.row_current = @ + 1]
            /\ stmt' = [stmt EXCEPT !.state = "FETCHED"]
            /\ fetched' = fetched + 1 /\ last' = "OK"
            /\ losses' = losses /\ connected' = connected
        BY <2>3 DEF FetchRow, GotRow, connection
      <4>2. /\ info' \in Infos /\ info'.columns = info.columns
            /\ info'.buffered = info.buffered
        <5>1. info.row_count + 1 \in Nat /\ info.row_current + 1 \in Nat
          BY <1>2 DEF Infos
        <5>2. info' = [columns |-> info.columns, buffered |-> info.buffered,
                       row_count |-> info.row_count + 1, row_current |-> info.row_current + 1]
          BY <1>2, <4>1 DEF Infos
        <5> QED BY <1>2, <5>1, <5>2 DEF Infos
      <4>3. stmt'.state = "FETCHED"
        BY <1>2, <4>1 DEF Stmts
      <4> QED BY <4>1, <4>2, <4>3
    <3>3. Counts
      BY <1>1, <1>2, <1>4, <1>5, <2>1, <3>1, <3>2 DEF RowsCounted, BufferedFetchGivesAll
    <3> QED BY <1>3, <2>1, <3>3
  <2>4. CASE \/ reading.result = R /\ (FetchEof \/ FetchFails)
             \/ FetchTooLate
    <3>1. /\ reading' = Nothing /\ last' = "ROW_END" /\ stmt' = stmt /\ fetched' = fetched
          /\ info' = info \/ (reading # Nothing /\ info' = [info EXCEPT !.row_current = 0])
      BY <2>1, <2>4 DEF FetchEof, FetchFails, FetchTooLate, NoRow, Nothing
    <3>2. losses' \in 0..MaxLosses /\ connected' \in BOOLEAN
      <4>1. (\E code \in Answers : Lost(code)) \/ (losses' = losses /\ connected' = connected)
        BY <2>4 DEF FetchEof, FetchFails, FetchTooLate, connection
      <4> QED BY <1>2, <4>1, LostType
    <3>3. /\ info' \in Infos /\ info'.columns = info.columns /\ ~info'.buffered
          /\ info'.row_count = info.row_count
          /\ info'.row_current = info.row_current \/ reading # Nothing
      BY <1>2, <2>1, <3>1 DEF Infos
    <3>4. Nothing \in Readings
      BY <1>2, ResultsAssumption DEF Nothing, Readings, Pointers
    <3>5. Counts
      BY <1>1, <1>2, <1>4, <1>5, <2>1, <3>1, <3>2, <3>3, <3>4
         DEF RowsCounted, BufferedFetchGivesAll
    <3> QED BY <1>3, <2>1, <3>5
  <2> QED BY <1>9, <2>3, <2>4 DEF FetchUnbuffered
<1> QED BY <1>6, <1>7, <1>8, <1>9 DEF drizzle_stmt_fetch

(* Buffering reads all the rows still to come, or gives them up.           *)
LEMMA BufferStep ==
  ASSUME StatementInvariant, heap.fault = "none", UNCHANGED freeing, ~freeing,
         drizzle_stmt_buffer, last' = "none"
  PROVE  StatementInvariant'
<1>1. stmt.exists /\ UNCHANGED <<made, held, fetched, sent, stolen, freeing>>
  BY DEF drizzle_stmt_buffer
<1>2. /\ heap \in Heaps /\ ExactList(heap) /\ stmt \in Stmts /\ info \in Infos
      /\ reading \in Readings /\ fetched \in Nat /\ sent \in Nat /\ R \in Pointers
      /\ losses \in 0..MaxLosses /\ connected \in BOOLEAN /\ Nothing \in Readings
  <2>1. Nothing \in Readings
    BY ResultsAssumption DEF Nothing, Readings, Pointers
  <2> QED BY <2>1 DEF StatementInvariant, StatementTypeOK, ResultListExact, Stmts, R
<1> DEFINE Counts ==
      /\ info' \in Infos /\ reading' \in Readings
      /\ losses' \in 0..MaxLosses /\ connected' \in BOOLEAN
      /\ stmt' = stmt \/ stmt' = [stmt EXCEPT !.state = "FETCHED"]
      /\ RowsCounted'
           Misused == R # 0 /\ R \notin heap.live /\ heap' = Faulty(heap, "freed_memory")
<1>3. ASSUME Counts, heap' = heap \/ Misused
      PROVE  StatementInvariant'
  <2>1. /\ heap' \in Heaps /\ heap'.live = heap.live
        /\ heap' = heap \/ (heap'.fault = "freed_memory" /\ R # 0 /\ R \notin heap.live)
    BY <1>2, <1>3 DEF Faulty, Heaps, Faults
  <2>2. /\ stmt' \in Stmts /\ stmt'.exists /\ stmt'.prepare_result = stmt.prepare_result
        /\ stmt'.execute_result = stmt.execute_result
    BY <1>1, <1>2, <1>3 DEF Stmts
  <2>3. StatementTypeOK' /\ NumbersNew'
    BY <1>1, <1>3, <2>1, <2>2 DEF StatementInvariant, StatementTypeOK, NumbersNew
  <2>4. StatementKept'
    BY <1>1, <2>2 DEF StatementInvariant, StatementKept
  <2>5. ResultListExact' /\ BufferedFetchGivesAll'
    BY <1>2, <2>1 DEF ResultListExact, BufferedFetchGivesAll
  <2>6. ResultsFreedOnce'
    BY <1>1, <2>1 DEF StatementInvariant, ResultsFreedOnce, OwnersApart, R
  <2>7. OwnersApart'
    BY <1>1, <2>1, <2>2 DEF StatementInvariant, OwnersApart
  <2> QED
    BY <1>3, <2>3, <2>4, <2>5, <2>6, <2>7 DEF StatementInvariant
<1>4. ASSUME stmt' = stmt \/ stmt' = [stmt EXCEPT !.state = "FETCHED"]
      PROVE  R' = R /\ (stmt'.state = stmt.state \/ stmt'.state = "FETCHED")
  BY <1>2, <1>4 DEF Stmts, R
<1>5. /\ R = 0 => ~info.buffered
      /\ R # 0 /\ info.columns = 0 =>
           fetched = 0 /\ sent = 0 /\ info.row_count = 0 /\ info.row_current = 0
      /\ reading # Nothing =>
           /\ R # 0 /\ reading.result = R /\ info.columns # 0 /\ ~info.buffered
           /\ fetched + reading.left = sent
           /\ stmt.state \in {"EXECUTED", "FETCHED"}
           /\ stmt.state = "EXECUTED" => fetched = 0
      /\ info.buffered =>
           /\ info.row_count = sent /\ info.row_current = fetched
           /\ info.row_current <= info.row_count
  BY DEF StatementInvariant, RowsCounted
<1>6. CASE BufferTwice \/ BufferWithoutResult \/ BufferFreedResult
  <2>1. /\ info' = info /\ reading' = reading
        /\ losses' = losses /\ connected' = connected
        /\ heap' = heap \/ Misused
        /\ stmt' = stmt \/ stmt' = [stmt EXCEPT !.state = "FETCHED"]
    BY <1>6 DEF BufferTwice, BufferWithoutResult, BufferFreedResult, connection
  <2>2. stmt'.state = "EXECUTED" => stmt.state = "EXECUTED"
    BY <1>4, <2>1
  <2>3. Counts
    BY <1>1, <1>2, <1>4, <1>5, <2>1, <2>2 DEF RowsCounted
  <2> QED BY <1>3, <2>1, <2>3
<1>7. CASE /\ stmt.state # "FETCHED" /\ R \in heap.live
           /\ stmt' = [stmt EXCEPT !.state = "FETCHED"] /\ heap' = heap
           /\ BufferAll \/ BufferFails
  <2>1. R # 0 /\ reading' = Nothing
    BY <1>2, <1>7, LiveFinite DEF BufferAll, BufferFails
  <2>2. losses' \in 0..MaxLosses /\ connected' \in BOOLEAN
    <3>1. (\E code \in Answers : Lost(code)) \/ (losses' = losses /\ connected' = connected)
      BY <1>7 DEF BufferAll, BufferFails, connection
    <3> QED BY <1>2, <3>1, LostType
  <2>3. CASE reading.result = R /\ info' = Buffered(reading.left)
    <3>1. /\ fetched = 0 /\ reading.left = sent /\ info.columns # 0
      <4>1. reading # Nothing
        BY <2>1, <2>3 DEF Nothing
      <4>2. fetched = 0
        BY <1>5, <1>7, <4>1
      <4>3. reading.left \in Nat
        BY <1>2 DEF Readings
      <4> QED BY <1>2, <1>5, <4>1, <4>2, <4>3
    <3>2. /\ info' \in Infos /\ info'.columns = info.columns /\ info'.row_count = sent
          /\ info'.row_current = 0
      BY <1>2, <2>3, <3>1 DEF Buffered, Infos
    <3>3. Counts
      BY <1>1, <1>2, <1>4, <1>7, <2>1, <2>2, <3>1, <3>2 DEF RowsCounted
    <3> QED BY <1>3, <1>7, <3>3
  <2>4. CASE info.columns = 0 /\ info' = [info EXCEPT !.buffered = TRUE]
    <3>1. /\ info' \in Infos /\ info'.columns = 0 /\ info'.row_count = info.row_count
          /\ info'.row_current = info.row_current
      BY <1>2, <2>4 DEF Infos
    <3>2. Counts
      BY <1>1, <1>2, <1>4, <1>5, <1>7, <2>1, <2>2, <2>4, <3>1 DEF RowsCounted
    <3> QED BY <1>3, <1>7, <3>2
  <2>5. CASE BufferFails
    <3>1. \/ info' = info
          \/ /\ reading # Nothing
             /\ \E k \in 0..reading.left :
                  info' = [info EXCEPT !.row_count = k, !.row_current = k]
      <4>1. CASE /\ reading.result = R
                 /\ \E code \in Answers \ {"OK"}, k \in 0..reading.left :
                      /\ Lost(code)
                      /\ info' = [info EXCEPT !.row_count = k, !.row_current = k]
        <5>1. reading # Nothing
          BY <2>1, <4>1 DEF Nothing
        <5> QED BY <4>1, <5>1
      <4>2. CASE info' = info
        BY <4>2
      <4> QED BY <2>5, <4>1, <4>2 DEF BufferFails
    <3>2. /\ info' \in Infos /\ info'.columns = info.columns /\ info'.columns # 0
          /\ info'.buffered = info.buffered
          /\ info' = info \/ ~info'.buffered
      <4> info.columns # 0
        <5>1. info.columns > 0
          BY <2>5 DEF BufferFails
        <5> QED BY <5>1
      <4>1. CASE info' = info
        BY <1>2, <4>1
      <4>2. CASE info' # info
        <5>1. PICK k \in 0..reading.left :
                info' = [info EXCEPT !.row_count = k, !.row_current = k]
          BY <3>1, <4>2
        <5>2. k \in Nat
          BY <1>2 DEF Readings
        <5>3. reading # Nothing
          BY <3>1, <4>2
        <5> QED BY <1>2, <1>5, <5>1, <5>2, <5>3 DEF Infos
      <4> QED BY <4>1, <4>2
    <3>3. Counts
      BY <1>1, <1>2, <1>4, <1>5, <1>7, <2>1, <2>2, <3>2 DEF RowsCounted
    <3> QED BY <1>3, <1>7, <3>3
  <2> QED BY <1>7, <2>3, <2>4, <2>5 DEF BufferAll
<1> QED BY <1>6, <1>7 DEF drizzle_stmt_buffer

----------------------------------------------------------------------------
(* The theorems.                                                           *)

(* Each call keeps the invariant, by the lemma of its action.              *)
LEMMA NextInvariant == StatementInvariant /\ [Next]_vars => StatementInvariant'
<1> SUFFICES ASSUME StatementInvariant, [Next]_vars PROVE StatementInvariant'
  OBVIOUS
<1>1. CASE Next
  BY <1>1, FreeAllStep, FreeFirstStep, FetchStep, QueryStep, FreeHeldStep, PrepareStep,
     SetParamStep, ExecuteStep, ResetStep, BufferStep, CloseStep DEF Next
<1>2. CASE UNCHANGED vars
  <2>1. /\ UNCHANGED <<heap, made, info, held, stmt, reading, fetched, sent, freeing>>
        /\ UNCHANGED <<losses, connected, stolen, last>>
    BY <1>2 DEF vars, connection
  <2>2. StatementTypeOK' /\ NumbersNew'
    BY <2>1 DEF StatementInvariant, StatementTypeOK, NumbersNew
  <2>3. StatementKept' /\ RowsCounted'
    BY <2>1 DEF StatementInvariant, StatementKept, RowsCounted, R
  <2>4. ResultListExact' /\ ResultsFreedOnce' /\ BufferedFetchGivesAll'
    BY <2>1 DEF StatementInvariant, ResultListExact, ResultsFreedOnce, BufferedFetchGivesAll
  <2>5. OwnersApart'
    BY <2>1 DEF StatementInvariant, OwnersApart
  <2> QED
    BY <2>2, <2>3, <2>4, <2>5 DEF StatementInvariant
<1> QED BY <1>1, <1>2

(* In every behaviour of the calls on a statement and on the results of    *)
(* its connection, the invariant holds.                                    *)
THEOREM StatementIsInvariant == Spec => []StatementInvariant
BY InitInvariant, NextInvariant, PTL DEF Spec

(* The variables keep their types: every pointer is to a result that can   *)
(* be, whatever calls succeed, fail or find freed memory.                  *)
THEOREM StatementTypeCorrect == Spec => []StatementTypeOK
<1>1. StatementInvariant => StatementTypeOK
  BY DEF StatementInvariant
<1> QED BY <1>1, StatementIsInvariant, PTL

(* The list of results is exactly the results not freed, newest first,     *)
(* linked both ways and counted, however many results are made, and in     *)
(* whatever order they are freed (result.cc).                              *)
THEOREM ResultListAlwaysExact == Spec => []ResultListExact
<1>1. StatementInvariant => ResultListExact
  BY DEF StatementInvariant
<1> QED BY <1>1, StatementIsInvariant, PTL

(* No result is freed twice or used after it was freed, unless             *)
(* drizzle_result_free_all took it from its statement.                     *)
THEOREM FreedOnce == Spec => []ResultsFreedOnce
<1>1. StatementInvariant => ResultsFreedOnce
  BY DEF StatementInvariant
<1> QED BY <1>1, StatementIsInvariant, PTL

(* The results of the application and those of its statement are allocated *)
(* and no two of them the same.                                            *)
THEOREM OwnersAlwaysApart == Spec => []OwnersApart
<1>1. StatementInvariant => OwnersApart
  BY DEF StatementInvariant
<1> QED BY <1>1, StatementIsInvariant, PTL

(* However many rows the server had: once they are buffered, fetching      *)
(* gives all of them before it says that there are no more.                *)
THEOREM BufferedFetchComplete == Spec => []BufferedFetchGivesAll
<1>1. StatementInvariant => BufferedFetchGivesAll
  BY DEF StatementInvariant
<1> QED BY <1>1, StatementIsInvariant, PTL
===============================================================================
