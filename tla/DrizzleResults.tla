----------------------------- MODULE DrizzleResults -----------------------------
(***************************************************************************)
(* The results of a connection: a doubly linked list, newest first, that   *)
(* drizzle_result_create puts a result on and drizzle_result_free takes it *)
(* off, wherever it is.  The heap is a record and the functions of         *)
(* result.cc are operators on it, because one call of the library makes    *)
(* several of these steps.  Results are numbered in the order they are     *)
(* made and no number is used again, so that a stale pointer stays one;    *)
(* 0 is the NULL pointer.                                                  *)
(***************************************************************************)
EXTENDS Integers, FiniteSets

CONSTANT MaxResults          \* bound on the results ever made

ASSUME ResultsAssumption == MaxResults \in Nat

Results == 1..MaxResults

(* result_list and result_count of the connection; next and prev of each   *)
(* result; which results are allocated; what went wrong, "none" at first.  *)
EmptyHeap == [result_list |-> 0, result_count |-> 0,
              next |-> [r \in Results |-> 0], prev |-> [r \in Results |-> 0],
              live |-> {}, fault |-> "none"]

Faulty(h, what) ==
  IF h.fault = "none" THEN [h EXCEPT !.fault = what] ELSE h

drizzle_result_create(h, r) ==
  [h EXCEPT !.result_list = r,
            !.result_count = @ + 1,
            !.next[r] = h.result_list,
            !.prev = [q \in Results |-> IF q = r THEN 0
                                        ELSE IF q = h.result_list THEN r
                                        ELSE h.prev[q]],
            !.live = @ \cup {r}]

(* Mutant of drizzle_result_free: the next result keeps its back link.     *)
FreeOneWay(h, r) ==
  IF r = 0 THEN h
  ELSE IF r \notin h.live THEN Faulty(h, "double_free")
  ELSE [h EXCEPT !.result_count = @ - 1,
                 !.result_list = IF @ = r THEN h.next[r] ELSE @,
                 !.next = [q \in Results |->
                             IF q = h.prev[r] THEN h.next[r] ELSE h.next[q]],
                 !.live = @ \ {r}]

(* What the freed result itself had in next and prev is forgotten.         *)
drizzle_result_free(h, r) ==
  IF r = 0 THEN h
  ELSE IF r \notin h.live THEN Faulty(h, "double_free")
  ELSE [h EXCEPT !.result_count = @ - 1,
                 !.result_list = IF @ = r THEN h.next[r] ELSE @,
                 !.next = [q \in Results |->
                             CASE q = r -> 0
                               [] q = h.prev[r] -> h.next[r]
                               [] OTHER -> h.next[q]],
                 !.prev = [q \in Results |->
                             CASE q = r -> 0
                               [] q = h.next[r] -> h.prev[r]
                               [] OTHER -> h.prev[q]],
                 !.live = @ \ {r}]

(* Mutant of Command: a server's error frees the result, too.              *)
CommandFreesOnError(h, r, code) ==
  LET made == drizzle_result_create(h, r)
  IN IF code = "OK" THEN made ELSE drizzle_result_free(made, r)

(* drizzle_command_write, as far as results go: the new one is freed again *)
(* when the connection fails, and the caller gets back what it passed.  A  *)
(* connection that cannot be made anew first comes to the same.            *)
Command(h, r, code) ==
  LET made == drizzle_result_create(h, r)
  IN IF code \in {"OK", "ERROR_CODE"} THEN made ELSE drizzle_result_free(made, r)

(* One of a set of results is its newest or its oldest, and 0 stands for   *)
(* that of no results.                                                     *)
Newest(r, of) == IF of = {} THEN r = 0 ELSE r \in of /\ \A q \in of : q <= r
Oldest(r, of) == IF of = {} THEN r = 0 ELSE r \in of /\ \A q \in of : r <= q

(* The list begins with the newest of the allocated results, and goes from *)
(* each to the newest of the older ones, and back; so that whoever follows *)
(* it meets each of them once, as many as result_count says.               *)
ExactList(h) ==
  /\ h.result_count = Cardinality(h.live)
  /\ Newest(h.result_list, h.live)
  /\ \A r \in h.live : /\ Newest(h.next[r], {q \in h.live : q < r})
                       /\ Oldest(h.prev[r], {q \in h.live : q > r})
===============================================================================
