-------------------------- MODULE DrizzleValuesProofs --------------------------
(***************************************************************************)
(* Proofs about the values, for any width of a byte, any parameters and    *)
(* any columns: the request of drizzle_stmt_execute fits the memory that   *)
(* was added up for it, and what drizzle_stmt_fetch leaves in              *)
(* result_params is the row that the server sent, without regard to the    *)
(* rows before it.  The first half is about lengths only, the second about *)
(* the place of a value in a row that has none for NULLs.                  *)
(***************************************************************************)
EXTENDS DrizzleValues, SequenceTheorems, FiniteSetTheorems, WellFoundedInduction, TLAPS

----------------------------------------------------------------------------
(* Lists: sequences of whatever.                                           *)
IsList(s) == \E S : s \in Seq(S)

(* The length of a list is a number.                                       *)
LEMMA ListLength ==
  ASSUME NEW s, IsList(s)
  PROVE  Len(s) \in Nat
BY DEF IsList

(* Two lists put together are as long as both.                             *)
LEMMA ListsPut ==
  ASSUME NEW a, NEW b, IsList(a), IsList(b)
  PROVE  /\ IsList(a \o b) /\ Len(a \o b) = Len(a) + Len(b)
         /\ Len(a) \in Nat /\ Len(b) \in Nat
<1>1. PICK S : a \in Seq(S)
  BY DEF IsList
<1>2. PICK T : b \in Seq(T)
  BY DEF IsList
<1> DEFINE U == S \cup T
<1>3. \A i \in 1..Len(a) : a[i] \in U
  BY <1>1
<1>4. \A i \in 1..Len(b) : b[i] \in U
  BY <1>2
<1>5. a \in [1..Len(a) -> U] /\ b \in [1..Len(b) -> U] /\ Len(a) \in Nat /\ Len(b) \in Nat
  BY <1>1, <1>2, <1>3, <1>4
<1> HIDE DEF U
<1>6. a \in Seq(U) /\ b \in Seq(U)
  BY <1>5
<1>7. a \o b \in Seq(U) /\ Len(a \o b) = Len(a) + Len(b)
  BY <1>6
<1> QED BY <1>5, <1>7 DEF IsList

(* As many bytes are set as the width says.                                *)
LEMMA BytesSet ==
  ASSUME NEW n, NEW w \in Nat
  PROVE  IsList(SetBytes(n, w)) /\ Len(SetBytes(n, w)) = w
<1> DEFINE E == {(n \div Base^(i - 1)) % Base : i \in 1..w}
           s == [i \in 1..w |-> (n \div Base^(i - 1)) % Base]
<1>1. s \in [1..w -> E]
  <2>1. \A i \in 1..w : (n \div Base^(i - 1)) % Base \in E
    OBVIOUS
  <2> HIDE DEF E
  <2> QED BY <2>1, Zenon
<1>2. SetBytes(n, w) = s
  BY DEF SetBytes
<1> HIDE DEF E, s
<1>3. s \in Seq(E) /\ Len(s) = w
  BY <1>1
<1> QED BY <1>2, <1>3 DEF IsList

(* The lists that packing begins with.                                     *)
LEMMA Listed ==
  /\ IsList(<<>>)
  /\ \A x : IsList(<<x>>)
  /\ \A x, y : IsList(<<x, y>>)
  /\ \A x, y, z : IsList(<<x, y, z>>)
<1>1. <<>> \in Seq({})
  OBVIOUS
<1>2. \A x : <<x>> \in Seq({x})
  OBVIOUS
<1>3. \A x, y : <<x, y>> \in Seq({x, y})
  OBVIOUS
<1>4. \A x, y, z : <<x, y, z>> \in Seq({x, y, z})
  OBVIOUS
<1> QED BY <1>1, <1>2, <1>3, <1>4, Zenon DEF IsList

(* A packed time is a list.                                                *)
LEMMA TimesPacked ==
  ASSUME NEW t
  PROVE  IsList(drizzle_pack_time(t)) /\ IsList(drizzle_pack_datetime(t))
<1>1. \A a, b : IsList(a) /\ IsList(b) => IsList(a \o b)
  BY ListsPut
<1>2. \A n : IsList(SetBytes(n, 4)) /\ IsList(SetBytes(n, 2))
  BY BytesSet
<1>3. IsList(drizzle_pack_time(t))
  BY <1>1, <1>2, Listed, Zenon DEF drizzle_pack_time
<1>4. IsList(drizzle_pack_datetime(t))
  BY <1>1, <1>2, Listed, Zenon DEF drizzle_pack_datetime
<1> QED BY <1>3, <1>4

(* One byte in front of a list.                                            *)
LEMMA ByteInFront ==
  ASSUME NEW byte, NEW list, IsList(list), NEW m \in Nat, Len(list) <= m
  PROVE  IsList(<<byte>> \o list) /\ Len(<<byte>> \o list) <= m + 1
<1> DEFINE a == <<byte>>
           n == Len(a)
<1>1. IsList(a) /\ n <= 1
  BY Listed
<1> HIDE DEF a
<1>2. IsList(a \o list) /\ Len(a \o list) = n + Len(list) /\ n \in Nat /\ Len(list) \in Nat
  BY <1>1, ListsPut DEF n
<1> HIDE DEF n
<1> QED BY <1>1, <1>2 DEF a

(* A length is a byte, or one byte and two or three.                       *)
LEMMA LengthPacked ==
  ASSUME NEW n, n < Base^3
  PROVE  IsList(drizzle_pack_length(n)) /\ Len(drizzle_pack_length(n)) <= 4
<1>1. IsList(<<n>>) /\ Len(<<n>>) <= 4
  BY Listed
<1>2. IsList(SetBytes(n, 2)) /\ Len(SetBytes(n, 2)) <= 3
  BY BytesSet
<1>3. IsList(SetBytes(n, 3)) /\ Len(SetBytes(n, 3)) <= 3
  BY BytesSet
<1>4. /\ IsList(<<Short>> \o SetBytes(n, 2)) /\ Len(<<Short>> \o SetBytes(n, 2)) <= 4
      /\ IsList(<<Medium>> \o SetBytes(n, 3)) /\ Len(<<Medium>> \o SetBytes(n, 3)) <= 4
  <2>1. \A byte, list : IsList(list) /\ Len(list) <= 3
          => IsList(<<byte>> \o list) /\ Len(<<byte>> \o list) <= 3 + 1
    BY ByteInFront
  <2>2. 3 + 1 = 4
    OBVIOUS
  <2> QED BY <1>2, <1>3, <2>1, <2>2, Zenon
<1> QED BY <1>1, <1>4, Zenon DEF drizzle_pack_length

----------------------------------------------------------------------------
(* Counting up.                                                            *)

(* A set of numbers that has 0 and every successor is Nat.                 *)
LEMMA CountingUp ==
  ASSUME NEW S, S \subseteq Nat, 0 \in S, \A n \in S : n + 1 \in S
  PROVE  S = Nat
<1> DEFINE R == OpToRel(<, Nat)
           T == Nat \ S
<1>1. IsWellFoundedOn(R, Nat)
  BY NatLessThanWellFounded
<1>2. ASSUME T # {} PROVE FALSE
  <2> HIDE DEF T
  <2>1. PICK x \in T : \A y \in T : ~ (<<y, x>> \in R)
    <3>1. T \subseteq Nat
      BY DEF T
    <3> HIDE DEF R
    <3> QED BY <1>1, <1>2, <3>1, WFMin
  <2>2. x # 0 /\ x \in Nat
    BY DEF T
  <2>3. x - 1 \in T
    BY <2>2 DEF T
  <2>4. <<x - 1, x>> \in R
    BY <2>2, <2>3 DEF R, OpToRel
  <2> QED BY <2>1, <2>3, <2>4
<1> QED BY <1>2

(* The lists put together so far, as FlattenSeq goes along s.              *)
Runs(g, s, n) == g = [i \in 1..n |-> IF i = 1 THEN s[i] ELSE g[i-1] \o s[i]]

(* There is such a function, for any number of lists.                      *)
LEMMA RunExists ==
  ASSUME NEW s, NEW n \in Nat
  PROVE  \E g : Runs(g, s, n)
<1> DEFINE E == {m \in Nat : \E g : Runs(g, s, m)}
<1>1. 0 \in E
  <2> DEFINE g0 == [i \in 1..0 |-> s[i]]
  <2>1. 1..0 = {}
    OBVIOUS
  <2>2. Runs(g0, s, 0)
    BY <2>1 DEF Runs
  <2> QED BY <2>2
<1>2. ASSUME NEW m \in E PROVE m + 1 \in E
  <2>1. PICK g : Runs(g, s, m)
    OBVIOUS
  <2> DEFINE h == [i \in 1..(m + 1) |->
                     IF i = 1 THEN s[i] ELSE g[i - 1] \o s[i]]
  <2>2. \A i \in 1..m : g[i] = IF i = 1 THEN s[i] ELSE g[i - 1] \o s[i]
    BY <2>1, Zenon DEF Runs
  <2>3. \A i \in 1..(m + 1) : h[i] = IF i = 1 THEN s[i] ELSE g[i - 1] \o s[i]
    BY Zenon
  <2>4. /\ \A i \in 1..m : i \in 1..(m + 1)
        /\ \A i \in 1..(m + 1) : i # 1 => i - 1 \in 1..m
    OBVIOUS
  <2> HIDE DEF h
  <2>5. \A i \in 1..m : h[i] = g[i]
    BY <2>2, <2>3, <2>4, Zenon
  <2>6. \A i \in 1..(m + 1) : h[i] = IF i = 1 THEN s[i] ELSE h[i - 1] \o s[i]
    BY <2>3, <2>4, <2>5, Zenon
  <2>7. h = [i \in 1..(m + 1) |-> IF i = 1 THEN s[i] ELSE h[i - 1] \o s[i]]
    <3>1. h = [i \in 1..(m + 1) |-> h[i]]
      BY DEF h
    <3> QED BY <2>6, <3>1, Zenon
  <2>8. Runs(h, s, m + 1)
    BY <2>7, Zenon DEF Runs
  <2> QED BY <2>8
<1>3. E = Nat
  <2> HIDE DEF E
  <2>1. E \subseteq Nat
    BY DEF E
  <2> QED BY <1>1, <1>2, <2>1, CountingUp
<1> QED BY <1>3

(* FlattenSeq gives the last of it.                                        *)
LEMMA Flattened ==
  ASSUME NEW s, Len(s) \in Nat, Len(s) # 0
  PROVE  \E g : Runs(g, s, Len(s)) /\ FlattenSeq(s) = g[Len(s)]
<1> DEFINE f == CHOOSE g : g = [i \in 1..Len(s) |-> IF i = 1 THEN s[i] ELSE g[i-1] \o s[i]]
<1>1. \E g : g = [i \in 1..Len(s) |-> IF i = 1 THEN s[i] ELSE g[i-1] \o s[i]]
  BY RunExists DEF Runs
<1>2. Runs(f, s, Len(s))
  BY <1>1, Zenon DEF Runs
<1>3. FlattenSeq(s) = f[Len(s)]
  BY Zenon DEF FlattenSeq
<1> QED BY <1>2, <1>3

----------------------------------------------------------------------------
(* The request of drizzle_stmt_execute.                                    *)

(* An instance has operators of its own for what it extends.               *)
LEMMA BindsOwn ==
  /\ \A s : Bind!Cardinality(s) = Cardinality(s) /\ Bind!FlattenSeq(s) = FlattenSeq(s)
  /\ \A n, w : Bind!SetBytes(n, w) = SetBytes(n, w)
  /\ \A s : Bind!PackString(s) = PackString(s)
  /\ \A t : /\ Bind!drizzle_pack_time(t) = drizzle_pack_time(t)
            /\ Bind!drizzle_pack_datetime(t) = drizzle_pack_datetime(t)
<1>1. \A s : Bind!Cardinality(s) = Cardinality(s)
  BY Zenon DEF Bind!Cardinality, Cardinality
<1>2. \A s : Bind!FlattenSeq(s) = FlattenSeq(s)
  BY Zenon DEF Bind!FlattenSeq, FlattenSeq
<1>3. \A n, w : Bind!SetBytes(n, w) = SetBytes(n, w)
  BY Zenon DEF Bind!SetBytes, SetBytes
<1>4. \A n : Bind!drizzle_pack_length(n) = drizzle_pack_length(n)
  BY <1>3, Zenon DEF Bind!drizzle_pack_length, drizzle_pack_length, Bind!Null, Null,
     Bind!Short, Short, Bind!Medium, Medium, Bind!Long, Long
<1>5. \A s : Bind!PackString(s) = PackString(s)
  BY <1>4, Zenon DEF Bind!PackString, PackString
<1>6. \A t : Bind!drizzle_pack_time(t) = drizzle_pack_time(t)
  BY <1>3, Zenon DEF Bind!drizzle_pack_time, drizzle_pack_time, Bind!Bit, Bit,
     Bind!HasTime, HasTime
<1>7. \A t : Bind!drizzle_pack_datetime(t) = drizzle_pack_datetime(t)
  BY <1>3, Zenon DEF Bind!drizzle_pack_datetime, drizzle_pack_datetime,
     Bind!HasDay, HasDay, Bind!HasTime, HasTime
<1> QED BY <1>1, <1>2, <1>3, <1>5, <1>6, <1>7

(* The types that a function of the API can bind.                          *)
BoundTypes == DOMAIN Bind!Fixed \cup Bind!Temporal \cup {"STRING", "NULL"}

(* What a parameter is when it was bound: of a type that has a case of its *)
(* own, and a string that fits a packet.                                   *)
WellBound(p) ==
  LET param == query_params[p] IN
  param.is_bound =>
    /\ param.type \in BoundTypes
    /\ param.type = "STRING" =>
         param.value \in Seq(0..(Base - 1)) /\ Len(param.value) < Base^3

(* What holds between any two calls that bind, send or execute.            *)
RequestsInvariant ==
  /\ DOMAIN query_params = Bind!Params
  /\ \A p \in Bind!Params :
       /\ DOMAIN query_params[p] = DOMAIN Bind!Unbound
       /\ WellBound(p)
  /\ RequestFits

AllBound == \A p \in Bind!Params : query_params[p].is_bound

(* The memory for a parameter, and for those before one.                   *)
Need(p) == IF Bind!IsNull(p) THEN 0 ELSE Bind!Length(p) + 8
Sums(g, n) == g = [i \in 0..n |-> IF i = 0 THEN 0 ELSE g[i - 1] + Need(i - 1)]

(* There is such a function, for any number of parameters.                 *)
LEMMA SumExists ==
  ASSUME NEW n \in Nat
  PROVE  \E g : Sums(g, n)
<1> DEFINE E == {m \in Nat : \E g : Sums(g, m)}
<1>1. 0 \in E
  <2> DEFINE g0 == [i \in 0..0 |-> 0]
  <2>1. \A i \in 0..0 : i = 0
    OBVIOUS
  <2>2. g0 = [i \in 0..0 |-> IF i = 0 THEN 0 ELSE g0[i - 1] + Need(i - 1)]
    BY <2>1, Zenon
  <2> QED BY <2>2 DEF Sums
<1>2. ASSUME NEW m \in E PROVE m + 1 \in E
  <2>1. PICK g : Sums(g, m)
    OBVIOUS
  <2> DEFINE h == [i \in 0..(m + 1) |-> IF i = 0 THEN 0 ELSE g[i - 1] + Need(i - 1)]
  <2>2. \A i \in 0..m : g[i] = IF i = 0 THEN 0 ELSE g[i - 1] + Need(i - 1)
    BY <2>1, Zenon DEF Sums
  <2>3. \A i \in 0..(m + 1) : h[i] = IF i = 0 THEN 0 ELSE g[i - 1] + Need(i - 1)
    BY Zenon
  <2>4. /\ \A i \in 0..m : i \in 0..(m + 1)
        /\ \A i \in 0..(m + 1) : i # 0 => i - 1 \in 0..m
    OBVIOUS
  <2> HIDE DEF h
  <2>5. \A i \in 0..m : h[i] = g[i]
    BY <2>2, <2>3, <2>4, Zenon
  <2>6. \A i \in 0..(m + 1) : h[i] = IF i = 0 THEN 0 ELSE h[i - 1] + Need(i - 1)
    BY <2>3, <2>4, <2>5, Zenon
  <2>7. h = [i \in 0..(m + 1) |-> IF i = 0 THEN 0 ELSE h[i - 1] + Need(i - 1)]
    <3>1. h = [i \in 0..(m + 1) |-> h[i]]
      BY DEF h
    <3> QED BY <2>6, <3>1, Zenon
  <2> QED BY <2>7 DEF Sums
<1>3. E = Nat
  <2> HIDE DEF E
  <2>1. E \subseteq Nat
    BY DEF E
  <2> QED BY <1>1, <1>2, <2>1, CountingUp
<1> QED BY <1>3

(* param_lengths is the last of it.                                        *)
LEMMA LengthsSummed ==
  \E g : Sums(g, ParamCount) /\ Bind!ParamLengths(8) = g[ParamCount]
<1> DEFINE f == CHOOSE g : g = [i \in 0..ParamCount |->
                              IF i = 0 THEN 0
                              ELSE g[i - 1] + (IF Bind!IsNull(i - 1) THEN 0
                                               ELSE Bind!Length(i - 1) + 8)]
<1>1. \E g : g = [i \in 0..ParamCount |->
                    IF i = 0 THEN 0
                    ELSE g[i - 1] + (IF Bind!IsNull(i - 1) THEN 0
                                     ELSE Bind!Length(i - 1) + 8)]
  BY SumExists, RequestsAssumption DEF Sums, Need
<1>2. Sums(f, ParamCount)
  BY <1>1, Zenon DEF Sums, Need
<1>3. Bind!ParamLengths(8) = f[ParamCount]
  BY Zenon DEF Bind!ParamLengths
<1> QED BY <1>2, <1>3

(* A parameter takes no more than what was added up for it: a length of    *)
(* four bytes at most, or, if times are not longer than that, the header.  *)
LEMMA WrittenFits ==
  ASSUME RequestsInvariant, AllBound, ~ Bind!LongTimes, NEW p \in Bind!Params
  PROVE  /\ IsList(Bind!Written(p)) /\ Need(p) \in Nat
         /\ Len(Bind!Written(p)) <= Need(p)
<1> DEFINE param == query_params[p]
           type == param.type
           value == param.value
           w == Bind!Written(p)
<1>1. /\ type \in BoundTypes
      /\ type = "STRING" => value \in Seq(0..(Base - 1)) /\ Len(value) < Base^3
  BY DEF RequestsInvariant, AllBound, WellBound
<1>2. Bind!IsNull(p) <=> type = "NULL"
  BY DEF Bind!IsNull
<1>3. CASE param.is_long_data \/ type = "NULL"
  <2>1. w = <<>>
    BY <1>3 DEF Bind!Written
  <2>2. IsList(w) /\ Len(w) <= 0
    BY <2>1, Listed
  <2>3. Need(p) \in Nat
    <3>1. CASE type = "NULL"
      BY <1>2, <3>1 DEF Need
    <3>2. CASE type = "STRING"
      BY <1>1, <1>2, <3>2 DEF Need, Bind!Length, Bind!Fixed
    <3>3. CASE type \in DOMAIN Bind!Fixed
      BY <1>1, <1>2, <3>3 DEF Need, Bind!Length, Bind!Fixed
    <3>4. CASE type \in Bind!Temporal
      BY <1>1, <1>2, <3>4 DEF Need, Bind!Length, Bind!Fixed, Bind!Temporal
    <3> QED BY <1>1, <3>1, <3>2, <3>3, <3>4 DEF BoundTypes
  <2> HIDE DEF w
  <2>4. Len(w) \in Nat
    BY <2>2, ListLength
  <2> QED BY <2>2, <2>3, <2>4 DEF w
<1>4. CASE ~ (param.is_long_data \/ type = "NULL") /\ type \in DOMAIN Bind!Fixed
  <2>1. w = SetBytes(value, Bind!Fixed[type])
    BY <1>4, BindsOwn DEF Bind!Written, Bind!Fixed
  <2>2. Bind!Fixed[type] \in Nat /\ Need(p) = Bind!Fixed[type] + 8
    BY <1>2, <1>4 DEF Need, Bind!Length, Bind!Fixed
  <2>3. IsList(w) /\ Len(w) = Bind!Fixed[type]
    BY <2>1, <2>2, BytesSet, Zenon
  <2> QED BY <2>2, <2>3
<1>5. CASE ~ (param.is_long_data \/ type = "NULL") /\ type \in Bind!Temporal
  <2>1. w = drizzle_pack_time(value) \/ w = drizzle_pack_datetime(value)
    BY <1>5, BindsOwn DEF Bind!Written, Bind!Fixed, Bind!Temporal
  <2>2. Need(p) = 8
    BY <1>2, <1>5 DEF Need, Bind!Length, Bind!Fixed, Bind!Temporal
  <2>3. IsList(w)
    BY <2>1, TimesPacked, Zenon
  <2>4. ~ (Len(w) > 8)
    BY <1>5 DEF Bind!LongTimes
  <2> HIDE DEF w
  <2>5. Len(w) \in Nat
    BY <2>3, ListLength
  <2> QED BY <2>2, <2>3, <2>4, <2>5 DEF w
<1>6. CASE ~ (param.is_long_data \/ type = "NULL") /\ type = "STRING"
  <2> DEFINE length == drizzle_pack_length(Len(value))
  <2>1. w = PackString(value)
    BY <1>6, BindsOwn DEF Bind!Written, Bind!Fixed
  <2>6. w = length \o value
    BY <2>1 DEF PackString
  <2>2. IsList(value) /\ Len(value) \in Nat
    BY <1>1, <1>6 DEF IsList
  <2>3. IsList(length) /\ Len(length) <= 4
    BY <1>1, <1>6, LengthPacked
  <2>4. Need(p) = Len(value) + 8
    BY <1>2, <1>6 DEF Need, Bind!Length, Bind!Fixed
  <2> HIDE DEF length, w
  <2>5. IsList(w) /\ Len(w) = Len(length) + Len(value) /\ Len(length) \in Nat
    BY <2>2, <2>3, <2>6, ListsPut
  <2> QED BY <2>2, <2>3, <2>4, <2>5 DEF w
<1> QED BY <1>1, <1>3, <1>4, <1>5, <1>6 DEF BoundTypes

(* And all of them take no more than the sum.                              *)
LEMMA DataFits ==
  ASSUME RequestsInvariant, AllBound, ~ Bind!LongTimes
  PROVE  /\ Len(Bind!Data) \in Nat /\ Bind!ParamLengths(8) \in Nat
         /\ Len(Bind!Data) <= Bind!ParamLengths(8)
<1> DEFINE n == ParamCount
           s == [i \in 1..n |-> Bind!Written(i - 1)]
<1>1. n \in Nat /\ Len(s) = n
  BY RequestsAssumption
<1>2. PICK g : Sums(g, n) /\ Bind!ParamLengths(8) = g[n]
  BY LengthsSummed
<1>3. /\ g[0] = 0
      /\ \A i \in 1..n : g[i] = g[i - 1] + Need(i - 1)
  <2>1. \A i \in 0..n : g[i] = IF i = 0 THEN 0 ELSE g[i - 1] + Need(i - 1)
    BY <1>2, Zenon DEF Sums
  <2> QED BY <1>1, <2>1
<1>4. \A i \in 1..n : /\ IsList(s[i]) /\ Need(i - 1) \in Nat
                      /\ Len(s[i]) <= Need(i - 1)
  <2>1. \A i \in 1..n : i - 1 \in Bind!Params /\ s[i] = Bind!Written(i - 1)
    BY <1>1 DEF Bind!Params
  <2> HIDE DEF s
  <2> QED BY <2>1, WrittenFits
<1>5. Bind!Data = FlattenSeq(s)
  BY BindsOwn, Zenon DEF Bind!Data
<1> HIDE DEF s
<1>6. CASE n = 0
  <2>1. Bind!Data = s
    BY <1>1, <1>5, <1>6, Zenon DEF FlattenSeq
  <2> QED BY <1>1, <1>2, <1>3, <1>6, <2>1
<1>7. CASE n # 0
  <2>1. PICK f : Runs(f, s, n) /\ Bind!Data = f[n]
    BY <1>1, <1>5, <1>7, Flattened
  <2>2. \A i \in 1..n : f[i] = IF i = 1 THEN s[i] ELSE f[i - 1] \o s[i]
    BY <2>1, Zenon DEF Runs
  <2> DEFINE Ok(m) == IsList(f[m]) /\ g[m] \in Nat /\ Len(f[m]) <= g[m]
             E == {m \in Nat : m \in 1..n => Ok(m)}
  <2>3. 0 \in E
    OBVIOUS
  <2>4. ASSUME NEW m \in E PROVE m + 1 \in E
    <3>1. SUFFICES ASSUME m + 1 \in 1..n PROVE Ok(m + 1)
      OBVIOUS
    <3> DEFINE k == m + 1
               a == f[m]
               b == s[k]
    <3>2. k \in 1..n /\ k - 1 = m /\ m \in Nat
      BY <3>1
    <3>3. IsList(b) /\ Need(m) \in Nat /\ Len(b) <= Need(m) /\ g[k] = g[m] + Need(m)
      <4> HIDE DEF k
      <4> QED BY <1>3, <1>4, <3>2
    <3>4. CASE m = 0
      <4>1. f[k] = b
        BY <2>2, <3>2, <3>4
      <4> HIDE DEF b, k
      <4>2. Len(b) \in Nat
        BY <3>3, ListLength
      <4> QED BY <1>3, <3>3, <3>4, <4>1, <4>2 DEF k
    <3>5. CASE m # 0
      <4>1. f[k] = a \o b
        <5>1. f[k] = IF k = 1 THEN s[k] ELSE f[k - 1] \o s[k]
          BY <2>2, <3>2
        <5>2. k # 1 /\ k - 1 = m
          BY <3>2, <3>5
        <5> HIDE DEF k
        <5> QED BY <5>1, <5>2
      <4>2. IsList(a) /\ g[m] \in Nat /\ Len(a) <= g[m]
        BY <1>1, <3>2, <3>5
      <4> HIDE DEF a, b, k
      <4>3. IsList(f[k]) /\ Len(f[k]) = Len(a) + Len(b) /\ Len(a) \in Nat /\ Len(b) \in Nat
        BY <3>3, <4>1, <4>2, ListsPut
      <4> QED BY <3>3, <4>2, <4>3 DEF k
    <3> QED BY <3>4, <3>5
  <2>5. E = Nat
    <3> HIDE DEF E
    <3>1. E \subseteq Nat
      BY DEF E
    <3> QED BY <2>3, <2>4, <3>1, CountingUp
  <2>6. Ok(n)
    <3>1. n \in E /\ n \in 1..n
      BY <1>1, <1>7, <2>5
    <3> HIDE DEF Ok
    <3> QED BY <3>1
  <2>7. Len(f[n]) \in Nat
    BY <2>6, ListLength
  <2> QED BY <1>2, <2>1, <2>6, <2>7
<1> QED BY <1>6, <1>7

(* The request is no larger than its memory.                               *)
LEMMA RequestFitsMemory ==
  ASSUME RequestsInvariant, AllBound, ~ Bind!LongTimes
  PROVE  Bind!BufferUsed <= Bind!BufferSize
<1> DEFINE m == Bind!Cardinality(Bind!Counted)
           t == Len(Bind!Types)
<1>1. m \in Nat
  <2>1. Bind!Counted \subseteq 0..(ParamCount - 1) /\ IsFiniteSet(0..(ParamCount - 1))
    <3>1. IsFiniteSet(0..(ParamCount - 1))
      BY RequestsAssumption, FS_Interval
    <3> QED BY <3>1 DEF Bind!Counted, Bind!Params
  <2> QED BY <2>1, BindsOwn, FS_Subset, FS_CardinalityType
<1>2. t \in Nat /\ t <= m
  <2>1. CASE new_bind
    <3> DEFINE types == [i \in 1..m |->
                           LET param == query_params[Bind!InOrder(Bind!Counted)[i]]
                           IN <<param.type, param.is_unsigned>>]
    <3>1. Bind!Types = types
      BY <2>1 DEF Bind!Types
    <3>2. Len(types) = m
      <4>1. DOMAIN types = 1..m
        OBVIOUS
      <4>2. \A S : types \in [1..m -> S] => Len(types) = m
        <5> HIDE DEF types, m
        <5> QED BY <1>1
      <4>3. types \in [1..m -> {types[i] : i \in 1..m}]
        OBVIOUS
      <4> HIDE DEF types, m
      <4> QED BY <4>2, <4>3, Zenon
    <3> HIDE DEF m, types
    <3> QED BY <1>1, <3>1, <3>2
  <2>2. CASE ~ new_bind
    <3>1. Bind!Types = <<>>
      BY <2>2 DEF Bind!Types
    <3> HIDE DEF m
    <3> QED BY <1>1, <3>1
  <2> QED BY <2>1, <2>2
<1>3. Bind!BitmapLength \in Nat
  BY RequestsAssumption DEF Bind!BitmapLength
<1> DEFINE d == Len(Bind!Data)
           l == Bind!ParamLengths(8)
           b == Bind!BitmapLength
<1>4. d \in Nat /\ l \in Nat /\ d <= l
  BY DataFits
<1>5. /\ Bind!BufferUsed = 4 + 1 + 4 + b + 1 + 2 * t + d
      /\ Bind!BufferSize = 4 + 1 + 4 + b + 1 + 2 * m + l
  BY DEF Bind!BufferUsed, Bind!BufferSize
<1> HIDE DEF m, t, d, l, b
<1> QED BY <1>1, <1>2, <1>3, <1>4, <1>5 DEF b

----------------------------------------------------------------------------
(* The invariant of the requests.                                          *)

(* Nothing is bound, nothing was requested.                                *)
LEMMA RequestsInitially ==
  ASSUME Init
  PROVE  RequestsInvariant
<1>1. /\ query_params = [p \in Bind!Params |-> Bind!Unbound]
      /\ request = [fits |-> TRUE, long_times |-> FALSE]
  BY DEF Init, Bind!Init
<1>2. \A p \in Bind!Params : query_params[p] = Bind!Unbound
  BY <1>1
<1>3. ~ Bind!Unbound.is_bound
  BY DEF Bind!Unbound
<1>4. DOMAIN query_params = Bind!Params
  BY <1>1
<1>5. RequestFits
  BY <1>1 DEF RequestFits, Bind!RequestFits
<1> QED BY <1>2, <1>3, <1>4, <1>5, Zenon DEF RequestsInvariant, WellBound

(* A parameter is bound to a value of a type that its function takes.      *)
LEMMA BindingKeeps ==
  ASSUME RequestsInvariant, NEW p \in Numbers, NEW v \in Bindable,
         v.type \in BoundTypes, Bind!drizzle_stmt_set_param(p, v), request' = request
  PROVE  RequestsInvariant'
<1>1. RequestFits'
  BY DEF RequestsInvariant, RequestFits, Bind!RequestFits
<1>2. CASE query_params' = query_params
  BY <1>1, <1>2 DEF RequestsInvariant, WellBound
<1>3. CASE /\ ~ (p >= ParamCount)
           /\ query_params' = [query_params EXCEPT ![p] =
                [@ EXCEPT !.type = v.type, !.value = v.value,
                          !.is_unsigned = v.is_unsigned, !.is_bound = TRUE]]
  <2>1. p \in Bind!Params
    BY <1>3, RequestsAssumption DEF Bind!Params
  <2>2. /\ DOMAIN query_params' = Bind!Params
        /\ \A q \in Bind!Params : q # p => query_params'[q] = query_params[q]
    BY <1>3, <2>1 DEF RequestsInvariant
  <2>3. /\ DOMAIN query_params'[p] = DOMAIN Bind!Unbound
        /\ query_params'[p].type = v.type /\ query_params'[p].value = v.value
    BY <1>3, <2>1 DEF RequestsInvariant, Bind!Unbound
  <2>4. WellBound(p)'
    BY <2>3, RequestsAssumption DEF WellBound
  <2>5. ASSUME NEW q \in Bind!Params
        PROVE  DOMAIN query_params'[q] = DOMAIN Bind!Unbound /\ WellBound(q)'
    <3>1. CASE q = p
      BY <2>3, <2>4, <3>1
    <3>2. CASE q # p
      <4>1. query_params'[q] = query_params[q]
        BY <2>2, <3>2
      <4> QED BY <4>1 DEF RequestsInvariant, WellBound
    <3> QED BY <3>1, <3>2
  <2> QED BY <1>1, <2>2, <2>5 DEF RequestsInvariant
<1> QED BY <1>2, <1>3 DEF Bind!drizzle_stmt_set_param

(* Only the flag of long data changes.                                     *)
LEMMA FlaggingKeeps ==
  ASSUME RequestsInvariant, request' = request,
         DOMAIN query_params' = DOMAIN query_params,
         \A p \in Bind!Params :
           \/ query_params'[p] = query_params[p]
           \/ \E flag \in BOOLEAN :
                query_params'[p] = [query_params[p] EXCEPT !.is_long_data = flag]
  PROVE  RequestsInvariant'
<1>1. RequestFits'
  BY DEF RequestsInvariant, RequestFits, Bind!RequestFits
<1>2. ASSUME NEW p \in Bind!Params
      PROVE  /\ DOMAIN query_params'[p] = DOMAIN query_params[p]
             /\ query_params'[p].type = query_params[p].type
             /\ query_params'[p].value = query_params[p].value
             /\ query_params'[p].is_bound = query_params[p].is_bound
  <2>1. DOMAIN query_params[p] = DOMAIN Bind!Unbound
    BY DEF RequestsInvariant
  <2> QED BY <2>1 DEF Bind!Unbound
<1>3. \A p \in Bind!Params : WellBound(p)'
  BY <1>2 DEF RequestsInvariant, WellBound
<1> QED BY <1>1, <1>2, <1>3 DEF RequestsInvariant

(* Each call keeps what is known of the parameters.                        *)
LEMMA RequestsStep ==
  ASSUME RequestsInvariant, Bind!Next
  PROVE  RequestsInvariant'
<1>1. CASE Bind!Set
  <2>1. PICK p \in Numbers, v \in Bindable : Bind!SetByPointer(p, v) \/ Bind!SetByValue(p, v)
    BY <1>1 DEF Bind!Set
  <2>2. request' = request
    BY <1>1 DEF Bind!Set
  <2>3. CASE query_params' = query_params
    BY <2>2, <2>3 DEF RequestsInvariant, WellBound, RequestFits, Bind!RequestFits
  <2>4. CASE query_params' # query_params
    <3>1. v.type \in BoundTypes /\ Bind!drizzle_stmt_set_param(p, v)
      BY <2>1, <2>4 DEF Bind!SetByPointer, Bind!SetByValue, BoundTypes
    <3> QED BY <2>2, <3>1, BindingKeeps
  <2> QED BY <2>3, <2>4
<1>2. CASE Bind!drizzle_stmt_send_long_data
  <2>1. request' = request
    BY <1>2 DEF Bind!drizzle_stmt_send_long_data
  <2>2. \/ query_params' = query_params
        \/ \E p \in Numbers : query_params' = [query_params EXCEPT ![p].is_long_data = TRUE]
    BY <1>2 DEF Bind!drizzle_stmt_send_long_data
  <2>3. CASE query_params' = query_params
    BY <2>1, <2>3, FlaggingKeeps
  <2>4. ASSUME NEW p \in Numbers,
               query_params' = [query_params EXCEPT ![p].is_long_data = TRUE]
        PROVE  RequestsInvariant'
    <3>1. DOMAIN query_params' = DOMAIN query_params
      BY <2>4
    <3>2. \A q \in Bind!Params :
            \/ query_params'[q] = query_params[q]
            \/ query_params'[q] = [query_params[q] EXCEPT !.is_long_data = TRUE]
      BY <2>4 DEF RequestsInvariant
    <3>3. TRUE \in BOOLEAN
      OBVIOUS
    <3> QED BY <2>1, <3>1, <3>2, <3>3, FlaggingKeeps
  <2> QED BY <2>2, <2>3, <2>4
<1>3. CASE Bind!drizzle_stmt_reset
  <2>1. request' = request /\ query_params' = Bind!WithoutLongData
    BY <1>3 DEF Bind!drizzle_stmt_reset
  <2>2. DOMAIN query_params' = DOMAIN query_params
    BY <2>1 DEF Bind!WithoutLongData, RequestsInvariant
  <2>3. \A q \in Bind!Params :
          query_params'[q] = [query_params[q] EXCEPT !.is_long_data = FALSE]
    BY <2>1 DEF Bind!WithoutLongData
  <2>4. FALSE \in BOOLEAN
    OBVIOUS
  <2> QED BY <2>1, <2>2, <2>3, <2>4, FlaggingKeeps
<1>4. CASE Bind!drizzle_stmt_execute
  <2>1. query_params' = query_params
    BY <1>4 DEF Bind!drizzle_stmt_execute
  <2>2. request' = request \/ Bind!Prepared
    BY <1>4 DEF Bind!drizzle_stmt_execute, Bind!ExecuteUnbound, Bind!ExecuteOK,
                Bind!ExecuteFails
  <2>3. RequestFits'
    <3>1. CASE request' = request
      BY <3>1 DEF RequestsInvariant, RequestFits, Bind!RequestFits
    <3>2. CASE Bind!Prepared
      <4>1. AllBound /\ request' = [fits |-> Bind!BufferUsed <= Bind!BufferSize,
                                    long_times |-> Bind!LongTimes]
        BY <3>2 DEF Bind!Prepared, AllBound
      <4>2. Bind!BufferUsed <= Bind!BufferSize \/ Bind!LongTimes
        BY <4>1, RequestFitsMemory
      <4> QED BY <4>1, <4>2 DEF RequestFits, Bind!RequestFits
    <3> QED BY <2>2, <3>1, <3>2
  <2> QED BY <2>1, <2>3 DEF RequestsInvariant, WellBound
<1> QED BY <1>1, <1>2, <1>3, <1>4 DEF Bind!Next

(* Whatever an application binds and however often it executes, for any    *)
(* number of parameters: what was written of a bound parameter is known.   *)
THEOREM RequestsAreInvariant == Spec => []RequestsInvariant
<1>1. Init => RequestsInvariant
  BY RequestsInitially
<1>2. RequestsInvariant /\ [Next]_<<of, packetVars, requestVars, rowVars>>
        => RequestsInvariant'
  <2> SUFFICES ASSUME RequestsInvariant,
                      [Next]_<<of, packetVars, requestVars, rowVars>>
               PROVE  RequestsInvariant'
    OBVIOUS
  <2>1. CASE Bind!Next
    BY <2>1, RequestsStep
  <2>2. CASE UNCHANGED requestVars
    BY <2>2 DEF requestVars, RequestsInvariant, WellBound, RequestFits, Bind!RequestFits
  <2> QED BY <2>1, <2>2 DEF Next
<1> QED BY <1>1, <1>2, PTL DEF Spec

(* The bytes that drizzle_stmt_execute writes fit the memory it allocated, *)
(* for any parameters and any number of executions, if no time is longer   *)
(* than the header it has room for.                                        *)
THEOREM RequestsAlwaysFit == Spec => []RequestFits
<1>1. RequestsInvariant => RequestFits
  BY DEF RequestsInvariant
<1> QED BY <1>1, RequestsAreInvariant, PTL

----------------------------------------------------------------------------
(* The values of a row: where they are.                                    *)

(* As above, the instance counts as this module does.                      *)
LEMMA FetchesOwn ==
  \A s : Fetch!Cardinality(s) = Cardinality(s)
BY Zenon DEF Fetch!Cardinality, Cardinality

(* A value that is not NULL is behind those before it that are not.        *)
LEMMA Places ==
  ASSUME NEW n \in Nat, NEW nulls, NEW c \in 1..n, c \notin nulls
  PROVE  /\ Fetch!Position(nulls, c) \in 1..Fetch!Cardinality((1..n) \ nulls)
         /\ \A k \in (1..n) \ nulls :
              Fetch!Position(nulls, k) = Fetch!Position(nulls, c) => k = c
<1> DEFINE Before(k) == {d \in 1..(k - 1) : d \notin nulls}
           all == (1..n) \ nulls
<1>1. \A k : Fetch!Position(nulls, k) = 1 + Cardinality(Before(k))
  BY FetchesOwn DEF Fetch!Position
<1>2. IsFiniteSet(all) /\ Cardinality(all) \in Nat
  <2>1. IsFiniteSet(1..n)
    BY FS_Interval
  <2>2. all \subseteq 1..n
    OBVIOUS
  <2> HIDE DEF all
  <2> QED BY <2>1, <2>2, FS_Subset, FS_CardinalityType
<1>3. \A k \in 1..n : IsFiniteSet(Before(k)) /\ Cardinality(Before(k)) \in Nat
  <2> TAKE k \in 1..n
  <2>1. IsFiniteSet(1..(k - 1)) /\ Before(k) \subseteq 1..(k - 1)
    BY FS_Interval
  <2> HIDE DEF Before
  <2> QED BY <2>1, FS_Subset, FS_CardinalityType
<1>4. ASSUME NEW k \in 1..n, NEW S, IsFiniteSet(S), Before(k) \subseteq S,
             k \in S, k \notin Before(k)
      PROVE  Cardinality(Before(k)) < Cardinality(S)
  <2> HIDE DEF Before
  <2>1. Before(k) # S
    BY <1>4
  <2>2. Cardinality(Before(k)) <= Cardinality(S)
    BY <1>4, FS_Subset
  <2>3. Cardinality(Before(k)) # Cardinality(S)
    BY <1>4, <2>1, FS_Subset
  <2>4. Cardinality(S) \in Nat
    BY <1>4, FS_CardinalityType
  <2> QED BY <1>3, <2>2, <2>3, <2>4
<1>5. \A k \in 1..n : k \notin Before(k)
  OBVIOUS
<1>6. \A k, d \in all : k < d => Cardinality(Before(k)) < Cardinality(Before(d))
  <2> SUFFICES ASSUME NEW k \in all, NEW d \in all, k < d
               PROVE  Cardinality(Before(k)) < Cardinality(Before(d))
    OBVIOUS
  <2>1. k \in 1..n /\ d \in 1..n /\ Before(k) \subseteq Before(d) /\ k \in Before(d)
    OBVIOUS
  <2> HIDE DEF Before, all
  <2> QED BY <1>3, <1>4, <1>5, <2>1
<1>7. Cardinality(Before(c)) < Cardinality(all)
  <2>1. Before(c) \subseteq all /\ c \in all
    OBVIOUS
  <2> HIDE DEF Before, all
  <2> QED BY <1>2, <1>4, <1>5, <2>1
<1>8. Fetch!Cardinality(all) = Cardinality(all)
  BY FetchesOwn
<1>9. \A k \in all : Cardinality(Before(k)) = Cardinality(Before(c)) => k = c
  <2>1. c \in all /\ \A k \in all : k \in 1..n /\ k \in Int /\ c \in Int
    OBVIOUS
  <2> HIDE DEF Before, all
  <2> QED BY <1>3, <1>6, <2>1
<1> HIDE DEF Before
<1>10. /\ Fetch!Position(nulls, c) \in 1..Fetch!Cardinality(all)
       /\ \A k \in all : Fetch!Position(nulls, k) = Fetch!Position(nulls, c) => k = c
  <2>1. \A k \in all : k \in 1..n
    OBVIOUS
  <2> HIDE DEF all
  <2> QED BY <1>1, <1>2, <1>3, <1>7, <1>8, <1>9, <2>1
<1> QED BY <1>10

(* Without a NULL before it a value is where its column is.                *)
LEMMA PlaceOfColumn ==
  ASSUME NEW nulls, NEW c \in Nat \ {0}, \A k \in 1..(c - 1) : k \notin nulls
  PROVE  Fetch!Position(nulls, c) = c
<1>1. {k \in 1..(c - 1) : k \notin nulls} = 1..(c - 1)
  OBVIOUS
<1>2. Cardinality(1..(c - 1)) = c - 1
  <2>1. 1 \in Int /\ c - 1 \in Int /\ c - 1 >= 0
    OBVIOUS
  <2>2. Cardinality(1..(c - 1)) = IF 1 > c - 1 THEN 0 ELSE (c - 1) - 1 + 1
    BY <2>1, FS_Interval, Zenon
  <2> QED BY <2>2
<1>3. Fetch!Position(nulls, c) = 1 + Cardinality({k \in 1..(c - 1) : k \notin nulls})
  BY FetchesOwn DEF Fetch!Position
<1>4. Fetch!Position(nulls, c) = 1 + Cardinality(1..(c - 1))
  BY <1>1, <1>3, Zenon
<1> QED BY <1>2, <1>4

----------------------------------------------------------------------------
(* Times as they are unpacked, and columns by their names.                 *)

(* A time without bytes, and any other time, but for whether its           *)
(* microseconds are shown, is the same for all decimals.                   *)
LEMMA WholeMidnight == Fetch!Whole(Fetch!Midnight) = Fetch!Midnight
<1> DEFINE m == Fetch!Midnight
           w == [m EXCEPT !.show = FALSE]
<1>1. /\ DOMAIN m = {"negative", "year", "month", "day", "hour", "minute", "second",
                     "microsecond", "show"}
      /\ m = [f \in DOMAIN m |-> m[f]] /\ m.show = FALSE
  BY DEF Fetch!Midnight
<1>2. DOMAIN w = DOMAIN m /\ w = [f \in DOMAIN m |-> IF f = "show" THEN FALSE ELSE m[f]]
  BY <1>1, Zenon
<1> HIDE DEF m
<1>3. \A f \in DOMAIN m : (IF f = "show" THEN FALSE ELSE m[f]) = m[f]
  BY <1>1
<1>4. w = m
  <2> HIDE DEF w
  <2>1. w = [f \in DOMAIN m |-> m[f]]
    BY <1>2, <1>3
  <2> QED BY <1>1, <2>1, Zenon
<1> QED BY <1>4, Zenon DEF w, m, Fetch!Whole

LEMMA WholeTime ==
  ASSUME NEW field, NEW decimals
  PROVE  Fetch!Whole(Fetch!drizzle_unpack_time(field, decimals))
           = Fetch!drizzle_unpack_time(field, 0)
<1>1. CASE field = <<>>
  BY <1>1, WholeMidnight DEF Fetch!drizzle_unpack_time
<1>2. CASE field # <<>>
  <2> DEFINE day == Fetch!GetBytes(Tail(field), 4)
             micro == Fetch!Microseconds(field, 8)
  <2>1. Fetch!drizzle_unpack_time(field, decimals) =
          [Fetch!Midnight EXCEPT !.negative = field[1] # 0, !.day = day,
             !.hour = field[6], !.minute = field[7], !.second = field[8],
             !.microsecond = micro, !.show = decimals # 0]
    BY <1>2 DEF Fetch!drizzle_unpack_time
  <2>2. Fetch!drizzle_unpack_time(field, 0) =
          [Fetch!Midnight EXCEPT !.negative = field[1] # 0, !.day = day,
             !.hour = field[6], !.minute = field[7], !.second = field[8],
             !.microsecond = micro, !.show = FALSE]
    BY <1>2 DEF Fetch!drizzle_unpack_time
  <2> HIDE DEF day, micro
  <2> QED BY <2>1, <2>2 DEF Fetch!Whole, Fetch!Midnight
<1> QED BY <1>1, <1>2

LEMMA WholeDatetime ==
  ASSUME NEW field, NEW decimals
  PROVE  Fetch!Whole(Fetch!drizzle_unpack_datetime(field, decimals))
           = Fetch!drizzle_unpack_datetime(field, 0)
<1>1. CASE field = <<>>
  BY <1>1, WholeMidnight DEF Fetch!drizzle_unpack_datetime
<1>2. CASE field # <<>>
  <2> DEFINE year == Fetch!GetBytes(field, 2)
             hour == IF Len(field) > 4 THEN field[5] ELSE 0
             minute == IF Len(field) > 4 THEN field[6] ELSE 0
             second == IF Len(field) > 4 THEN field[7] ELSE 0
             micro == Fetch!Microseconds(field, 7)
  <2>1. Fetch!drizzle_unpack_datetime(field, decimals) =
          [Fetch!Midnight EXCEPT !.year = year, !.month = field[3], !.day = field[4],
             !.hour = hour, !.minute = minute, !.second = second,
             !.microsecond = micro, !.show = decimals # 0]
    BY <1>2 DEF Fetch!drizzle_unpack_datetime
  <2>2. Fetch!drizzle_unpack_datetime(field, 0) =
          [Fetch!Midnight EXCEPT !.year = year, !.month = field[3], !.day = field[4],
             !.hour = hour, !.minute = minute, !.second = second,
             !.microsecond = micro, !.show = FALSE]
    BY <1>2 DEF Fetch!drizzle_unpack_datetime
  <2> HIDE DEF year, hour, minute, second, micro
  <2> QED BY <2>1, <2>2 DEF Fetch!Whole, Fetch!Midnight
<1> QED BY <1>1, <1>2

(* Whether they are shown is what the decimals of the column say.          *)
LEMMA ShowsDecimals ==
  ASSUME NEW field, NEW decimals
  PROVE  /\ \/ Fetch!drizzle_unpack_time(field, decimals) = Fetch!Midnight
            \/ Fetch!drizzle_unpack_time(field, decimals).show = (decimals # 0)
         /\ \/ Fetch!drizzle_unpack_datetime(field, decimals) = Fetch!Midnight
            \/ Fetch!drizzle_unpack_datetime(field, decimals).show = (decimals # 0)
<1>1. CASE field = <<>>
  BY <1>1 DEF Fetch!drizzle_unpack_time, Fetch!drizzle_unpack_datetime
<1>2. CASE field # <<>>
  BY <1>2 DEF Fetch!drizzle_unpack_time, Fetch!drizzle_unpack_datetime, Fetch!Midnight
<1> QED BY <1>1, <1>2

(* The column that is asked for by the name of an integer is its own.      *)
LEMMA FoundByName ==
  ASSUME ColumnsAssumption, columns \in ColumnLists, NEW c \in DOMAIN columns,
         columns[c].type \in DOMAIN Bits
  PROVE  Fetch!drizzle_stmt_column_lookup(columns[c].name) = Fetch!Got("OK", c)
<1> DEFINE found == {k \in Fetch!Columns : columns[k].name = columns[c].name}
<1>1. c \in found /\ \A k \in found : k \in Int /\ c <= k
  BY DEF ColumnsAssumption, Fetch!Columns
<1>2. (CHOOSE d \in found : \A k \in found : d <= k) = c
  <2>1. \A d \in found : (\A k \in found : d <= k) => d = c
    BY <1>1
  <2> HIDE DEF found
  <2> QED BY <1>1, <2>1
<1> QED BY <1>1, <1>2 DEF Fetch!drizzle_stmt_column_lookup

(* What is got by the name is got by the number.                           *)
LEMMA ByName ==
  ASSUME NEW name, NEW c, Fetch!drizzle_stmt_column_lookup(name) = Fetch!Got("OK", c)
  PROVE  Fetch!FromName(name, Fetch!drizzle_stmt_get_bigint) = Fetch!drizzle_stmt_get_bigint(c)
BY DEF Fetch!FromName, Fetch!Got

----------------------------------------------------------------------------
(* The values of a row: the invariant.                                     *)

(* result_params[c] has the value that was sent for the column c.          *)
HasWhatWasSent(c) ==
  LET param == result_params[c]
      type == columns[c].type
      place == Fetch!Position({k \in DOMAIN columns : Fetch!IsNull(sent[k])}, c)
  IN IF Fetch!IsNull(sent[c])
     THEN param.type = "NULL" /\ param.is_null = TRUE
     ELSE /\ type \in Fetch!Fetchable
          /\ param.type = type /\ param.is_null = FALSE
          /\ param.is_unsigned = columns[c].unsigned
          /\ param.data = Fetch!Unpacked(type, Fetch!Field(type, sent[c].value),
                                         columns[place].decimals)

(* A parameter: its parts, and its sign if a row set it.                   *)
IsParam(param, c) ==
  /\ DOMAIN param = DOMAIN Fetch!Fresh
  /\ param.is_unsigned \in {FALSE, columns[c].unsigned}

(* What holds between any two calls: the parameters belong to the columns, *)
(* and after a fetch that returned OK they have what was sent.             *)
RowInvariant ==
  /\ columns \in ColumnLists \cup {<<>>}
  /\ DOMAIN result_params = DOMAIN columns
  /\ \A c \in DOMAIN columns : IsParam(result_params[c], c)
  /\ fetch = "OK" => \A c \in DOMAIN columns :
       sent[c] \in Fetch!Sendable(columns[c]) /\ HasWhatWasSent(c)

FreshFields == {"type", "data", "length", "is_null", "is_unsigned"}

(* The parts of a parameter.                                               *)
LEMMA FreshParam == DOMAIN Fetch!Fresh = FreshFields /\ Fetch!Fresh.is_unsigned = FALSE
BY DEF Fetch!Fresh, FreshFields

(* The columns are numbered from 1, and their flags are flags.             *)
LEMMA ColumnsNumbered ==
  ASSUME ColumnsAssumption, columns \in ColumnLists \cup {<<>>}
  PROVE  /\ Len(columns) \in Nat /\ DOMAIN columns = 1..Len(columns)
         /\ \A c \in DOMAIN columns : columns[c].unsigned \in BOOLEAN
<1>1. CASE columns = <<>>
  <2>1. DOMAIN columns = {} /\ Len(columns) = 0
    BY <1>1
  <2> QED BY <2>1
<1>2. CASE columns \in ColumnLists
  BY <1>2 DEF ColumnsAssumption
<1> QED BY <1>1, <1>2

(* Nothing was fetched.                                                    *)
LEMMA RowsInitially ==
  ASSUME Init
  PROVE  RowInvariant
<1>1. columns = <<>> /\ result_params = <<>> /\ fetch = "none"
  BY DEF Init, Fetch!Init
<1>2. DOMAIN columns = {} /\ DOMAIN result_params = {}
  BY <1>1
<1> QED BY <1>1, <1>2 DEF RowInvariant

(* drizzle_stmt_execute makes fresh parameters for the new columns.        *)
LEMMA ExecutingKeeps ==
  ASSUME RowInvariant, Fetch!Execute
  PROVE  RowInvariant'
<1>1. /\ columns' \in ColumnLists /\ fetch' = "none"
      /\ result_params' = [c \in DOMAIN columns' |-> Fetch!Fresh]
  BY DEF Fetch!Execute
<1> HIDE DEF RowInvariant
<1>2. DOMAIN result_params' = DOMAIN columns'
  BY <1>1, Zenon
<1>3. ASSUME NEW c \in DOMAIN columns'
      PROVE  IsParam(result_params[c], c)'
  <2>1. result_params'[c] = Fetch!Fresh
    BY <1>1, <1>3, Zenon
  <2> QED BY <2>1, FreshParam DEF IsParam
<1> QED BY <1>1, <1>2, <1>3 DEF RowInvariant

(* What one turn of the loop of drizzle_stmt_fetch makes of a parameter.   *)
TakesValue(param, nulls, row, c) ==
  LET place == Fetch!Position(nulls, c) IN
  /\ c \in nulls => param.type = "NULL" /\ param.is_null = TRUE
  /\ c \notin nulls =>
       /\ param.type = columns[c].type /\ param.is_null = FALSE
       /\ param.is_unsigned = columns[c].unsigned
       /\ columns[c].type \in Fetch!Fetchable =>
            param.data = Fetch!Unpacked(columns[c].type, row[place],
                                        columns[place].decimals)

(* Whatever the parameter was for the row before.                          *)
LEMMA ParamFetched ==
  ASSUME NEW before, NEW nulls, NEW row, NEW c,
         columns[c].unsigned \in BOOLEAN, IsParam(before, c)
  PROVE  /\ IsParam(Fetch!Fetched(before, nulls, row, c), c)
         /\ TakesValue(Fetch!Fetched(before, nulls, row, c), nulls, row, c)
<1> DEFINE param == Fetch!Fetched(before, nulls, row, c)
           place == Fetch!Position(nulls, c)
           data == IF columns[c].type \in Fetch!Fetchable
                   THEN Fetch!Unpacked(columns[c].type, row[place], Fetch!DecimalsAt(place))
                   ELSE before.data
           length == Fetch!Length(columns[c].type, row[place])
<1>1. DOMAIN before = FreshFields /\ before.is_unsigned \in {FALSE, columns[c].unsigned}
  BY FreshParam DEF IsParam
<1>2. CASE c \in nulls
  <2>1. param = [before EXCEPT !.is_null = TRUE, !.length = 0, !.type = "NULL"]
    BY <1>2 DEF Fetch!Fetched, Fetch!Absence
  <2> HIDE DEF param
  <2>2. /\ DOMAIN param = DOMAIN before /\ param.type = "NULL" /\ param.is_null = TRUE
        /\ param.is_unsigned = before.is_unsigned
    BY <1>1, <2>1 DEF FreshFields
  <2> QED BY <1>1, <1>2, <2>2, FreshParam DEF param, IsParam, TakesValue
<1>3. CASE c \notin nulls
  <2>1. param = [before EXCEPT !.type = columns[c].type, !.is_null = FALSE,
                   !.length = length,
                   !.is_unsigned = before.is_unsigned \/ columns[c].unsigned,
                   !.data = data]
    BY <1>3 DEF Fetch!Fetched
  <2>2. (before.is_unsigned \/ columns[c].unsigned) = columns[c].unsigned
    BY <1>1
  <2>3. columns[c].type \in Fetch!Fetchable =>
          data = Fetch!Unpacked(columns[c].type, row[place], columns[place].decimals)
    BY DEF Fetch!DecimalsAt
  <2>4. param = [before EXCEPT !.type = columns[c].type, !.is_null = FALSE,
                   !.length = length, !.is_unsigned = columns[c].unsigned,
                   !.data = data]
    BY <2>1, <2>2, Zenon
  <2> HIDE DEF param, data, length, place
  <2>5. /\ DOMAIN param = DOMAIN before /\ param.type = columns[c].type
        /\ param.is_null = FALSE /\ param.is_unsigned = columns[c].unsigned
        /\ param.data = data
    BY <1>1, <2>4 DEF FreshFields
  <2> QED BY <1>1, <1>3, <2>3, <2>5, FreshParam DEF param, place, IsParam, TakesValue
<1> QED BY <1>2, <1>3

(* All turns of the loop: the fields of a row are found by their places,   *)
(* and a row of which OK is returned has every column.                     *)
LEMMA RowFetched ==
  ASSUME ColumnsAssumption, RowInvariant, Fetch!FetchRow
  PROVE  RowInvariant'
<1>1. columns' = columns
  BY DEF Fetch!FetchRow
<1>2. PICK values \in [Fetch!Columns -> UNION {Fetch!Sendable(columns[c]) : c \in Fetch!Columns}] :
        LET nulls == {c \in Fetch!Columns : Fetch!IsNull(values[c])}
            row == [i \in 1..Fetch!Cardinality(Fetch!Columns \ nulls) |->
                      LET c == CHOOSE k \in Fetch!Columns \ nulls : Fetch!Position(nulls, k) = i
                      IN Fetch!Field(columns[c].type, values[c].value)]
            unknown == {c \in Fetch!Columns \ nulls : columns[c].type \notin Fetch!Fetchable}
            reached == {c \in Fetch!Columns : \A u \in unknown : c <= u}
        IN /\ \A c \in Fetch!Columns : values[c] \in Fetch!Sendable(columns[c])
           /\ result_params' = [c \in Fetch!Columns |->
                                  IF c \in reached
                                  THEN Fetch!Fetched(result_params[c], nulls, row, c)
                                  ELSE result_params[c]]
           /\ fetch' = IF unknown = {} THEN "OK" ELSE "UNEXPECTED_DATA"
           /\ sent' = values
  BY Zenon DEF Fetch!FetchRow
<1> DEFINE all == DOMAIN columns
           nulls == {c \in all : Fetch!IsNull(values[c])}
           row == [i \in 1..Fetch!Cardinality(all \ nulls) |->
                     LET c == CHOOSE k \in all \ nulls : Fetch!Position(nulls, k) = i
                     IN Fetch!Field(columns[c].type, values[c].value)]
           unknown == {c \in all \ nulls : columns[c].type \notin Fetch!Fetchable}
           reached == {c \in all : \A u \in unknown : c <= u}
<1>3. /\ \A c \in all : values[c] \in Fetch!Sendable(columns[c])
      /\ result_params' = [c \in all |-> IF c \in reached
                                         THEN Fetch!Fetched(result_params[c], nulls, row, c)
                                         ELSE result_params[c]]
      /\ fetch' = IF unknown = {} THEN "OK" ELSE "UNEXPECTED_DATA"
      /\ sent' = values
  BY <1>2, Zenon DEF Fetch!Columns
<1>4. /\ columns \in ColumnLists \cup {<<>>}
      /\ \A c \in all : IsParam(result_params[c], c)
  BY DEF RowInvariant
<1>5. /\ Len(columns) \in Nat /\ all = 1..Len(columns)
      /\ \A c \in all : columns[c].unsigned \in BOOLEAN
  BY <1>4, ColumnsNumbered
<1>6. ASSUME NEW c \in all, c \notin nulls
      PROVE  row[Fetch!Position(nulls, c)] = Fetch!Field(columns[c].type, values[c].value)
  <2> HIDE DEF nulls
  <2> DEFINE at == Fetch!Position(nulls, c)
             others == all \ nulls
  <2>1. /\ at \in 1..Fetch!Cardinality(others) /\ c \in others
        /\ \A k \in others : Fetch!Position(nulls, k) = at => k = c
    BY <1>5, <1>6, Places
  <2> HIDE DEF others
  <2>2. (CHOOSE k \in others : Fetch!Position(nulls, k) = at) = c
    BY <2>1, Zenon
  <2>3. row[at] = LET d == CHOOSE k \in others : Fetch!Position(nulls, k) = at
                  IN Fetch!Field(columns[d].type, values[d].value)
    BY <2>1, Zenon DEF others
  <2> QED BY <2>2, <2>3, Zenon
<1>7. ASSUME NEW c \in all
      PROVE  /\ IsParam(result_params'[c], c)
             /\ c \in reached => TakesValue(result_params'[c], nulls, row, c)
  <2> HIDE DEF nulls, row, reached, all
  <2>1. result_params'[c] = IF c \in reached
                            THEN Fetch!Fetched(result_params[c], nulls, row, c)
                            ELSE result_params[c]
    BY <1>3, Zenon
  <2>2. IsParam(result_params[c], c) /\ columns[c].unsigned \in BOOLEAN
    BY <1>4, <1>5
  <2> QED BY <2>1, <2>2, ParamFetched
<1>8. DOMAIN result_params' = all
  BY <1>3, Zenon
<1>9. ASSUME fetch' = "OK", NEW c \in all
      PROVE  HasWhatWasSent(c)'
  <2>1. unknown = {} /\ c \in reached
    BY <1>3, <1>9
  <2>2. c \notin nulls => columns[c].type \in Fetch!Fetchable
    BY <2>1
  <2>3. nulls = {k \in DOMAIN columns' : Fetch!IsNull(sent'[k])}
    BY <1>1, <1>3
  <2>4. Fetch!IsNull(sent'[c]) <=> c \in nulls
    BY <1>1, <2>3
  <2> HIDE DEF nulls, row, reached, all, unknown
  <2>5. CASE c \in nulls
    BY <1>7, <2>1, <2>4, <2>5 DEF HasWhatWasSent, TakesValue
  <2>6. CASE c \notin nulls
    BY <1>1, <1>3, <1>6, <1>7, <2>1, <2>2, <2>3, <2>4, <2>6 DEF HasWhatWasSent, TakesValue
  <2> QED BY <2>5, <2>6
<1> HIDE DEF nulls, row, reached, unknown
<1> QED BY <1>1, <1>3, <1>4, <1>7, <1>8, <1>9 DEF RowInvariant, IsParam

----------------------------------------------------------------------------
(* The values of a row: what the functions that get them make of them.     *)

(* What a row that was fetched has for a column.                           *)
LEMMA ColumnFetched ==
  ASSUME ColumnsAssumption, RowValuesAssumption, RowInvariant, fetch = "OK",
         NEW c \in Fetch!Columns
  PROVE  LET param == result_params[c]
             type == columns[c].type
             place == Fetch!Position({k \in DOMAIN columns : Fetch!IsNull(sent[k])}, c)
         IN /\ columns \in ColumnLists
            /\ Fetch!IsNull(sent[c]) => param.type = "NULL" /\ param.is_null = TRUE
            /\ ~ Fetch!IsNull(sent[c]) =>
                 /\ sent[c] \in RowValues /\ sent[c].type = type
                 /\ type \in Fetch!Fetchable /\ param.type = type
                 /\ param.is_null = FALSE
                 /\ param.is_unsigned = columns[c].unsigned
                 /\ columns[c].unsigned \in BOOLEAN
                 /\ param.data = Fetch!Unpacked(type, Fetch!Field(type, sent[c].value),
                                                columns[place].decimals)
<1>1. c \in DOMAIN columns /\ columns \in ColumnLists
  <2>1. c \in DOMAIN columns /\ columns \in ColumnLists \cup {<<>>}
    BY DEF RowInvariant, Fetch!Columns
  <2>2. DOMAIN <<>> = {}
    OBVIOUS
  <2> QED BY <2>1, <2>2, Zenon
<1>2. sent[c] \in Fetch!Sendable(columns[c]) /\ HasWhatWasSent(c)
  BY <1>1 DEF RowInvariant
<1>3. ~ Fetch!IsNull(sent[c]) => sent[c] \in RowValues /\ sent[c].type = columns[c].type
  BY <1>2 DEF Fetch!Sendable, Fetch!Absent, Fetch!IsNull
<1>4. columns[c].unsigned \in BOOLEAN
  BY <1>1 DEF ColumnsAssumption
<1> QED BY <1>1, <1>2, <1>3, <1>4 DEF HasWhatWasSent

(* An integer is its number, by the number of its column or by the name.   *)
LEMMA IntegersFetched ==
  ASSUME ColumnsAssumption, RowValuesAssumption, RowInvariant, fetch = "OK",
         NEW c \in Fetch!OfType(Fetch!Integer)
  PROVE  /\ Fetch!drizzle_stmt_get_is_unsigned(c) = columns[c].unsigned
         /\ Fetch!FromName(columns[c].name, Fetch!drizzle_stmt_get_bigint)
              = Fetch!Got("OK", sent[c].value)
         /\ sent[c].value < 2^Bits["LONG"]
              => Fetch!drizzle_stmt_get_int(c) = Fetch!Got("OK", sent[c].value)
         /\ columns[c].unsigned \/ columns[c].type \in {"LONG", "LONGLONG"}
              => Fetch!drizzle_stmt_get_string(c) = Fetch!Got("OK", Fetch!Number(c))
<1> DEFINE param == result_params[c]
           type == columns[c].type
           n == sent[c].value
<1>1. c \in Fetch!Columns /\ type \in Fetch!Integer /\ ~ Fetch!IsNull(sent[c])
  BY DEF Fetch!OfType
<1>2. /\ DOMAIN Bits = {"TINY", "SHORT", "LONG", "LONGLONG"} /\ 2^Bits["LONG"] \in Nat
      /\ type \in DOMAIN Bits
  BY <1>1 DEF ColumnsAssumption, Fetch!Integer
<1>3. /\ columns \in ColumnLists /\ c \in DOMAIN columns
      /\ sent[c] \in RowValues /\ sent[c].type = type
      /\ param.type = type /\ param.is_unsigned = columns[c].unsigned
      /\ columns[c].unsigned \in BOOLEAN
  BY <1>1, ColumnFetched DEF Fetch!Columns
<1>4. param.data = n
  <2>1. type \notin Fetch!Dates /\ type # "TIME"
    BY <1>2 DEF Fetch!Dates
  <2> DEFINE place == Fetch!Position({k \in DOMAIN columns : Fetch!IsNull(sent[k])}, c)
  <2>2. param.data = Fetch!Unpacked(type, Fetch!Field(type, n), columns[place].decimals)
    BY <1>1, ColumnFetched
  <2> HIDE DEF param, type, n, place
  <2> QED BY <2>1, <2>2 DEF Fetch!Unpacked, Fetch!Field
<1>5. n \in Nat
  BY <1>2, <1>3 DEF RowValuesAssumption
<1>6. Fetch!drizzle_stmt_get_bigint(c) = Fetch!Got("OK", n)
  BY <1>2, <1>3, <1>4 DEF Fetch!drizzle_stmt_get_bigint, Fetch!Integer, Fetch!Float
<1>7. n < 2^Bits["LONG"] => Fetch!drizzle_stmt_get_int(c) = Fetch!Got("OK", n)
  <2> SUFFICES ASSUME n < 2^Bits["LONG"]
               PROVE  Fetch!drizzle_stmt_get_int(c) = Fetch!Got("OK", n)
    OBVIOUS
  <2> DEFINE all == 2^Bits["LONG"]
  <2>1. all \in Nat /\ n < all
    BY <1>2
  <2> HIDE DEF all
  <2>2. n % all = n
    BY <1>5, <2>1
  <2>3. Fetch!drizzle_stmt_get_int(c) = Fetch!Got("OK", param.data % all)
    BY <1>2, <1>3 DEF Fetch!drizzle_stmt_get_int, Fetch!Integer, Fetch!Float, all
  <2> QED BY <1>4, <2>2, <2>3
<1>8. columns[c].unsigned \/ type \in {"LONG", "LONGLONG"}
        => Fetch!drizzle_stmt_get_string(c) = Fetch!Got("OK", Fetch!Number(c))
  <2>1. Fetch!drizzle_stmt_get_string(c) = Fetch!Got("OK", Fetch!NumberText(param))
    BY <1>2, <1>3 DEF Fetch!drizzle_stmt_get_string, Fetch!Integer, Fetch!Float,
                      Fetch!Dates, Fetch!Text
  <2>2. columns[c].unsigned \/ type \in {"LONG", "LONGLONG"}
          => Fetch!NumberText(param) = Fetch!Number(c)
    BY <1>3, <1>4 DEF Fetch!NumberText, Fetch!Number
  <2> QED BY <2>1, <2>2
<1>9. Fetch!FromName(columns[c].name, Fetch!drizzle_stmt_get_bigint) = Fetch!Got("OK", n)
  <2>1. Fetch!drizzle_stmt_column_lookup(columns[c].name) = Fetch!Got("OK", c)
    BY <1>2, <1>3, FoundByName
  <2> DEFINE name == columns[c].name
  <2> HIDE DEF name, n
  <2>2. Fetch!FromName(name, Fetch!drizzle_stmt_get_bigint) = Fetch!drizzle_stmt_get_bigint(c)
    BY <2>1, ByName DEF name
  <2> QED BY <1>6, <2>2, Zenon DEF name
<1>10. Fetch!drizzle_stmt_get_is_unsigned(c) = columns[c].unsigned
  BY <1>3 DEF Fetch!drizzle_stmt_get_is_unsigned
<1> QED BY <1>7, <1>8, <1>9, <1>10

(* A float, a text, and a time or a date are what was sent.                *)
LEMMA OthersFetched ==
  ASSUME ColumnsAssumption, RowValuesAssumption, RowInvariant, fetch = "OK"
  PROVE  /\ \A c \in Fetch!OfType(Fetch!Float) :
              Fetch!drizzle_stmt_get_double(c) = Fetch!Got("OK", sent[c].value)
         /\ \A c \in Fetch!OfType(Fetch!Text) :
              Fetch!drizzle_stmt_get_string(c) = Fetch!Got("OK", sent[c].value)
         /\ \A c \in Fetch!OfType({"TIME"} \cup Fetch!Dates) :
              Fetch!Whole(result_params[c].data) = sent[c].value
<1>1. Fetch!Integer = {"TINY", "SHORT", "LONG", "LONGLONG"}
  BY DEF ColumnsAssumption, Fetch!Integer
<1>2. ASSUME NEW c \in Fetch!OfType(Fetch!Float \cup Fetch!Text)
      PROVE  /\ result_params[c].type = columns[c].type
             /\ result_params[c].data = sent[c].value
  <2> DEFINE type == columns[c].type
             n == sent[c].value
             place == Fetch!Position({k \in DOMAIN columns : Fetch!IsNull(sent[k])}, c)
  <2>1. /\ c \in Fetch!Columns /\ ~ Fetch!IsNull(sent[c])
        /\ type \notin Fetch!Dates /\ type # "TIME"
    BY DEF Fetch!OfType, Fetch!Float, Fetch!Text, Fetch!Dates
  <2>2. /\ result_params[c].type = type
        /\ result_params[c].data
             = Fetch!Unpacked(type, Fetch!Field(type, n), columns[place].decimals)
    BY <2>1, ColumnFetched
  <2> HIDE DEF type, n, place
  <2>3. result_params[c].data = n
    BY <2>1, <2>2 DEF Fetch!Unpacked, Fetch!Field
  <2> QED BY <2>2, <2>3 DEF type, n
<1>3. ASSUME NEW c \in Fetch!OfType(Fetch!Float)
      PROVE  Fetch!drizzle_stmt_get_double(c) = Fetch!Got("OK", sent[c].value)
  <2>1. c \in Fetch!OfType(Fetch!Float \cup Fetch!Text) /\ columns[c].type \in Fetch!Float
    BY DEF Fetch!OfType
  <2> QED BY <1>1, <1>2, <2>1 DEF Fetch!drizzle_stmt_get_double, Fetch!Float
<1>4. ASSUME NEW c \in Fetch!OfType(Fetch!Text)
      PROVE  Fetch!drizzle_stmt_get_string(c) = Fetch!Got("OK", sent[c].value)
  <2>1. c \in Fetch!OfType(Fetch!Float \cup Fetch!Text) /\ columns[c].type \in Fetch!Text
    BY DEF Fetch!OfType
  <2> QED BY <1>1, <1>2, <2>1 DEF Fetch!drizzle_stmt_get_string, Fetch!Float,
                                  Fetch!Text, Fetch!Dates
<1>5. ASSUME NEW c \in Fetch!OfType({"TIME"} \cup Fetch!Dates)
      PROVE  Fetch!Whole(result_params[c].data) = sent[c].value
  <2> DEFINE type == columns[c].type
             t == sent[c].value
             decimals ==
               columns[Fetch!Position({k \in DOMAIN columns : Fetch!IsNull(sent[k])}, c)].decimals
             data == result_params[c].data
  <2>1. c \in Fetch!Columns /\ ~ Fetch!IsNull(sent[c]) /\ type \in {"TIME", "DATE", "DATETIME"}
    BY DEF Fetch!OfType, Fetch!Dates
  <2>2. /\ sent[c] \in RowValues /\ sent[c].type = type
        /\ data = Fetch!Unpacked(type, Fetch!Field(type, t), decimals)
    BY <2>1, ColumnFetched
  <2> HIDE DEF type, decimals, data
  <2>3. CASE type = "TIME"
    <3>1. data = Fetch!drizzle_unpack_time(Tail(Fetch!drizzle_pack_time(t)), decimals)
      BY <2>2, <2>3 DEF Fetch!Unpacked, Fetch!Field, Fetch!Dates
    <3>2. Fetch!drizzle_unpack_time(Tail(Fetch!drizzle_pack_time(t)), 0) = t
      BY <2>2, <2>3, Zenon DEF RowValuesAssumption
    <3> QED BY <3>1, <3>2, WholeTime, Zenon DEF data
  <2>4. CASE type \in {"DATE", "DATETIME"}
    <3>1. data = Fetch!drizzle_unpack_datetime(Tail(Fetch!drizzle_pack_datetime(t)), decimals)
      BY <2>2, <2>4 DEF Fetch!Unpacked, Fetch!Field, Fetch!Dates
    <3>2. Fetch!drizzle_unpack_datetime(Tail(Fetch!drizzle_pack_datetime(t)), 0) = t
      BY <2>2, <2>4, Zenon DEF RowValuesAssumption
    <3> QED BY <3>1, <3>2, WholeDatetime, Zenon DEF data
  <2> QED BY <2>1, <2>3, <2>4
<1> QED BY <1>3, <1>4, <1>5

(* The first property: every column, by every function.                    *)
LEMMA RowsAsSent ==
  ASSUME ColumnsAssumption, RowValuesAssumption, RowInvariant
  PROVE  FetchedAsSent
<1> SUFFICES ASSUME fetch = "OK"
             PROVE  Fetch!FetchedAsSent
  BY DEF FetchedAsSent, Fetch!FetchedAsSent
<1>1. ASSUME NEW c \in Fetch!Columns
      PROVE  /\ Fetch!drizzle_stmt_get_is_null(c) = Fetch!IsNull(sent[c])
             /\ Fetch!IsNull(sent[c]) => Fetch!drizzle_stmt_get_string(c).ret = "NULL_SIZE"
  <2>1. IF Fetch!IsNull(sent[c])
        THEN result_params[c].type = "NULL" /\ result_params[c].is_null = TRUE
        ELSE result_params[c].is_null = FALSE
    BY ColumnFetched
  <2>2. Fetch!drizzle_stmt_get_is_null(c) = Fetch!IsNull(sent[c])
    BY <2>1 DEF Fetch!drizzle_stmt_get_is_null, Fetch!IsNull
  <2>3. ASSUME result_params[c].type = "NULL"
        PROVE  Fetch!drizzle_stmt_get_string(c) = Fetch!Got("NULL_SIZE", 0)
    BY <2>3 DEF ColumnsAssumption, Fetch!drizzle_stmt_get_string, Fetch!Integer,
                Fetch!Float, Fetch!Dates, Fetch!Text
  <2> QED BY <2>1, <2>2, <2>3 DEF Fetch!Got
<1> QED BY <1>1, IntegersFetched, OthersFetched DEF Fetch!FetchedAsSent

(* The second: the text of a time.                                         *)
LEMMA TimesFit ==
  ASSUME ColumnsAssumption, RowValuesAssumption, RowInvariant
  PROVE  TextsFit
<1> SUFFICES ASSUME fetch = "OK", NEW c \in Fetch!OfType({"TIME"})
             PROVE  LET text == Fetch!drizzle_stmt_get_string(c).value IN
                    \/ text.negative /\ text.hours >= 100 /\ text.microsecond >= 0
                    \/ Fetch!TimeTextLength(text) < Fetch!TimeTextSize
  BY DEF TextsFit, Fetch!TextsFit
<1> DEFINE t == result_params[c].data
           text == Fetch!time_to_string(t)
<1>1. c \in Fetch!Columns /\ ~ Fetch!IsNull(sent[c]) /\ columns[c].type = "TIME"
  BY DEF Fetch!OfType
<1>2. result_params[c].type = "TIME" /\ sent[c] \in RowValues /\ sent[c].type = "TIME"
  BY <1>1, ColumnFetched
<1>3. Fetch!drizzle_stmt_get_string(c) = Fetch!Got("OK", text)
  <2>1. Fetch!Integer = {"TINY", "SHORT", "LONG", "LONGLONG"}
    BY DEF ColumnsAssumption, Fetch!Integer
  <2> HIDE DEF text
  <2>2. Fetch!drizzle_stmt_get_string(c) = Fetch!Got("OK", Fetch!time_to_string(t))
    BY <1>2, <2>1 DEF Fetch!drizzle_stmt_get_string, Fetch!Float, Fetch!Dates, Fetch!Text
  <2> QED BY <2>2 DEF text
<1>4. t.hour \in Nat /\ t.day \in Nat
  <2>1. Fetch!Whole(t) = sent[c].value
    <3>1. c \in Fetch!OfType({"TIME"} \cup Fetch!Dates)
      BY DEF Fetch!OfType
    <3> QED BY <3>1, OthersFetched, Zenon
  <2>2. sent[c].value.hour \in Nat /\ sent[c].value.day \in Nat
    BY <1>2, Zenon DEF RowValuesAssumption
  <2>3. Fetch!Whole(t).hour = t.hour /\ Fetch!Whole(t).day = t.day
    BY DEF Fetch!Whole
  <2> QED BY <2>1, <2>2, <2>3
<1>5. text.hours \in Int
  BY <1>4 DEF Fetch!time_to_string
<1> HIDE DEF text
<1>6. \/ text.negative /\ text.hours >= 100 /\ text.microsecond >= 0
      \/ Fetch!TimeTextLength(text) < Fetch!TimeTextSize
  BY <1>5 DEF Fetch!TimeTextLength, Fetch!TimeTextSize
<1>7. Fetch!drizzle_stmt_get_string(c).value = text
  BY <1>3 DEF Fetch!Got
<1> QED BY <1>6, <1>7

(* The third: the decimals that a time is unpacked with.                   *)
LEMMA DecimalsKept ==
  ASSUME ColumnsAssumption, RowValuesAssumption, RowInvariant
  PROVE  DecimalsShown
<1> SUFFICES ASSUME fetch = "OK", NEW c \in Fetch!OfType({"TIME", "DATETIME"}),
                    \A k \in 1..(c - 1) : ~ Fetch!IsNull(sent[k])
             PROVE  \/ result_params[c].data = Fetch!Midnight
                    \/ result_params[c].data.show <=> columns[c].decimals # 0
  BY DEF DecimalsShown, Fetch!DecimalsShown
<1> DEFINE nulls == {k \in DOMAIN columns : Fetch!IsNull(sent[k])}
           type == columns[c].type
           data == result_params[c].data
           field == Fetch!Field(type, sent[c].value)
<1>1. c \in Fetch!Columns /\ ~ Fetch!IsNull(sent[c]) /\ type \in {"TIME", "DATETIME"}
  BY DEF Fetch!OfType
<1>2. data = Fetch!Unpacked(type, field, columns[Fetch!Position(nulls, c)].decimals)
  BY <1>1, ColumnFetched
<1>3. Fetch!Position(nulls, c) = c
  <2>1. c \in Nat \ {0}
    <3>1. columns \in ColumnLists /\ c \in DOMAIN columns
      BY <1>1, ColumnFetched DEF Fetch!Columns
    <3> QED BY <3>1 DEF ColumnsAssumption
  <2>2. \A k \in 1..(c - 1) : k \notin nulls
    OBVIOUS
  <2> HIDE DEF nulls
  <2> QED BY <2>1, <2>2, PlaceOfColumn
<1> HIDE DEF nulls, type, data, field
<1>4. \/ data = Fetch!drizzle_unpack_time(field, columns[c].decimals)
      \/ data = Fetch!drizzle_unpack_datetime(field, columns[c].decimals)
  BY <1>1, <1>2, <1>3 DEF Fetch!Unpacked, Fetch!Dates
<1>5. data = Fetch!Midnight \/ data.show = (columns[c].decimals # 0)
  BY <1>4, ShowsDecimals
<1> QED BY <1>5 DEF data

(* Each call keeps what is known of the row.                               *)
LEMMA RowStep ==
  ASSUME ColumnsAssumption, RowInvariant, Fetch!Next
  PROVE  RowInvariant'
<1>1. CASE Fetch!Execute
  BY <1>1, ExecutingKeeps
<1>2. CASE Fetch!FetchRow
  BY <1>2, RowFetched
<1>3. CASE \/ Fetch!FetchEnd
           \/ Fetch!FetchUnexecuted
  <2>1. UNCHANGED <<columns, result_params, sent>> /\ fetch' # "OK"
    BY <1>3 DEF Fetch!FetchEnd, Fetch!FetchUnexecuted
  <2> QED BY <2>1 DEF RowInvariant, IsParam
<1> QED BY <1>1, <1>2, <1>3 DEF Fetch!Next, Fetch!drizzle_stmt_fetch

(* For any lists of columns and any values of them, after any number of    *)
(* executions and rows: result_params have their parts, and after a fetch  *)
(* that returned OK they have what was sent in that row.                   *)
THEOREM RowsAreInvariant == Spec => []RowInvariant
<1>1. Init => RowInvariant
  BY RowsInitially
<1>2. RowInvariant /\ [Next]_<<of, packetVars, requestVars, rowVars>> => RowInvariant'
  <2> SUFFICES ASSUME RowInvariant, [Next]_<<of, packetVars, requestVars, rowVars>>
               PROVE  RowInvariant'
    OBVIOUS
  <2>1. CASE Fetch!Next
    BY <2>1, ColumnsAssumption, RowStep
  <2>2. CASE UNCHANGED rowVars
    BY <2>2 DEF RowInvariant, IsParam, HasWhatWasSent, rowVars
  <2> QED BY <2>1, <2>2 DEF Next
<1> QED BY <1>1, <1>2, PTL DEF Spec

(* drizzle_stmt_fetch and the drizzle_stmt_get functions: every column has *)
(* the value of this row, NULL or not, by its number or by its name.       *)
THEOREM RowsHoldWhatWasSent == Spec => []FetchedAsSent
<1>1. RowInvariant => FetchedAsSent
  BY ColumnsAssumption, RowValuesAssumption, RowsAsSent
<1> QED BY <1>1, RowsAreInvariant, PTL

(* The text that time_to_string makes fits its buffer, for any time but a  *)
(* negative one of a hundred hours or more with microseconds.              *)
THEOREM TextsOfTimesFit == Spec => []TextsFit
<1>1. RowInvariant => TextsFit
  BY ColumnsAssumption, RowValuesAssumption, TimesFit
<1> QED BY <1>1, RowsAreInvariant, PTL

(* The microseconds of a time are shown if its column has decimals, for any*)
(* columns, unless a column before it is NULL.                             *)
THEOREM DecimalsOfTheColumn == Spec => []DecimalsShown
<1>1. RowInvariant => DecimalsShown
  BY ColumnsAssumption, RowValuesAssumption, DecimalsKept
<1> QED BY <1>1, RowsAreInvariant, PTL

================================================================================
