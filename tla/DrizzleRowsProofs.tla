--------------------------- MODULE DrizzleRowsProofs ---------------------------
(***************************************************************************)
(* Proofs that RowsInvariant is inductive, for any number of columns and   *)
(* rows, any sizes and both formats, as long as no row is as long as a     *)
(* packet (RowsFit), and that the values, rows and sizes an application is *)
(* given are those the server sent.  First what FlattenSeq makes of a      *)
(* sequence, by induction on the numbers; then what a row is in the stream *)
(* and what is left of it behind a column; then the invariant, one lemma   *)
(* for each action, and the properties.                                    *)
(***************************************************************************)
EXTENDS DrizzleRows, SequenceTheorems, FiniteSetTheorems, WellFoundedInduction, TLAPS

LEMMA Numbers ==
  ASSUME NEW S, S \subseteq Nat, 0 \in S, \A n \in S : n + 1 \in S
  PROVE  S = Nat
<1> DEFINE R == OpToRel(<, Nat)
           T == Nat \ S
<1>1. IsWellFoundedOn(R, Nat)
  BY NatLessThanWellFounded
<1>2. ASSUME T # {} PROVE FALSE
  <2> HIDE DEF T
  <2>1. PICK x \in T : \A y \in T : ~ (<<y, x>> \in R)
    <3>1. T \subseteq Nat
      BY DEF T
    <3> HIDE DEF R
    <3> QED BY <1>1, <1>2, <3>1, WFMin
  <2>2. x # 0 /\ x \in Nat
    BY DEF T
  <2>3. x - 1 \in T
    BY <2>2 DEF T
  <2>4. <<x - 1, x>> \in R
    BY <2>2, <2>3 DEF R, OpToRel
  <2> QED BY <2>1, <2>3, <2>4
<1> QED BY <1>2

(* The sequences put together so far, as FlattenSeq goes along s. *)
Runs(g, s, n) == g = [i \in 1..n |-> IF i = 1 THEN s[i] ELSE g[i-1] \o s[i]]

LEMMA RunExists ==
  ASSUME NEW s, NEW n \in Nat
  PROVE  \E g : Runs(g, s, n)
<1> DEFINE E == {m \in Nat : \E g : Runs(g, s, m)}
<1>1. 0 \in E
  <2> DEFINE g0 == [i \in 1..0 |-> s[i]]
  <2>1. 1..0 = {}
    OBVIOUS
  <2>2. Runs(g0, s, 0)
    BY <2>1 DEF Runs
  <2> QED BY <2>2
<1>2. ASSUME NEW m \in E PROVE m + 1 \in E
  <2>1. PICK g : Runs(g, s, m)
    OBVIOUS
  <2> DEFINE h == [i \in 1..(m + 1) |->
                     IF i = 1 THEN s[i] ELSE g[i - 1] \o s[i]]
  <2>2. \A i \in 1..m : g[i] = IF i = 1 THEN s[i] ELSE g[i - 1] \o s[i]
    BY <2>1, Zenon DEF Runs
  <2>3. \A i \in 1..m : h[i] = g[i]
    <3>1. \A i \in 1..m : i \in 1..(m + 1)
      OBVIOUS
    <3>2. \A i \in 1..(m + 1) : h[i] = IF i = 1 THEN s[i] ELSE g[i - 1] \o s[i]
      BY Zenon
    <3> HIDE DEF h
    <3> QED BY <2>2, <3>1, <3>2, Zenon
  <2>4. h = [i \in 1..(m + 1) |-> IF i = 1 THEN s[i] ELSE h[i - 1] \o s[i]]
    <3>1. \A i \in 1..(m + 1) : h[i] = IF i = 1 THEN s[i] ELSE h[i - 1] \o s[i]
      <4>1. \A i \in 1..(m + 1) : h[i] = IF i = 1 THEN s[i] ELSE g[i - 1] \o s[i]
        BY Zenon
      <4>2. \A i \in 1..(m + 1) : i # 1 => i - 1 \in 1..m
        OBVIOUS
      <4> HIDE DEF h
      <4> QED BY <2>3, <4>1, <4>2, Zenon
    <3> QED BY <3>1, Zenon
  <2>5. Runs(h, s, m + 1)
    BY <2>4 DEF Runs
  <2> QED BY <2>5
<1>3. E = Nat
  <2> HIDE DEF E
  <2>1. E \subseteq Nat
    BY DEF E
  <2> QED BY <1>1, <1>2, <2>1, Numbers
<1> QED BY <1>3

LEMMA Flattened ==
  ASSUME NEW s, Len(s) \in Nat, Len(s) # 0
  PROVE  \E g : Runs(g, s, Len(s)) /\ FlattenSeq(s) = g[Len(s)]
<1> DEFINE f == CHOOSE g : g = [i \in 1..Len(s) |-> IF i = 1 THEN s[i] ELSE g[i-1] \o s[i]]
<1>1. \E g : g = [i \in 1..Len(s) |-> IF i = 1 THEN s[i] ELSE g[i-1] \o s[i]]
  BY RunExists DEF Runs
<1>2. Runs(f, s, Len(s))
  BY <1>1, Zenon DEF Runs
<1>3. FlattenSeq(s) = f[Len(s)]
  BY Zenon DEF FlattenSeq
<1> QED BY <1>2, <1>3

LEMMA Regroup ==
  ASSUME NEW S, NEW a \in Seq(S), NEW b \in Seq(S), NEW c \in Seq(S)
  PROVE  (a \o b) \o c = a \o (b \o c) /\ a \o b \in Seq(S) /\ b \o c \in Seq(S)
<1> DEFINE u == (a \o b) \o c
           v == a \o (b \o c)
<1>1. u \in Seq(S) /\ v \in Seq(S) /\ Len(u) = Len(v)
  OBVIOUS
<1>2. \A i \in 1..Len(u) : u[i] = v[i]
  OBVIOUS
<1> HIDE DEF u, v
<1>3. u = v
  BY <1>1, <1>2, SeqEqual
<1> QED BY <1>3 DEF u, v

LEMMA Regroups ==
  \A S : \A a, b, c \in Seq(S) :
    (a \o b) \o c = a \o (b \o c) /\ a \o b \in Seq(S) /\ b \o c \in Seq(S)
BY Regroup

LEMMA LenIs ==
  ASSUME NEW n \in Nat, NEW f, DOMAIN f = 1..n
  PROVE  Len(f) = n
OBVIOUS

(* The first of the sequences comes first, then the others.                *)
LEMMA FlattenFirst ==
  ASSUME NEW S, NEW n \in Nat, NEW f \in [1..(n + 1) -> Seq(S)]
  PROVE  /\ FlattenSeq(f) = f[1] \o FlattenSeq([i \in 1..n |-> f[i + 1]])
         /\ FlattenSeq(f) \in Seq(S)
<1> DEFINE t == [i \in 1..n |-> f[i + 1]]
<1>0. \A a, b, c \in Seq(S) :
         (a \o b) \o c = a \o (b \o c) /\ a \o b \in Seq(S) /\ b \o c \in Seq(S)
  BY Regroups, Zenon
<1>1. Len(f) = n + 1 /\ f[1] \in Seq(S)
  BY LenIs
<1>2. Len(t) = n /\ t \in [1..n -> Seq(S)]
  BY LenIs
<1>3. PICK g : Runs(g, f, n + 1) /\ FlattenSeq(f) = g[n + 1]
  BY <1>1, Flattened
<1>4. g[1] = f[1] /\ \A i \in 1..n : g[i + 1] = g[i] \o f[i + 1]
  <2>1. \A i \in 1..(n + 1) : g[i] = IF i = 1 THEN f[i] ELSE g[i - 1] \o f[i]
    BY <1>3, Zenon DEF Runs
  <2>2. 1 \in 1..(n + 1)
    OBVIOUS
  <2>3. \A i \in 1..n : i + 1 \in 1..(n + 1) /\ i + 1 # 1 /\ (i + 1) - 1 = i
    OBVIOUS
  <2> QED BY <2>1, <2>2, <2>3, Zenon
<1>5. CASE n = 0
  <2>1. FlattenSeq(t) = t
    BY <1>2, <1>5 DEF FlattenSeq
  <2>2. t = <<>>
    BY <1>5
  <2>3. FlattenSeq(f) = f[1]
    BY <1>3, <1>4, <1>5
  <2> QED BY <1>1, <2>1, <2>2, <2>3, ConcatEmptySeq
<1>6. CASE n # 0
  <2>1. PICK h : Runs(h, t, n) /\ FlattenSeq(t) = h[n]
    BY <1>2, <1>6, Flattened
  <2>2. h[1] = f[2] /\ \A i \in 1..(n - 1) : h[i + 1] = h[i] \o f[i + 2]
    <3>1. \A i \in 1..n : h[i] = IF i = 1 THEN t[i] ELSE h[i - 1] \o t[i]
      BY <2>1, Zenon DEF Runs
    <3>2. 1 \in 1..n
      BY <1>6
    <3>3. \A i \in 1..(n - 1) : i + 1 \in 1..n /\ i + 1 # 1 /\ (i + 1) - 1 = i
      OBVIOUS
    <3>4. t[1] = f[2] /\ \A i \in 1..(n - 1) : t[i + 1] = f[i + 2]
      BY <1>6
    <3> HIDE DEF t
    <3> QED BY <3>1, <3>2, <3>3, <3>4, Zenon
  <2> DEFINE Follows(m) == h[m] \in Seq(S) /\ g[m + 1] = f[1] \o h[m]
             M == {m \in Nat : m \in 1..n => Follows(m)}
  <2>3. 0 \in M
    OBVIOUS
  <2>4. ASSUME NEW m \in M PROVE m + 1 \in M
    <3>1. CASE m = 0
      <4>1. g[2] = f[1] \o f[2] /\ f[2] \in Seq(S) /\ h[1] = f[2]
        <5>1. 1 \in 1..n /\ 2 \in 1..(n + 1) /\ 1 + 1 = 2
          BY <1>6
        <5>2. g[1 + 1] = g[1] \o f[1 + 1]
          BY <1>4, <5>1
        <5> QED BY <1>4, <2>2, <5>1, <5>2
      <4>2. Follows(1)
        <5>1. 1 + 1 = 2
          OBVIOUS
        <5> QED BY <4>1, <5>1, Zenon
      <4> HIDE DEF Follows
      <4> QED BY <3>1, <4>2
    <3>2. CASE m # 0 /\ m + 1 \in 1..n
      <4>1. m \in 1..n /\ m \in 1..(n - 1) /\ m + 1 \in 1..n /\ m + 2 \in 1..(n + 1)
        BY <3>2
      <4>2. Follows(m)
        <5> HIDE DEF Follows
        <5> QED BY <4>1
      <4> DEFINE u == f[m + 2]
                 v == h[m]
                 w == h[m + 1]
      <4>3. v \in Seq(S) /\ g[m + 1] = f[1] \o v
        BY <4>2
      <4>4. u \in Seq(S)
        BY <4>1
      <4>5. w = v \o u
        BY <2>2, <4>1
      <4>6. g[(m + 1) + 1] = g[m + 1] \o u
        <5>1. g[(m + 1) + 1] = g[m + 1] \o f[(m + 1) + 1]
          BY <1>4, <4>1
        <5>2. (m + 1) + 1 = m + 2
          BY <4>1
        <5> QED BY <5>1, <5>2
      <4>7. g[(m + 1) + 1] = (f[1] \o v) \o u
        BY <4>3, <4>6
      <4> HIDE DEF u, v, w
      <4>8. (f[1] \o v) \o u = f[1] \o (v \o u) /\ v \o u \in Seq(S)
        BY <1>0, <1>1, <4>3, <4>4, Zenon
      <4>9. Follows(m + 1)
        <5>1. w \in Seq(S) /\ g[(m + 1) + 1] = f[1] \o w
          BY <4>5, <4>7, <4>8
        <5> QED BY <5>1, Zenon DEF w
      <4> HIDE DEF Follows
      <4> QED BY <4>9
    <3> HIDE DEF Follows
    <3> QED BY <3>1, <3>2
  <2>5. M = Nat
    <3> HIDE DEF Follows
    <3>1. M \subseteq Nat
      OBVIOUS
    <3> HIDE DEF M
    <3> QED BY <2>3, <2>4, <3>1, Numbers
  <2>7. h[n] \in Seq(S) /\ g[n + 1] = f[1] \o h[n]
    <3>1. n \in M /\ n \in 1..n
      <4> HIDE DEF M
      <4> QED BY <1>6, <2>5
    <3>2. Follows(n)
      <4> HIDE DEF Follows
      <4> QED BY <3>1
    <3> QED BY <3>2
  <2> QED BY <1>1, <1>3, <2>1, <2>7, ConcatProperties
<1> QED BY <1>5, <1>6

LEMMA FlattenNone ==
  ASSUME NEW e(_)
  PROVE  FlattenSeq([i \in 1..0 |-> e(i)]) = <<>>
BY DEF FlattenSeq

----------------------------------------------------------------------------
(* Sequences.                                                              *)

(* A sequence that begins with s: what is taken off and what is left.      *)
LEMMA Cut ==
  ASSUME NEW S, NEW s \in Seq(S), NEW t \in Seq(S)
  PROVE  /\ SubSeq(s \o t, 1, Len(s)) = s
         /\ SubSeq(s \o t, Len(s) + 1, Len(s \o t)) = t
<1>1. s \o t \in Seq(S) /\ Len(s \o t) = Len(s) + Len(t) /\ Len(s) \in Nat /\ Len(t) \in Nat
  BY ConcatProperties, LenProperties
<1> DEFINE u == SubSeq(s \o t, 1, Len(s))
           v == SubSeq(s \o t, Len(s) + 1, Len(s \o t))
<1>2. u \in Seq(S) /\ Len(u) = Len(s) /\ \A i \in 1..Len(s) : u[i] = s[i]
  OBVIOUS
<1>3. v \in Seq(S) /\ Len(v) = Len(t) /\ \A i \in 1..Len(t) : v[i] = t[i]
  OBVIOUS
<1> HIDE DEF u, v
<1>4. u = s
  BY <1>2, SeqEqual
<1>5. v = t
  BY <1>3, SeqEqual
<1> QED BY <1>4, <1>5 DEF u, v

(* One element in front.                                                   *)
LEMMA OneFirst ==
  ASSUME NEW S, NEW a \in S, NEW s \in Seq(S)
  PROVE  /\ <<a>> \o s \in Seq(S) /\ Len(<<a>> \o s) = 1 + Len(s)
         /\ Head(<<a>> \o s) = a /\ Tail(<<a>> \o s) = s
         /\ <<a>> \o s # <<>>
         /\ \A i \in 1..Len(s) : (<<a>> \o s)[i + 1] = s[i]
         /\ SubSeq(<<a>> \o s, 1, 1) = <<a>>
<1>1. <<a>> \in Seq(S) /\ Len(<<a>>) = 1 /\ Len(s) \in Nat
  OBVIOUS
<1> DEFINE w == <<a>> \o s
<1>2. w \in Seq(S) /\ Len(w) = 1 + Len(s) /\ w[1] = a
      /\ \A i \in 1..Len(s) : w[i + 1] = s[i]
  OBVIOUS
<1>3. SubSeq(w, 1, 1) = <<a>>
  BY <1>1, Cut
<1> HIDE DEF w
<1>4. w # <<>>
  BY <1>1, <1>2, EmptySeq
<1>5. Head(w) = a
  BY <1>2, <1>4
<1>6. Tail(w) \in Seq(S) /\ Len(Tail(w)) = Len(s)
      /\ \A i \in 1..Len(s) : Tail(w)[i] = s[i]
  <2>1. Tail(w) \in Seq(S) /\ Len(Tail(w)) = Len(w) - 1
        /\ \A i \in 1..Len(Tail(w)) : Tail(w)[i] = w[i + 1]
    BY <1>2, <1>4, HeadTailProperties
  <2>2. Len(Tail(w)) = Len(s)
    BY <1>1, <1>2, <2>1
  <2> QED BY <1>2, <2>1, <2>2
<1>7. Tail(w) = s
  BY <1>6, SeqEqual
<1> QED BY <1>2, <1>3, <1>4, <1>5, <1>7 DEF w

----------------------------------------------------------------------------
(* What is left of row r behind column c, and what is left of the stream   *)
(* behind row r.                                                           *)
Rest(r, c) ==
  FlattenSeq([k \in 1..(Columns - c) |-> Encoded(rows, binary_rows, r, c + k)])

RestOf(r) ==
  FlattenSeq([k \in 1..(Len(rows) - r) |->
                Packets(RowPayload(rows, binary_rows, r + k))])
    \o Packets(<<Unit(ending, 0, 0, 0)>>)


(* The stream.                                                             *)

Bytes == Seq(Units)

StreamTypeOK ==
  /\ binary_rows \in BOOLEAN /\ rows \in Seq(Row(binary_rows))
  /\ Len(rows) \in 0..MaxRows
  /\ ending \in {"eof", "err"}

(* The values of a row.                                                    *)
LEMMA RowValues ==
  ASSUME StreamTypeOK, NEW r \in 1..Len(rows), NEW c \in Cols
  PROVE  /\ rows[r][c] = Null \/ rows[r][c] \in Nat
         /\ binary_rows /\ c \in FixedColumns /\ rows[r][c] # Null
              => rows[r][c] = FixedSize
         /\ rows[r][c] = Null => Value(r, c) = Null
         /\ rows[r][c] # Null => /\ Value(r, c) \in Bytes /\ Value(r, c) # Null
                                 /\ Len(Value(r, c)) = rows[r][c]
<1>1. rows[r] \in Row(binary_rows)
  BY DEF StreamTypeOK
<1>2. rows[r][c] \in Sizes \cup {Null} /\ Sizes \subseteq Nat
  BY <1>1, RowsAssumption DEF Row, Cols
<1>3. binary_rows /\ c \in FixedColumns => rows[r][c] \in {FixedSize, Null}
  BY <1>1 DEF Row
<1>4. ASSUME rows[r][c] # Null
      PROVE  /\ Value(r, c) \in Bytes /\ Value(r, c) # Null
             /\ Len(Value(r, c)) = rows[r][c]
  <2> DEFINE n == rows[r][c]
             v == [i \in 1..n |-> Unit("data", r, c, i)]
  <2>1. n \in Nat
    BY <1>2, <1>4
  <2>2. \A i \in 1..n : Unit("data", r, c, i) \in Units
    BY <2>1 DEF Unit, Units, Cols
  <2> HIDE DEF n
  <2>3. v \in Bytes /\ Len(v) = n
    BY <2>1, <2>2 DEF Bytes
  <2>4. Value(r, c) = v
    BY <1>4 DEF Value, n
  <2> HIDE DEF v
  <2> QED BY <2>3, <2>4, PointersAssumption DEF n, Bytes
<1> QED BY <1>2, <1>3, <1>4 DEF Value

(* How a value is sent.                                                    *)
LEMMA EncodedIs ==
  ASSUME StreamTypeOK, NEW r \in 1..Len(rows), NEW c \in Cols
  PROVE  LET e == Encoded(rows, binary_rows, r, c)
         IN  /\ e \in Bytes
             /\ c \notin Stored(r) => e = <<>>
             /\ c \in Stored(r) /\ rows[r][c] = Null => e = <<Unit("null", r, c, 0)>>
             /\ rows[r][c] # Null =>
                  e = IF binary_rows /\ c \in FixedColumns THEN Value(r, c)
                      ELSE <<Unit("length", r, c, rows[r][c])>> \o Value(r, c)
<1> DEFINE e == Encoded(rows, binary_rows, r, c)
<1>1. CASE rows[r][c] = Null
  <2>1. e = IF binary_rows THEN <<>> ELSE <<Unit("null", r, c, 0)>>
    BY <1>1 DEF Encoded
  <2>2. c \in Stored(r) <=> ~ binary_rows
    BY <1>1 DEF Stored
  <2>3. Unit("null", r, c, 0) \in Units
    BY DEF Unit, Units, Cols
  <2> HIDE DEF e
  <2>4. <<Unit("null", r, c, 0)>> \in Bytes /\ <<>> \in Bytes
    BY <2>3 DEF Bytes
  <2> QED BY <1>1, <2>1, <2>2, <2>4 DEF e
<1>2. CASE rows[r][c] # Null
  <2>1. e = IF binary_rows /\ c \in FixedColumns THEN Value(r, c)
            ELSE <<Unit("length", r, c, rows[r][c])>> \o Value(r, c)
    BY <1>2 DEF Encoded, Value
  <2>2. c \in Stored(r)
    BY <1>2 DEF Stored
  <2>3. Value(r, c) \in Bytes /\ rows[r][c] \in Nat
    BY <1>2, RowValues
  <2>4. Unit("length", r, c, rows[r][c]) \in Units
    BY <2>3 DEF Unit, Units, Cols
  <2> DEFINE u == Unit("length", r, c, rows[r][c])
             v == Value(r, c)
  <2>5. <<u>> \o v \in Bytes
    <3> HIDE DEF u, v
    <3>1. u \in Units /\ v \in Seq(Units)
      BY <2>3, <2>4 DEF u, v, Bytes
    <3> QED BY <3>1, OneFirst DEF Bytes
  <2> HIDE DEF e
  <2> QED BY <1>2, <2>1, <2>2, <2>3, <2>5 DEF e
<1> QED BY <1>1, <1>2

(* What is left of a row: the next column and what is left behind it.      *)
LEMMA RestLeft ==
  ASSUME StreamTypeOK, NEW r \in 1..Len(rows)
  PROVE  /\ \A c \in 0..(Columns - 1) :
              /\ Rest(r, c) = Encoded(rows, binary_rows, r, c + 1) \o Rest(r, c + 1)
              /\ Rest(r, c) \in Bytes
         /\ Rest(r, Columns) = <<>> /\ Rest(r, Columns) \in Bytes
<1> DEFINE E(c) == Encoded(rows, binary_rows, r, c)
           F(c) == [k \in 1..(Columns - c) |-> E(c + k)]
<1>0. Columns \in Nat \ {0} /\ \A c \in Cols : E(c) \in Bytes
  BY EncodedIs, RowsAssumption
<1>1. \A c : Rest(r, c) = FlattenSeq(F(c))
  BY DEF Rest
<1> HIDE DEF E
<1>2. ASSUME NEW c \in 0..(Columns - 1)
      PROVE  Rest(r, c) = E(c + 1) \o Rest(r, c + 1) /\ Rest(r, c) \in Bytes
  <2> DEFINE n == Columns - (c + 1)
             f == F(c)
  <2>1. n \in Nat /\ n + 1 = Columns - c
    BY <1>0
  <2>2. f \in [1..(n + 1) -> Bytes]
    <3>1. \A k \in 1..(n + 1) : c + k \in Cols
      BY <1>0 DEF Cols
    <3> QED BY <1>0, <2>1, <3>1
  <2>3. [i \in 1..n |-> f[i + 1]] = F(c + 1)
    <3>1. \A i \in 1..n : i + 1 \in 1..(Columns - c) /\ c + (i + 1) = (c + 1) + i
      BY <1>0
    <3>2. \A i \in 1..n : f[i + 1] = E((c + 1) + i)
      BY <3>1
    <3> QED BY <3>2
  <2>4. f[1] = E(c + 1)
    BY <1>0
  <2> HIDE DEF f, n, F
  <2>5. FlattenSeq(f) = f[1] \o FlattenSeq([i \in 1..n |-> f[i + 1]])
        /\ FlattenSeq(f) \in Bytes
    BY <2>1, <2>2, FlattenFirst DEF Bytes
  <2> QED BY <1>1, <2>3, <2>4, <2>5 DEF f
<1>3. Rest(r, Columns) = <<>>
  <2>1. F(Columns) = <<>> /\ Len(F(Columns)) = 0
    BY <1>0
  <2>2. FlattenSeq(F(Columns)) = <<>>
    <3> HIDE DEF F
    <3> QED BY <2>1 DEF FlattenSeq
  <2> QED BY <1>1, <2>2
<1>4. <<>> \in Bytes
  BY DEF Bytes
<1> QED BY <1>2, <1>3, <1>4 DEF E

----------------------------------------------------------------------------
(* The columns a row has a value for, counted.                             *)

LEMMA UptoIs ==
  ASSUME NEW r
  PROVE  /\ IsFiniteSet(Stored(r)) /\ Cardinality(Stored(r)) \in 0..Columns
         /\ Upto(r, 0) = 0 /\ Upto(r, Columns) = Cardinality(Stored(r))
         /\ \A c : Upto(r, c) \in Nat
         /\ \A c \in 0..(Columns - 1) :
              Upto(r, c + 1) = IF c + 1 \in Stored(r) THEN Upto(r, c) + 1 ELSE Upto(r, c)
<1> DEFINE D(c) == {d \in Stored(r) : d <= c}
<1>1. Columns \in Nat /\ Stored(r) \subseteq 1..Columns
  BY RowsAssumption DEF Stored, Cols
<1>2. IsFiniteSet(1..Columns) /\ Cardinality(1..Columns) = Columns
  BY <1>1, FS_Interval
<1>3. IsFiniteSet(Stored(r)) /\ Cardinality(Stored(r)) \in 0..Columns
  <2>1. IsFiniteSet(Stored(r)) /\ Cardinality(Stored(r)) <= Columns
    BY <1>1, <1>2, FS_Subset
  <2> QED BY <1>1, <2>1, FS_CardinalityType
<1>4. \A c : IsFiniteSet(D(c)) /\ Cardinality(D(c)) \in Nat
  <2>1. \A c : D(c) \subseteq Stored(r)
    OBVIOUS
  <2> QED BY <1>3, <2>1, FS_Subset, FS_CardinalityType
<1>5. D(0) = {} /\ D(Columns) = Stored(r)
  BY <1>1
<1>6. Cardinality({}) = 0
  BY FS_EmptySet
<1>7. ASSUME NEW c \in 0..(Columns - 1)
      PROVE  Upto(r, c + 1) = IF c + 1 \in Stored(r) THEN Upto(r, c) + 1 ELSE Upto(r, c)
  <2>1. CASE c + 1 \in Stored(r)
    <3>1. D(c + 1) = D(c) \cup {c + 1} /\ ~ (c + 1 \in D(c))
      BY <1>1, <2>1
    <3>2. Cardinality(D(c) \cup {c + 1}) = Cardinality(D(c)) + 1
      <4> HIDE DEF D
      <4> QED BY <1>4, <3>1, FS_AddElement
    <3> QED BY <2>1, <3>1, <3>2 DEF Upto
  <2>2. CASE c + 1 \notin Stored(r)
    <3>1. D(c + 1) = D(c)
      BY <1>1, <2>2
    <3> QED BY <2>2, <3>1 DEF Upto
  <2> QED BY <2>1, <2>2
<1> QED BY <1>3, <1>4, <1>5, <1>6, <1>7 DEF Upto

(* Counting as far as d counts at least those up to c, and more of them if *)
(* there is one between.                                                   *)
LEMMA UptoGrows ==
  ASSUME NEW r, NEW c \in 0..Columns, NEW d \in c..Columns
  PROVE  /\ Upto(r, c) <= Upto(r, d)
         /\ (\E e \in Stored(r) : c < e /\ e <= d) => Upto(r, c) < Upto(r, d)
         /\ (\A e \in Stored(r) : ~ (c < e /\ e <= d)) => Upto(r, c) = Upto(r, d)
<1> DEFINE C == {x \in Stored(r) : x <= c}
           D == {x \in Stored(r) : x <= d}
<1>1. Stored(r) \subseteq 1..Columns /\ IsFiniteSet(Stored(r)) /\ Columns \in Nat
  BY UptoIs, RowsAssumption DEF Stored, Cols
<1>2. C \subseteq D /\ IsFiniteSet(C) /\ IsFiniteSet(D)
  <2>1. C \subseteq D /\ D \subseteq Stored(r)
    BY <1>1
  <2> QED BY <1>1, <2>1, FS_Subset
<1>3. Cardinality(C) <= Cardinality(D) /\ (Cardinality(C) = Cardinality(D) => C = D)
  BY <1>2, FS_Subset
<1>4. Cardinality(C) \in Nat /\ Cardinality(D) \in Nat
  BY <1>2, FS_CardinalityType
<1>5. (\E e \in Stored(r) : c < e /\ e <= d) => C # D
  BY <1>1
<1>6. (\A e \in Stored(r) : ~ (c < e /\ e <= d)) => C = D
  BY <1>1
<1>7. Upto(r, c) = Cardinality(C) /\ Upto(r, d) = Cardinality(D)
  BY DEF Upto
<1> HIDE DEF C, D
<1> QED BY <1>3, <1>4, <1>5, <1>6, <1>7

(* The rank of a column tells it from the others, and every rank has one.  *)
LEMMA DeliveredIs ==
  ASSUME NEW r
  PROVE  /\ Len(Delivered(r)) = Cardinality(Stored(r))
         /\ DOMAIN Delivered(r) = 1..Cardinality(Stored(r))
         /\ \A c \in Stored(r) : /\ Upto(r, c) \in 1..Cardinality(Stored(r))
                                 /\ Delivered(r)[Upto(r, c)] = c
         /\ \A k \in 1..Cardinality(Stored(r)) : Delivered(r)[k] \in Stored(r)
<1> DEFINE n == Cardinality(Stored(r))
<1>1. Stored(r) \subseteq 1..Columns /\ n \in Nat /\ Columns \in Nat
  <2>1. Stored(r) \subseteq 1..Columns /\ Columns \in Nat
    BY RowsAssumption DEF Stored, Cols
  <2>2. n \in 0..Columns
    BY UptoIs
  <2> QED BY <2>1, <2>2
<1>2. \A c \in Stored(r) : Upto(r, c) \in 1..n
  <2> TAKE c \in Stored(r)
  <2>1. c \in 1..Columns /\ 0 \in 0..Columns /\ c \in 0..Columns
        /\ c \in 0..Columns /\ Columns \in c..Columns
    BY <1>1
  <2>2. Upto(r, 0) < Upto(r, c)
    BY <2>1, UptoGrows
  <2>3. Upto(r, c) <= Upto(r, Columns)
    BY <2>1, UptoGrows
  <2>4. Upto(r, 0) = 0 /\ Upto(r, Columns) = n /\ Upto(r, c) \in Nat
    BY UptoIs
  <2> QED BY <1>1, <2>2, <2>3, <2>4
<1>3. \A c, d \in Stored(r) : c # d => Upto(r, c) # Upto(r, d)
  <2>1. \A c, d \in Stored(r) : c < d => Upto(r, c) < Upto(r, d)
    <3> TAKE c, d \in Stored(r)
    <3> HAVE c < d
    <3>1. c \in 0..Columns /\ d \in c..Columns
      BY <1>1
    <3> QED BY <3>1, UptoGrows
  <2>2. \A c \in Stored(r) : Upto(r, c) \in Nat /\ c \in Nat
    BY <1>1, UptoIs
  <2> QED BY <2>1, <2>2
<1>4. \A k \in 1..n : \E c \in Stored(r) : Upto(r, c) = k
  <2> DEFINE Hit(c) == \A k \in 1..Upto(r, c) : \E d \in Stored(r) : Upto(r, d) = k
             M == {c \in Nat : c <= Columns => Hit(c)}
  <2>1. 0 \in M
    BY UptoIs
  <2>2. ASSUME NEW c \in M PROVE c + 1 \in M
    <3>1. CASE c + 1 <= Columns
      <4>1. Hit(c) /\ c \in 0..(Columns - 1)
        BY <1>1, <3>1
      <4>2. Upto(r, c + 1) = IF c + 1 \in Stored(r) THEN Upto(r, c) + 1 ELSE Upto(r, c)
        BY <4>1, UptoIs
      <4>3. Upto(r, c) \in Nat
        BY UptoIs
      <4>4. Hit(c + 1)
        BY <4>1, <4>2, <4>3
      <4> QED BY <4>4
    <3>2. CASE ~ (c + 1 <= Columns)
      BY <3>2
    <3> QED BY <3>1, <3>2
  <2>3. M = Nat
    <3> HIDE DEF Hit
    <3>1. M \subseteq Nat
      OBVIOUS
    <3> HIDE DEF M
    <3> QED BY <2>1, <2>2, <3>1, Numbers
  <2>4. Hit(Columns)
    <3> HIDE DEF Hit
    <3>1. Columns \in M
      <4> HIDE DEF M
      <4> QED BY <1>1, <2>3
    <3> QED BY <1>1, <3>1
  <2> QED BY <2>4, UptoIs
<1>5. Delivered(r) = [k \in 1..n |-> CHOOSE c \in Stored(r) : Upto(r, c) = k]
  BY DEF Delivered
<1>6. Len(Delivered(r)) = n /\ DOMAIN Delivered(r) = 1..n
  <2>1. DOMAIN Delivered(r) = 1..n
    BY <1>5
  <2> HIDE DEF n
  <2> QED BY <1>1, <2>1, LenIs
<1>7. \A k \in 1..n : Delivered(r)[k] \in Stored(r) /\ Upto(r, Delivered(r)[k]) = k
  <2> TAKE k \in 1..n
  <2>1. Delivered(r)[k] = CHOOSE c \in Stored(r) : Upto(r, c) = k
    BY <1>5
  <2> QED BY <1>4, <2>1
<1> QED BY <1>2, <1>3, <1>6, <1>7

LEMMA StoredIs ==
  ASSUME StreamTypeOK, NEW r \in 1..Len(rows)
  PROVE  /\ Stored(r) \subseteq Cols
         /\ ~ binary_rows => /\ Stored(r) = Cols /\ Cardinality(Stored(r)) = Columns
                             /\ \A c \in 0..Columns : Upto(r, c) = c
         /\ Cardinality(Nulls(r)) \in 0..Columns
         /\ binary_rows => /\ Stored(r) = Cols \ Nulls(r)
                           /\ Cardinality(Stored(r)) = Columns - Cardinality(Nulls(r))
<1>1. Columns \in Nat /\ Cols = 1..Columns
  BY RowsAssumption DEF Cols
<1>2. IsFiniteSet(Cols) /\ Cardinality(Cols) = Columns
  BY <1>1, FS_Interval
<1>3. ASSUME ~ binary_rows
      PROVE  /\ Stored(r) = Cols /\ Cardinality(Stored(r)) = Columns
             /\ \A c \in 0..Columns : Upto(r, c) = c
  <2>1. Stored(r) = Cols
    BY <1>3 DEF Stored
  <2>2. \A c \in 0..Columns : Upto(r, c) = c
    <3> TAKE c \in 0..Columns
    <3>1. {d \in Stored(r) : d <= c} = 1..c
      BY <1>1, <2>1
    <3>2. Cardinality(1..c) = c
      BY FS_Interval, <1>1
    <3> QED BY <3>1, <3>2 DEF Upto
  <2> QED BY <1>2, <2>1, <2>2
<1>4. Nulls(r) \subseteq Cols
  BY DEF Nulls
<1>5. IsFiniteSet(Nulls(r)) /\ Cardinality(Nulls(r)) \in Nat /\ Cardinality(Nulls(r)) <= Columns
  BY <1>2, <1>4, FS_Subset, FS_CardinalityType
<1>6. ASSUME binary_rows
      PROVE  /\ Stored(r) = Cols \ Nulls(r)
             /\ Cardinality(Stored(r)) = Columns - Cardinality(Nulls(r))
  <2>1. Stored(r) = Cols \ Nulls(r)
    BY <1>6 DEF Stored, Nulls
  <2>2. Cols \cap Nulls(r) = Nulls(r)
    BY <1>4
  <2>3. Cardinality(Cols \ Nulls(r)) = Cardinality(Cols) - Cardinality(Cols \cap Nulls(r))
    BY <1>2, FS_Difference
  <2> QED BY <1>2, <2>1, <2>2, <2>3
<1> QED BY <1>1, <1>3, <1>5, <1>6 DEF Stored

----------------------------------------------------------------------------
(* What is left of a row and of the stream.                                *)

(* The columns a row has no value for leave nothing behind.                *)
LEMMA RestSkips ==
  ASSUME StreamTypeOK, NEW r \in 1..Len(rows), NEW c \in 0..Columns
  PROVE  \A d \in c..Columns :
           (\A e \in Stored(r) : ~ (c < e /\ e <= d)) => Rest(r, c) = Rest(r, d)
<1> DEFINE Skips(n) == (\A e \in Stored(r) : ~ (c < e /\ e <= c + n))
                         => Rest(r, c) = Rest(r, c + n)
           M == {n \in Nat : c + n <= Columns => Skips(n)}
<1>0. Columns \in Nat
  BY RowsAssumption
<1>1. 0 \in M
  OBVIOUS
<1>2. ASSUME NEW n \in M PROVE n + 1 \in M
  <2>1. ASSUME c + (n + 1) <= Columns,
               \A e \in Stored(r) : ~ (c < e /\ e <= c + (n + 1))
        PROVE  Rest(r, c) = Rest(r, c + (n + 1))
    <3> DEFINE d == c + n
    <3>1. d \in 0..(Columns - 1) /\ d + 1 = c + (n + 1) /\ d + 1 \in Cols
      BY <1>0, <2>1 DEF Cols
    <3>2. Skips(n)
      BY <1>0, <3>1
    <3>3. \A e \in Stored(r) : ~ (c < e /\ e <= c + n)
      BY <2>1, <1>0 DEF Stored, Cols
    <3>4. Rest(r, c) = Rest(r, d)
      BY <3>2, <3>3
    <3>5. ~ (d + 1 \in Stored(r))
      BY <2>1, <1>0
    <3> HIDE DEF d
    <3>6. Encoded(rows, binary_rows, r, d + 1) = <<>>
      BY <3>1, <3>5, EncodedIs
    <3>7. Rest(r, d) = <<>> \o Rest(r, d + 1)
      BY <3>1, <3>6, RestLeft
    <3>8. Rest(r, d + 1) \in Seq(Units)
      <4>1. d + 1 \in 0..(Columns - 1) \/ d + 1 = Columns
        BY <1>0, <3>1
      <4> QED BY <4>1, RestLeft DEF Bytes
    <3>9. Rest(r, d) = Rest(r, d + 1)
      BY <3>7, <3>8, ConcatEmptySeq
    <3> QED BY <3>1, <3>4, <3>9
  <2> QED BY <2>1
<1>3. M = Nat
  <2> HIDE DEF Skips
  <2>1. M \subseteq Nat
    OBVIOUS
  <2> HIDE DEF M
  <2> QED BY <1>1, <1>2, <2>1, Numbers
<1>4. \A n \in Nat : c + n <= Columns => Skips(n)
  <2> HIDE DEF Skips
  <2>1. \A n \in Nat : n \in M
    <3> HIDE DEF M
    <3> QED BY <1>3
  <2> QED BY <2>1
<1> TAKE d \in c..Columns
<1>5. d - c \in Nat /\ c + (d - c) = d
  BY <1>0
<1>6. Skips(d - c)
  <2> HIDE DEF Skips
  <2> QED BY <1>4, <1>5
<1> QED BY <1>5, <1>6

(* What is left behind column c begins with the next column that has a     *)
(* value.                                                                  *)
LEMMA RestNext ==
  ASSUME StreamTypeOK, NEW r \in 1..Len(rows), NEW c \in 0..Columns
  PROVE  /\ Rest(r, c) \in Bytes
         /\ \A d \in Stored(r) :
              c < d /\ (\A e \in Stored(r) : ~ (c < e /\ e < d))
                => Rest(r, c) = Encoded(rows, binary_rows, r, d) \o Rest(r, d)
         /\ (\A e \in Stored(r) : ~ (c < e)) => Rest(r, c) = <<>>
<1>0. Columns \in Nat /\ Stored(r) \subseteq 1..Columns
  BY RowsAssumption DEF Stored, Cols
<1>1. Rest(r, c) \in Bytes
  <2>1. c \in 0..(Columns - 1) \/ c = Columns
    BY <1>0
  <2> QED BY <2>1, RestLeft
<1>2. ASSUME NEW d \in Stored(r), c < d, \A e \in Stored(r) : ~ (c < e /\ e < d)
      PROVE  Rest(r, c) = Encoded(rows, binary_rows, r, d) \o Rest(r, d)
  <2> DEFINE b == d - 1
  <2>1. b \in c..Columns /\ b \in 0..(Columns - 1) /\ b + 1 = d
    BY <1>0, <1>2
  <2>2. \A e \in Stored(r) : ~ (c < e /\ e <= b)
    BY <1>0, <1>2
  <2> HIDE DEF b
  <2>3. Rest(r, c) = Rest(r, b)
    BY <2>1, <2>2, RestSkips
  <2>4. Rest(r, b) = Encoded(rows, binary_rows, r, b + 1) \o Rest(r, b + 1)
    BY <2>1, RestLeft
  <2> QED BY <2>1, <2>3, <2>4
<1>3. ASSUME \A e \in Stored(r) : ~ (c < e) PROVE Rest(r, c) = <<>>
  <2>1. Columns \in c..Columns /\ \A e \in Stored(r) : ~ (c < e /\ e <= Columns)
    BY <1>0, <1>3
  <2>2. Rest(r, c) = Rest(r, Columns)
    BY <2>1, RestSkips
  <2> QED BY <2>2, RestLeft
<1> QED BY <1>1, <1>2, <1>3

(* A payload shorter than a packet is one packet.                          *)
LEMMA PacketsOne ==
  ASSUME NEW p \in Bytes, Len(p) < MaxPayload
  PROVE  /\ Packets(p) = <<Unit("head", 0, 0, Len(p))>> \o p
         /\ Packets(p) \in Bytes
<1> DEFINE P(k) == LET piece == SubSeq(p, (k - 1) * MaxPayload + 1,
                                       Smaller(k * MaxPayload, Len(p)))
                   IN  <<Unit("head", 0, 0, Len(piece))>> \o piece
           f == [k \in 1..(0 + 1) |-> P(k)]
           u == Unit("head", 0, 0, Len(p))
<1>1. MaxPayload \in Nat \ {0} /\ Len(p) \in Nat
  BY RowsAssumption DEF Bytes
<1>2. Len(p) \div MaxPayload = 0
  BY <1>1
<1>3. Packets(p) = FlattenSeq(f)
  BY <1>2 DEF Packets
<1>4. P(1) = <<u>> \o p
  <2>1. (1 - 1) * MaxPayload + 1 = 1 /\ Smaller(1 * MaxPayload, Len(p)) = Len(p)
    BY <1>1 DEF Smaller
  <2>2. SubSeq(p, 1, Len(p)) = p
    BY DEF Bytes
  <2> HIDE DEF u
  <2> QED BY <2>1, <2>2 DEF u
<1>5. u \in Units
  BY <1>1 DEF Unit, Units
<1> HIDE DEF u
<1>6. <<u>> \o p \in Bytes
  BY <1>5, OneFirst DEF Bytes
<1> DEFINE q == <<u>> \o p
<1>7. f = [k \in 1..1 |-> q] /\ f \in [1..(0 + 1) -> Bytes] /\ f[1] = q
  <2>1. \A k \in 1..1 : P(k) = q
    <3>1. \A k \in 1..1 : k = 1
      OBVIOUS
    <3> HIDE DEF P, q
    <3> QED BY <1>4, <3>1 DEF q
  <2>2. 1..(0 + 1) = 1..1
    OBVIOUS
  <2> HIDE DEF P
  <2>3. q \in Bytes
    BY <1>6
  <2> HIDE DEF q
  <2>4. f = [k \in 1..1 |-> q]
    BY <2>1, <2>2
  <2> HIDE DEF f
  <2> QED BY <2>3, <2>4
<1> HIDE DEF f, q
<1>8. FlattenSeq(f) = f[1] \o FlattenSeq([i \in 1..0 |-> f[i + 1]])
      /\ FlattenSeq(f) \in Seq(Units)
  <2>1. 0 \in Nat /\ f \in [1..(0 + 1) -> Seq(Units)]
    BY <1>7 DEF Bytes
  <2> QED BY <2>1, FlattenFirst
<1>9. FlattenSeq([i \in 1..0 |-> f[i + 1]]) = <<>>
  <2>1. [i \in 1..0 |-> f[i + 1]] = <<>>
    OBVIOUS
  <2> QED BY <2>1 DEF FlattenSeq
<1>10. f[1] \o <<>> = q
  BY <1>6, <1>7, ConcatEmptySeq DEF Bytes, q
<1> QED BY <1>3, <1>6, <1>8, <1>9, <1>10 DEF q, u, Bytes

(* A bitmap that leads a binary row.                                      *)
Lead(r) == IF binary_rows THEN <<Unit("bitmap", r, 0, 0)>> ELSE <<>>

LEMMA PayloadIs ==
  ASSUME StreamTypeOK, NEW r \in 1..Len(rows)
  PROVE  LET p == Lead(r) \o Rest(r, 0)
         IN  /\ RowPayload(rows, binary_rows, r) = p
             /\ p \in Bytes /\ Lead(r) \in Bytes /\ Rest(r, 0) \in Bytes
             /\ p # <<>> /\ p[1].what \notin {"eof", "err"}
<1> DEFINE p == Lead(r) \o Rest(r, 0)
<1>0. Columns \in Nat \ {0} /\ 1 \in Cols /\ 0 \in 0..Columns /\ r \in Nat
      /\ 0 \in 0..(Columns - 1)
  BY RowsAssumption DEF Cols
<1>1. RowPayload(rows, binary_rows, r) = p
  <2>1. [c \in Cols |-> Encoded(rows, binary_rows, r, c)]
          = [k \in 1..(Columns - 0) |-> Encoded(rows, binary_rows, r, 0 + k)]
    <3>1. Cols = 1..(Columns - 0) /\ \A k \in Cols : 0 + k = k
      BY <1>0 DEF Cols
    <3> QED BY <3>1
  <2> QED BY <2>1 DEF RowPayload, Lead, Rest
<1>2. Rest(r, 0) \in Seq(Units)
  BY <1>0, RestNext DEF Bytes
<1>3. CASE binary_rows
  <2> DEFINE u == Unit("bitmap", r, 0, 0)
  <2>1. u \in Units /\ u.what = "bitmap"
    BY <1>0 DEF Unit, Units
  <2>2. Lead(r) = <<u>>
    BY <1>3 DEF Lead
  <2> HIDE DEF u
  <2>3. p \in Bytes /\ p # <<>> /\ Head(p) = u /\ <<u>> \in Bytes
    BY <1>2, <2>1, <2>2, OneFirst DEF Bytes
  <2>4. p[1] = u
    BY <2>3
  <2> HIDE DEF p
  <2> QED BY <1>1, <1>2, <2>1, <2>2, <2>3, <2>4 DEF p, Bytes
<1>4. CASE ~ binary_rows
  <2> DEFINE e == Encoded(rows, binary_rows, r, 1)
             s == Rest(r, 1)
  <2>1. Lead(r) = <<>> /\ p = Rest(r, 0)
    BY <1>2, <1>4, ConcatEmptySeq DEF Lead
  <2>2. Rest(r, 0) = e \o s
    BY <1>0, RestLeft
  <2>3. s \in Seq(Units)
    BY <1>0, RestNext DEF Bytes
  <2>4. \E u \in Units, t \in Seq(Units) :
          u.what \notin {"eof", "err"} /\ e = <<u>> \o t
    <3>1. CASE rows[r][1] = Null
      <4> DEFINE u == Unit("null", r, 1, 0)
      <4>1. u \in Units /\ u.what = "null"
        BY <1>0 DEF Unit, Units
      <4>2. e = <<u>>
        BY <1>0, <1>4, <3>1, EncodedIs, StoredIs
      <4> HIDE DEF u, e
      <4>3. <<u>> = <<u>> \o <<>> /\ <<>> \in Seq(Units)
        BY <4>1, ConcatEmptySeq
      <4> QED BY <4>1, <4>2, <4>3
    <3>2. CASE rows[r][1] # Null
      <4> DEFINE u == Unit("length", r, 1, rows[r][1])
                 v == Value(r, 1)
      <4>1. rows[r][1] \in Nat /\ v \in Seq(Units)
        BY <1>0, <3>2, RowValues DEF Bytes
      <4>2. u \in Units /\ u.what = "length"
        BY <1>0, <4>1 DEF Unit, Units
      <4>3. e = <<u>> \o v
        BY <1>0, <1>4, <3>2, EncodedIs
      <4> HIDE DEF u, v, e
      <4> QED BY <4>1, <4>2, <4>3
    <3> QED BY <3>1, <3>2
  <2> HIDE DEF e, s
  <2>5. PICK u \in Units, t \in Seq(Units) :
          u.what \notin {"eof", "err"} /\ e = <<u>> \o t
    BY <2>4
  <2>6. <<u>> \in Seq(Units)
    OBVIOUS
  <2>7. (<<u>> \o t) \o s = <<u>> \o (t \o s) /\ t \o s \in Seq(Units)
    BY <2>3, <2>6, Regroup
  <2>8. p = <<u>> \o (t \o s)
    BY <2>1, <2>2, <2>5, <2>7
  <2> DEFINE w == t \o s
  <2>9. p # <<>> /\ Head(p) = u /\ p \in Bytes
    <3>1. w \in Seq(Units) /\ p = <<u>> \o w
      BY <2>7, <2>8
    <3> HIDE DEF w, p
    <3> QED BY <3>1, OneFirst DEF Bytes
  <2>10. p[1] = u
    BY <2>9
  <2>11. <<>> \in Bytes
    BY DEF Bytes
  <2> HIDE DEF p
  <2> QED BY <1>1, <1>2, <2>1, <2>5, <2>9, <2>10, <2>11 DEF p, Bytes
<1> QED BY <1>3, <1>4

LEMMA FitsOne ==
  ASSUME StreamTypeOK, RowsFit, NEW r \in 1..Len(rows)
  PROVE  LET p == Lead(r) \o Rest(r, 0)
         IN  /\ Packets(RowPayload(rows, binary_rows, r))
                  = <<Unit("head", 0, 0, Len(p))>> \o p
             /\ Packets(RowPayload(rows, binary_rows, r)) \in Bytes
<1>1. /\ binary_rows \in BOOLEAN /\ Len(rows) \in 0..MaxRows
      /\ rows \in [1..Len(rows) -> Row(binary_rows)]
  BY DEF StreamTypeOK
<1>2. Len(RowPayload(rows, binary_rows, r)) < MaxPayload
  BY <1>1 DEF RowsFit
<1> DEFINE p == Lead(r) \o Rest(r, 0)
<1>3. RowPayload(rows, binary_rows, r) = p /\ p \in Bytes
  BY PayloadIs
<1> HIDE DEF p
<1>4. Len(p) < MaxPayload
  BY <1>2, <1>3
<1> QED BY <1>3, <1>4, PacketsOne DEF p

LEMMA EndIs ==
  ASSUME StreamTypeOK, RowsFit
  PROVE  LET e == Packets(<<Unit(ending, 0, 0, 0)>>)
         IN  /\ e \in Bytes
             /\ e = <<Unit("head", 0, 0, 1)>> \o <<Unit(ending, 0, 0, 0)>>
<1> DEFINE u == Unit(ending, 0, 0, 0)
<1>1. u \in Units
  BY DEF StreamTypeOK, Unit, Units
<1> HIDE DEF u
<1>2. <<u>> \in Bytes /\ Len(<<u>>) = 1
  BY <1>1 DEF Bytes
<1>3. Len(<<u>>) < MaxPayload
  BY <1>2 DEF RowsFit
<1> DEFINE s == <<u>>
<1>4. Packets(s) = <<Unit("head", 0, 0, Len(s))>> \o s /\ Packets(s) \in Bytes
  <2> HIDE DEF s
  <2>1. s \in Bytes /\ Len(s) < MaxPayload
    BY <1>2, <1>3 DEF s
  <2> QED BY <2>1, PacketsOne
<1> QED BY <1>2, <1>4 DEF u

LEMMA RestOfIs ==
  ASSUME StreamTypeOK, RowsFit
  PROVE  /\ \A r \in 0..Len(rows) : RestOf(r) \in Bytes
         /\ RestOf(Len(rows)) = <<Unit("head", 0, 0, 1)>> \o <<Unit(ending, 0, 0, 0)>>
         /\ \A r \in 0..(Len(rows) - 1) :
              LET p == Lead(r + 1) \o Rest(r + 1, 0)
              IN  RestOf(r) = <<Unit("head", 0, 0, Len(p))>> \o (p \o RestOf(r + 1))
<1> DEFINE e == Packets(<<Unit(ending, 0, 0, 0)>>)
           P(r) == Packets(RowPayload(rows, binary_rows, r))
           F(r) == [k \in 1..(Len(rows) - r) |-> P(r + k)]
<1>0. Len(rows) \in Nat /\ e \in Seq(Units)
      /\ e = <<Unit("head", 0, 0, 1)>> \o <<Unit(ending, 0, 0, 0)>>
  BY EndIs DEF StreamTypeOK, Bytes
<1>1. \A r \in 1..Len(rows) : P(r) \in Seq(Units)
  BY FitsOne DEF Bytes
<1>2. \A r : RestOf(r) = FlattenSeq(F(r)) \o e
  BY DEF RestOf
<1>3. FlattenSeq(F(Len(rows))) = <<>>
  <2>1. F(Len(rows)) = <<>> /\ Len(F(Len(rows))) = 0
    BY <1>0
  <2> HIDE DEF F
  <2> QED BY <2>1 DEF FlattenSeq
<1>4. RestOf(Len(rows)) = e
  <2> HIDE DEF e, F
  <2> QED BY <1>0, <1>2, <1>3, ConcatEmptySeq
<1>5. ASSUME NEW r \in 0..(Len(rows) - 1)
      PROVE  /\ FlattenSeq(F(r)) = P(r + 1) \o FlattenSeq(F(r + 1))
             /\ FlattenSeq(F(r)) \in Seq(Units)
  <2> DEFINE n == Len(rows) - (r + 1)
             f == F(r)
  <2>1. n \in Nat /\ n + 1 = Len(rows) - r
    BY <1>0
  <2>2. f \in [1..(n + 1) -> Seq(Units)]
    <3>1. \A k \in 1..(n + 1) : r + k \in 1..Len(rows)
      BY <1>0
    <3> HIDE DEF P
    <3> QED BY <1>1, <2>1, <3>1
  <2>3. [i \in 1..n |-> f[i + 1]] = F(r + 1)
    <3>1. \A i \in 1..n : i + 1 \in 1..(Len(rows) - r) /\ r + (i + 1) = (r + 1) + i
      BY <1>0
    <3> HIDE DEF P
    <3>2. \A i \in 1..n : f[i + 1] = P((r + 1) + i)
      BY <3>1
    <3> QED BY <3>2
  <2>4. f[1] = P(r + 1)
    <3> HIDE DEF P
    <3> QED BY <1>0
  <2> HIDE DEF f, n, F
  <2>5. FlattenSeq(f) = f[1] \o FlattenSeq([i \in 1..n |-> f[i + 1]])
        /\ FlattenSeq(f) \in Seq(Units)
    BY <2>1, <2>2, FlattenFirst
  <2> QED BY <2>3, <2>4, <2>5 DEF f
<1>6. \A r \in 0..Len(rows) : FlattenSeq(F(r)) \in Seq(Units)
  <2> HIDE DEF F
  <2>1. <<>> \in Seq(Units)
    OBVIOUS
  <2>2. \A r \in 0..Len(rows) : r \in 0..(Len(rows) - 1) \/ r = Len(rows)
    BY <1>0
  <2> QED BY <1>3, <1>5, <2>1, <2>2
<1>7. \A r \in 0..Len(rows) : RestOf(r) \in Bytes
  <2> HIDE DEF F, e
  <2> QED BY <1>0, <1>2, <1>6, ConcatProperties DEF Bytes
<1>9. \A a, b, c \in Seq(Units) :
         (a \o b) \o c = a \o (b \o c) /\ a \o b \in Seq(Units) /\ b \o c \in Seq(Units)
  BY Regroups, Zenon
<1>8. ASSUME NEW r \in 0..(Len(rows) - 1)
      PROVE  LET p == Lead(r + 1) \o Rest(r + 1, 0)
             IN  RestOf(r) = <<Unit("head", 0, 0, Len(p))>> \o (p \o RestOf(r + 1))
  <2> DEFINE p == Lead(r + 1) \o Rest(r + 1, 0)
             h == <<Unit("head", 0, 0, Len(p))>>
             g == FlattenSeq(F(r + 1))
  <2>1. r + 1 \in 1..Len(rows) /\ r + 1 \in 0..Len(rows)
    BY <1>0
  <2>2. P(r + 1) = h \o p /\ p \in Seq(Units)
    BY <2>1, FitsOne, PayloadIs DEF Bytes
  <2>3. h \in Seq(Units)
    <3> HIDE DEF p
    <3>1. Unit("head", 0, 0, Len(p)) \in Units
      BY <2>2 DEF Unit, Units
    <3> QED BY <3>1
  <2>4. g \in Seq(Units)
    <3> HIDE DEF F
    <3> QED BY <1>6, <2>1
  <2>5. RestOf(r) = (P(r + 1) \o g) \o e /\ RestOf(r + 1) = g \o e
    <3> HIDE DEF F, P, e
    <3> QED BY <1>2, <1>5
  <2> HIDE DEF p, h, g, e, P, F
  <2>6. ((h \o p) \o g) \o e = (h \o p) \o (g \o e) /\ g \o e \in Seq(Units)
    <3>1. h \o p \in Seq(Units)
      BY <2>2, <2>3, ConcatProperties
    <3>2. e \in Seq(Units)
      BY <1>0 DEF e
    <3> QED BY <1>9, <2>4, <3>1, <3>2, Zenon
  <2>7. (h \o p) \o (g \o e) = h \o (p \o (g \o e))
    BY <1>9, <2>2, <2>3, <2>6, Zenon
  <2> QED BY <2>2, <2>5, <2>6, <2>7 DEF p, h
<1> QED BY <1>0, <1>4, <1>7, <1>8

(* The next column that has a value.                                       *)
LEMMA NextStored ==
  ASSUME NEW r, NEW c \in 0..Columns, Upto(r, c) # Cardinality(Stored(r))
  PROVE  \E d \in Stored(r) : /\ c < d /\ \A e \in Stored(r) : ~ (c < e /\ e < d)
                              /\ Upto(r, d) = Upto(r, c) + 1
<1> DEFINE T == {d \in Stored(r) : c < d}
           R == OpToRel(<, Nat)
<1>0. Columns \in Nat /\ Stored(r) \subseteq 1..Columns
  BY RowsAssumption DEF Stored, Cols
<1>1. T # {}
  <2>1. SUFFICES ASSUME \A e \in Stored(r) : ~ (c < e) PROVE FALSE
    OBVIOUS
  <2>2. Columns \in c..Columns /\ \A e \in Stored(r) : ~ (c < e /\ e <= Columns)
    BY <1>0, <2>1
  <2>3. Upto(r, c) = Upto(r, Columns)
    BY <2>2, UptoGrows
  <2> QED BY <2>3, UptoIs
<1>2. PICK d \in T : \A y \in T : ~ (<<y, d>> \in R)
  <2>1. T \subseteq Nat
    BY <1>0
  <2>2. IsWellFoundedOn(R, Nat)
    BY NatLessThanWellFounded
  <2> HIDE DEF T, R
  <2> QED BY <1>1, <2>1, <2>2, WFMin
<1>3. \A e \in Stored(r) : ~ (c < e /\ e < d)
  <2> SUFFICES ASSUME NEW e \in Stored(r), c < e, e < d PROVE FALSE
    OBVIOUS
  <2>1. e \in T /\ <<e, d>> \in R
    BY <1>0 DEF OpToRel
  <2> QED BY <1>2, <2>1
<1>4. Upto(r, d) = Upto(r, c) + 1
  <2> DEFINE b == d - 1
  <2>1. b \in c..Columns /\ b \in 0..(Columns - 1) /\ b + 1 = d /\ d \in Stored(r)
    BY <1>0
  <2>2. \A e \in Stored(r) : ~ (c < e /\ e <= b)
    BY <1>0, <1>3
  <2> HIDE DEF b
  <2>3. Upto(r, c) = Upto(r, b)
    BY <2>1, <2>2, UptoGrows
  <2>4. Upto(r, b + 1) = IF b + 1 \in Stored(r) THEN Upto(r, b) + 1 ELSE Upto(r, b)
    BY <2>1, UptoIs
  <2> QED BY <2>1, <2>3, <2>4
<1> QED BY <1>3, <1>4

----------------------------------------------------------------------------
(* The invariant: the types.                                               *)

FieldsTypeOK ==
  /\ wire \in Bytes /\ packet_size \in Nat
  /\ row_count \in 0..Len(rows) /\ row_current \in 0..row_count
  /\ field_current \in 0..Columns /\ field_current_read \in 0..Columns
  /\ field_total \in Nat /\ field \in Bytes \cup {Null}
  /\ field_buffer \in [Cols -> Bytes]

CallTypeOK ==
  /\ call \in {"none", "row_read", "field_read", "field_buffer", "row_buffer",
               "result_buffer"}
  /\ at \in {"app", "row", "row_done", "field", "field_done", "buffered"}
  /\ rc \in {"OK", "IO_WAIT", "LOST_CONNECTION", "ERROR_CODE", "ROW_END"}
  /\ pending \in {"none", "row_read", "row_buffer", "result_buffer"}
  /\ in_row \in BOOLEAN /\ over \in BOOLEAN /\ buffered \in BOOLEAN
  /\ shown \in Nat /\ skipped \in Nat /\ row_list_size \in Nat
  /\ given \in Seq(Bytes \cup {Null})

RowsTypeOK == StreamTypeOK /\ FieldsTypeOK /\ CallTypeOK

----------------------------------------------------------------------------
(* The invariant: the calls.                                               *)

Buffering == call \in {"row_buffer", "result_buffer"}
ByField   == call \in {"field_read", "field_buffer"}

(* The row at hand: begun, and its end not yet seen by the application.    *)
RowBegun == at = "row_done" /\ rc = "OK" /\ row_current # 0
InRow    == in_row \/ at \in {"field", "field_done", "buffered"} \/ RowBegun
RowUsed  == at = "field_done" /\ rc = "ROW_END"

(* Which calls get where, and when the application is inside of a row.     *)
CallsInOrder ==
  /\ at = "app" <=> call = "none"
  /\ at \in {"row", "row_done"} => call = "row_read" \/ Buffering
  /\ at \in {"field", "field_done"} => ByField \/ Buffering
  /\ at = "buffered" => (call = "field_buffer" \/ Buffering) /\ rc = "OK"
  /\ at = "field_done" => rc \in {"OK", "ROW_END"}
  /\ at = "row_done" => rc # "ROW_END"
  /\ in_row => ~ over /\ ~ buffered /\ pending = "none"
               /\ (call = "none" \/ ByField)
  /\ ByField => in_row
  /\ call # "none" => ~ over /\ ~ buffered
  /\ call # "none" /\ ~ (at = "row_done" /\ rc = "IO_WAIT") => pending = "none"
  /\ buffered => ~ over
  /\ ~ buffered => shown = 0

----------------------------------------------------------------------------
(* The invariant: the stream.                                              *)

(* The column of the field read last.                                      *)
ReadUpTo == IF binary_rows THEN field_current_read ELSE field_current

(* What is left of the row: in a binary row the NULL bitmap is in front.   *)
Leading == IF BitmapAhead THEN <<Unit("bitmap", row_count, 0, 0)>> ELSE <<>>
RowLeft == Leading \o Rest(row_count, ReadUpTo)

(* Behind a row the rest of the stream is there; within one, what is left  *)
(* of it comes first, and packet_size says how much that is.               *)
Behind == wire = RestOf(row_count) /\ row_current = row_count
Within == /\ wire = RowLeft \o RestOf(row_count) /\ packet_size = Len(RowLeft)
          /\ row_current = row_count /\ row_count # 0
AllRows == row_count = Len(rows) /\ ending = "eof"

AtBoundary ==
  \/ at = "row" \/ RowUsed
  \/ at = "app" /\ ~ in_row /\ ~ over /\ ~ buffered
  \/ at = "row_done" /\ rc = "IO_WAIT"

WireInStep ==
  /\ AtBoundary => Behind
  /\ RowUsed => packet_size = 0 /\ row_count # 0
  /\ InRow /\ ~ RowUsed => Within
  /\ at = "row_done" /\ rc = "OK" /\ row_current = 0 => AllRows
  /\ buffered \/ (over /\ rc = "OK") => AllRows

----------------------------------------------------------------------------
(* The invariant: the field at hand.                                       *)

(* How far the row was read, and what its bitmap said.                     *)
Counted ==
  /\ field_current = Upto(row_count, ReadUpTo)
  /\ ReadUpTo = 0 \/ ReadUpTo \in Stored(row_count)

BitmapKept ==
  binary_rows => /\ null_bitmap = Nulls(row_count)
                 /\ null_bitcount = Cardinality(Nulls(row_count))

(* The field is the whole value of its column.                             *)
AtHand ==
  /\ field_current # 0
  /\ field = Value(row_count, ReadUpTo)
  /\ field_total = SizeOf(row_count, ReadUpTo)

FieldsInOrder ==
  /\ field_offset = 0 /\ field_size = field_total /\ part = <<>>
  /\ ~ binary_rows => null_bitcount = 0
  /\ InRow => Counted
  /\ RowBegun => field_current = 0
  /\ InRow /\ (RowUsed \/ field_current # 0) => BitmapKept
  /\ RowUsed => field_current = Cardinality(Stored(row_count))
  /\ at \in {"field_done", "buffered"} /\ rc = "OK" => AtHand
  /\ at = "buffered" => field # Null /\ Kept(field_current) = field

----------------------------------------------------------------------------
(* The invariant: the copies.                                              *)

(* The k-th value of a row, the row as it is copied, and its sizes.        *)
Nth(r, k) == Value(r, Delivered(r)[k])
RowCopied(r) == Compact(r, Copied, Null)
RowSizes(r) == Compact(r, SizeOf, 0)

(* The fields that the application has, or that are in their places in the *)
(* row being buffered.                                                     *)
Done == IF at \in {"field_done", "buffered"} /\ rc = "OK"
        THEN field_current - 1 ELSE field_current

GivenInOrder ==
  /\ given # <<>> => /\ row_current = row_count /\ ~ buffered /\ row_count # 0
                     /\ at \in {"app", "field", "field_done", "buffered"}
                     /\ ~ Buffering
  /\ in_row => Len(given) = Done
  /\ given # <<>> => Len(given) <= Cardinality(Stored(row_count))
  /\ \A k \in 1..Len(given) : given[k] = Nth(row_count, k)

(* A place of the row being buffered: what it points to is the value.      *)
Placed(k, value) ==
  IF value = Null THEN row[k] = Null /\ field_sizes[k] = 0
  ELSE /\ row[k] = k /\ field_sizes[k] = Len(value)
       /\ SubSeq(field_buffer[k], 1, field_sizes[k]) = value

RowInPlace ==
  Buffering /\ at \in {"field", "field_done", "buffered"} =>
    /\ row \in [Cols -> Cols \cup {Null, Junk}] /\ field_sizes \in [Cols -> Nat]
    /\ \A k \in 1..Done : Placed(k, Nth(row_count, k))
    /\ \A k \in (Done + 1)..Columns : row[k] = Junk /\ field_sizes[k] = 0

(* The lists hold the rows that drizzle_result_buffer has stored.          *)
Listing == call = "result_buffer" \/ pending = "result_buffer" \/ buffered
Listed == IF InRow THEN row_count - 1 ELSE row_count

Stores(r) ==
  /\ r <= row_list_size
  /\ row_list[r] = RowCopied(r) /\ field_sizes_list[r] = RowSizes(r)
  /\ binary_rows => null_bitmap_list[r] = Nulls(r)

ListsInOrder ==
  Listing /\ skipped < GrowSize =>
    /\ skipped <= Listed /\ shown <= row_count
    /\ \A r \in (skipped + 1)..Listed : Stores(r)
    /\ skipped < Listed =>
         /\ DOMAIN field_sizes_list = 1..row_list_size
         /\ binary_rows => DOMAIN null_bitmap_list = 1..row_list_size

RowsInvariant ==
  /\ RowsTypeOK /\ CallsInOrder /\ WireInStep /\ FieldsInOrder
  /\ GivenInOrder /\ RowInPlace /\ ListsInOrder /\ ShownAsSent

----------------------------------------------------------------------------
(* What stays the same.                                                    *)

(* What the server sends never changes.                                    *)
LEMMA Frozen ==
  ASSUME UNCHANGED serverVars
  PROVE  /\ StreamTypeOK' <=> StreamTypeOK
         /\ \A r, c : /\ Rest(r, c)' = Rest(r, c) /\ Value(r, c)' = Value(r, c)
                      /\ Upto(r, c)' = Upto(r, c) /\ Nth(r, c)' = Nth(r, c)
                      /\ SizeOf(r, c)' = SizeOf(r, c)
         /\ \A r : /\ RestOf(r)' = RestOf(r) /\ Stored(r)' = Stored(r)
                   /\ Nulls(r)' = Nulls(r) /\ RowSizes(r)' = RowSizes(r)
                   /\ RowCopied(r)' = RowCopied(r) /\ Lead(r)' = Lead(r)
<1>1. rows' = rows /\ binary_rows' = binary_rows /\ ending' = ending
  BY DEF serverVars
<1>2. StreamTypeOK' <=> StreamTypeOK
  BY <1>1 DEF StreamTypeOK
<1>3. \A r, c : Rest(r, c)' = Rest(r, c)
  BY <1>1 DEF Rest
<1>4. \A r, c : Value(r, c)' = Value(r, c) /\ SizeOf(r, c)' = SizeOf(r, c)
  BY <1>1 DEF Value, SizeOf
<1>5. \A r : Stored(r)' = Stored(r) /\ Nulls(r)' = Nulls(r) /\ Lead(r)' = Lead(r)
             /\ RestOf(r)' = RestOf(r)
  BY <1>1 DEF Stored, Nulls, Lead, RestOf
<1>6. \A r, c : Upto(r, c)' = Upto(r, c)
  BY <1>1 DEF Upto, Stored
<1>7. \A r : Delivered(r)' = Delivered(r)
  BY <1>1 DEF Delivered, Upto, Stored
<1>8. \A r, c : Nth(r, c)' = Nth(r, c)
  BY <1>1 DEF Nth, Value, Delivered, Upto, Stored
<1>9. \A r : RowSizes(r)' = RowSizes(r) /\ RowCopied(r)' = RowCopied(r)
  BY <1>1 DEF RowSizes, RowCopied, Compact, SizeOf, Copied, Value, Delivered, Upto,
              Stored
<1> QED BY <1>2, <1>3, <1>4, <1>5, <1>6, <1>8, <1>9

(* Nor does what is said of the stream and the field at hand when the      *)
(* buffer, the cursor and the field stay as they are.                      *)
LEMMA SameStream ==
  ASSUME UNCHANGED <<serverVars, wireVars, cursorVars, fieldVars>>
  PROVE  /\ Behind' = Behind /\ Within' = Within /\ AllRows' = AllRows
         /\ Counted' = Counted /\ BitmapKept' = BitmapKept
         /\ AtHand' = AtHand
         /\ \A k : Nth(row_count, k)' = Nth(row_count, k)
         /\ Cardinality(Stored(row_count))' = Cardinality(Stored(row_count))
<1>1. UNCHANGED serverVars
  OBVIOUS
<1>2. /\ rows' = rows /\ binary_rows' = binary_rows /\ ending' = ending
      /\ wire' = wire /\ packet_size' = packet_size
      /\ row_count' = row_count /\ row_current' = row_current
      /\ field_current' = field_current /\ field_current_read' = field_current_read
      /\ null_bitmap' = null_bitmap /\ null_bitcount' = null_bitcount
      /\ field' = field /\ field_total' = field_total
  BY DEF serverVars, wireVars, cursorVars, fieldVars
<1>3. ReadUpTo' = ReadUpTo /\ Leading' = Leading
  BY <1>2 DEF ReadUpTo, Leading, BitmapAhead
<1>4. RowLeft' = RowLeft
  BY <1>1, <1>2, <1>3, Frozen DEF RowLeft
<1>5. RestOf(row_count)' = RestOf(row_count) /\ Stored(row_count)' = Stored(row_count)
      /\ Nulls(row_count)' = Nulls(row_count)
      /\ \A k : Nth(row_count, k)' = Nth(row_count, k)
  BY <1>1, <1>2, Frozen
<1>6. /\ Upto(row_count, ReadUpTo)' = Upto(row_count, ReadUpTo)
      /\ Value(row_count, ReadUpTo)' = Value(row_count, ReadUpTo)
      /\ SizeOf(row_count, ReadUpTo)' = SizeOf(row_count, ReadUpTo)
  BY <1>1, <1>2, <1>3, Frozen
<1>7. Behind' = Behind
  BY <1>2, <1>5 DEF Behind
<1>8. Within' = Within
  BY <1>2, <1>4, <1>5 DEF Within
<1>9. AllRows' = AllRows
  BY <1>2 DEF AllRows
<1>10. Counted' = Counted
  BY <1>2, <1>3, <1>5, <1>6 DEF Counted
<1>11. BitmapKept' = BitmapKept
  BY <1>2, <1>5 DEF BitmapKept
<1>12. AtHand' = AtHand
  BY <1>2, <1>6 DEF AtHand
<1>13. Cardinality(Stored(row_count))' = Cardinality(Stored(row_count))
  BY <1>5
<1> QED BY <1>5, <1>7, <1>8, <1>9, <1>10, <1>11, <1>12, <1>13

LEMMA SameCopies ==
  ASSUME UNCHANGED serverVars
  PROVE  /\ UNCHANGED rowVars => \A k, v : Placed(k, v)' = Placed(k, v)
         /\ UNCHANGED <<row_list, field_sizes_list, null_bitmap_list, row_list_size>>
              => \A r : Stores(r)' = Stores(r)
<1>1. ASSUME UNCHANGED rowVars
      PROVE  \A k, v : Placed(k, v)' = Placed(k, v)
  BY <1>1 DEF rowVars, Placed
<1>2. ASSUME UNCHANGED <<row_list, field_sizes_list, null_bitmap_list, row_list_size>>
      PROVE  \A r : Stores(r)' = Stores(r)
  <2> TAKE r
  <2>1. RowCopied(r)' = RowCopied(r) /\ RowSizes(r)' = RowSizes(r)
        /\ Nulls(r)' = Nulls(r) /\ binary_rows' = binary_rows
    BY Frozen DEF serverVars
  <2> QED BY <1>2, <2>1 DEF Stores
<1> QED BY <1>1, <1>2

----------------------------------------------------------------------------
(* The calls begin.                                                        *)

LEMMA CallBegins ==
  ASSUME RowsInvariant,
         CallRowRead \/ CallFieldRead \/ CallFieldBuffer \/ CallRowBuffer
           \/ CallResultBuffer
  PROVE  RowsInvariant'
<1> USE DEF RowsInvariant
<1> DEFINE Name == {"row_read", "field_read", "field_buffer", "row_buffer",
                    "result_buffer"}
<1>1. PICK name \in Name, step \in {"row", "field"} : Enter(name, step)
  BY DEF CallRowRead, CallFieldRead, CallFieldBuffer, CallRowBuffer, CallResultBuffer
<1>2. /\ call = "none" /\ pending \in {"none", name}
      /\ call' = name /\ at' = step /\ pending' = "none" /\ at = "app"
  BY <1>1 DEF Enter, CallsInOrder
<1>3. /\ UNCHANGED <<serverVars, wireVars, cursorVars, fieldVars>>
      /\ UNCHANGED listVars /\ rc' = rc
      /\ field_sizes' = field_sizes /\ field_buffer' = field_buffer
  BY <1>1 DEF Enter
<1>4. /\ in_row' = in_row /\ over' = over /\ part' = part /\ shown' = shown
      /\ over = FALSE /\ buffered = FALSE /\ buffered' = FALSE
  BY <1>3 DEF CallRowRead, CallFieldRead, CallFieldBuffer, CallRowBuffer,
     CallResultBuffer, appVars, listVars, CallsInOrder, RowsTypeOK, CallTypeOK
<1>5. in_row => row_current # 0 /\ pending = "none"
  BY <1>2 DEF WireInStep, InRow, RowUsed, Within, CallsInOrder
<1>6. /\ step = "row" => ~ in_row /\ given' = <<>>
                         /\ name \in {"row_read", "row_buffer", "result_buffer"}
      /\ step = "field" => /\ in_row /\ given' = given
                           /\ name \in {"field_read", "field_buffer"}
      /\ name # "result_buffer" => skipped' = skipped
      /\ name = "result_buffer" =>
           skipped' = IF pending = "result_buffer" THEN skipped ELSE row_current
  BY <1>1, <1>2, <1>5 DEF CallRowRead, CallFieldRead, CallFieldBuffer, CallRowBuffer,
     CallResultBuffer, appVars, Enter
<1>7. /\ Behind' = Behind /\ Within' = Within /\ AllRows' = AllRows
      /\ Counted' = Counted /\ BitmapKept' = BitmapKept
      /\ \A k : Nth(row_count, k)' = Nth(row_count, k)
      /\ Cardinality(Stored(row_count))' = Cardinality(Stored(row_count))
  BY <1>3, SameStream
<1>8. /\ row_count' = row_count /\ row_current' = row_current
      /\ field_current' = field_current /\ field_offset' = field_offset
      /\ field_size' = field_size /\ field_total' = field_total
      /\ null_bitcount' = null_bitcount /\ binary_rows' = binary_rows
  BY <1>3 DEF serverVars, cursorVars, fieldVars
<1>9. InRow' <=> InRow
  BY <1>2, <1>4, <1>6 DEF InRow, RowBegun
<1>10. ~ RowUsed /\ ~ RowUsed' /\ ~ RowBegun /\ ~ RowBegun'
  BY <1>2 DEF RowUsed, RowBegun
<1>11. RowsTypeOK'
  <2>1. StreamTypeOK'
    BY <1>3, Frozen DEF RowsTypeOK
  <2>2. FieldsTypeOK'
    BY <1>3 DEF RowsTypeOK, FieldsTypeOK, serverVars, wireVars, cursorVars, fieldVars
  <2>3. CallTypeOK'
    <3>1. row_current \in Nat /\ skipped \in Nat /\ <<>> \in Seq(Bytes \cup {Null})
      BY DEF RowsTypeOK, FieldsTypeOK, StreamTypeOK, CallTypeOK
    <3>2. skipped' \in Nat
      BY <1>6, <3>1
    <3>3. given' \in Seq(Bytes \cup {Null})
      BY <1>6, <3>1 DEF RowsTypeOK, CallTypeOK
    <3> QED BY <1>1, <1>2, <1>3, <1>4, <3>2, <3>3 DEF RowsTypeOK, CallTypeOK, listVars
  <2> QED BY <2>1, <2>2, <2>3 DEF RowsTypeOK
<1>12. CallsInOrder'
  BY <1>1, <1>2, <1>3, <1>4, <1>6 DEF CallsInOrder, ByField, Buffering
<1>13. WireInStep'
  BY <1>1, <1>2, <1>4, <1>6, <1>7, <1>9, <1>10 DEF WireInStep, AtBoundary
<1>14. FieldsInOrder'
  BY <1>1, <1>2, <1>4, <1>7, <1>8, <1>9, <1>10 DEF FieldsInOrder
<1>15. GivenInOrder'
  BY <1>1, <1>2, <1>4, <1>6, <1>7, <1>8 DEF GivenInOrder, Done, Buffering
<1>16. RowInPlace'
  BY <1>1, <1>2, <1>6 DEF RowInPlace, Buffering
<1>17. ListsInOrder'
  <2>1. \A r : Stores(r)' = Stores(r)
    BY <1>3, SameCopies DEF listVars
  <2>2. SUFFICES ASSUME name = "result_buffer"
        PROVE  ListsInOrder'
    BY <1>1, <1>2, <1>4 DEF ListsInOrder, Listing
  <2>3. step = "row" /\ ~ in_row /\ ~ InRow /\ Behind /\ shown = 0
    <3>1. step = "row" /\ ~ in_row
      BY <1>6, <2>2
    <3>2. ~ InRow
      BY <1>2, <1>10, <3>1 DEF InRow
    <3>3. AtBoundary
      BY <1>2, <1>4, <3>1 DEF AtBoundary
    <3> QED BY <1>4, <3>1, <3>2, <3>3 DEF WireInStep, CallsInOrder
  <2>4. row_count \in Nat /\ row_current = row_count
    BY <2>3 DEF RowsTypeOK, FieldsTypeOK, StreamTypeOK, Behind
  <2>5. Listed = row_count /\ Listed' = row_count
    BY <1>8, <1>9, <2>3 DEF Listed
  <2>6. CASE pending = "result_buffer"
    <3>1. skipped' = skipped
      BY <1>6, <2>2, <2>6
    <3>2. Listing
      BY <2>6 DEF Listing
    <3> QED BY <1>3, <1>4, <1>8, <2>1, <2>5, <3>1, <3>2 DEF ListsInOrder, listVars
  <2>7. CASE pending # "result_buffer"
    <3>1. skipped' = row_count
      BY <1>6, <2>2, <2>4, <2>7
    <3>2. (skipped + 1)'..Listed' = {} /\ ~ (skipped' < Listed')
      BY <2>4, <2>5, <3>1
    <3> QED BY <1>4, <1>8, <2>3, <2>4, <2>5, <3>1, <3>2 DEF ListsInOrder
  <2> QED BY <2>6, <2>7
<1>18. ShownAsSent'
  BY <1>4, <1>11 DEF ShownAsSent, RowsTypeOK, CallTypeOK, CallsInOrder
<1> QED BY <1>11, <1>12, <1>13, <1>14, <1>15, <1>16, <1>17, <1>18
(* A call that asked for a row returns.                                    *)
LEMMA RowCallReturns ==
  ASSUME RowsInvariant, RowReadReturns \/ RowBufferEnds \/ ResultBufferEnds
  PROVE  RowsInvariant'
<1> USE DEF RowsInvariant
<1>1. /\ at = "row_done" /\ call \in {"row_read", "row_buffer", "result_buffer"}
      /\ call' = "none" /\ at' = "app" /\ rc' = rc /\ pending' = pending
      /\ UNCHANGED <<serverVars, wireVars, cursorVars, fieldVars>>
      /\ UNCHANGED rowVars
      /\ UNCHANGED <<row_list, field_sizes_list, null_bitmap_list, row_list_size>>
      /\ given' = given /\ part' = part /\ shown' = shown /\ skipped' = skipped
  BY DEF RowReadReturns, RowBufferEnds, ResultBufferEnds, Return, listVars
<1>2. /\ ~ in_row /\ ~ over /\ ~ buffered /\ shown = 0 /\ rc # "ROW_END"
      /\ rc # "IO_WAIT" => pending = "none"
      /\ given = <<>> /\ in_row = FALSE /\ over = FALSE /\ buffered = FALSE
  BY <1>1 DEF CallsInOrder, ByField, Buffering, GivenInOrder, RowsTypeOK, CallTypeOK
<1>3. /\ in_row' <=> RowBegun
      /\ in_row' \in BOOLEAN /\ over' \in BOOLEAN /\ buffered' \in BOOLEAN
      /\ rc = "IO_WAIT" => ~ over' /\ ~ buffered'
      /\ rc = "OK" /\ row_current = 0 => over' \/ buffered'
      /\ rc \notin {"OK", "IO_WAIT"} => over'
      /\ buffered' => rc = "OK" /\ row_current = 0 /\ call = "result_buffer"
      /\ over' /\ rc = "OK" => row_current = 0
      /\ ~ (over' /\ buffered')
      /\ in_row' => ~ over' /\ ~ buffered'
  <2>1. CASE RowReadReturns
    BY <1>1, <1>2, <2>1 DEF RowReadReturns, RowBegun, RowReadGives, Gone, listVars
  <2>2. CASE RowBufferEnds
    BY <1>1, <1>2, <2>2 DEF RowBufferEnds, RowBegun, listVars
  <2>3. CASE ResultBufferEnds
    BY <1>1, <1>2, <2>3 DEF ResultBufferEnds, RowBegun, Gone
  <2> QED BY <2>1, <2>2, <2>3
<1>4. /\ Behind' = Behind /\ Within' = Within /\ AllRows' = AllRows
      /\ Counted' = Counted /\ BitmapKept' = BitmapKept
      /\ \A k : Nth(row_count, k)' = Nth(row_count, k)
      /\ Cardinality(Stored(row_count))' = Cardinality(Stored(row_count))
  BY <1>1, SameStream
<1>5. /\ row_count' = row_count /\ row_current' = row_current
      /\ field_current' = field_current /\ field_offset' = field_offset
      /\ field_size' = field_size /\ field_total' = field_total
      /\ null_bitcount' = null_bitcount /\ binary_rows' = binary_rows
  BY <1>1 DEF serverVars, cursorVars, fieldVars
<1>6. /\ InRow <=> RowBegun
      /\ InRow' <=> RowBegun
      /\ ~ RowUsed /\ ~ RowUsed' /\ ~ RowBegun'
  BY <1>1, <1>2, <1>3 DEF InRow, RowUsed, RowBegun
<1>7. RowsTypeOK'
  <2>1. StreamTypeOK'
    BY <1>1, Frozen DEF RowsTypeOK
  <2>2. FieldsTypeOK'
    BY <1>1 DEF RowsTypeOK, FieldsTypeOK, serverVars, wireVars, cursorVars, fieldVars,
                rowVars
  <2>3. CallTypeOK'
    BY <1>1, <1>3 DEF RowsTypeOK, CallTypeOK
  <2> QED BY <2>1, <2>2, <2>3 DEF RowsTypeOK
<1>8. CallsInOrder'
  BY <1>1, <1>2, <1>3 DEF CallsInOrder, ByField, Buffering, RowBegun
<1>9. WireInStep'
  BY <1>1, <1>2, <1>3, <1>4, <1>5, <1>6, <1>7
     DEF WireInStep, AtBoundary, RowBegun, RowsTypeOK, CallTypeOK
<1>10. FieldsInOrder'
  BY <1>1, <1>4, <1>5, <1>6 DEF FieldsInOrder
<1>11. GivenInOrder'
  <2>1. in_row' => Done' = 0
    BY <1>1, <1>3, <1>5 DEF FieldsInOrder, Done
  <2> QED BY <1>1, <1>2, <2>1 DEF GivenInOrder
<1>12. RowInPlace'
  BY <1>1 DEF RowInPlace
<1>13. ListsInOrder'
  <2>1. \A r : Stores(r)' = Stores(r)
    BY <1>1, SameCopies
  <2>2. Listing' => Listing
    BY <1>1, <1>2, <1>3 DEF Listing
  <2>3. Listed' = Listed
    BY <1>5, <1>6 DEF Listed
  <2> QED BY <1>1, <1>5, <2>1, <2>2, <2>3 DEF ListsInOrder
<1>14. ShownAsSent'
  BY <1>1, <1>2, <1>7 DEF ShownAsSent, RowsTypeOK, CallTypeOK
<1> QED BY <1>7, <1>8, <1>9, <1>10, <1>11, <1>12, <1>13, <1>14

----------------------------------------------------------------------------
(* A row is buffered.                                                      *)

LEMMA RowBufferBeginsKeeps ==
  ASSUME RowsInvariant, RowBufferBegins
  PROVE  RowsInvariant'
<1> USE DEF RowsInvariant
<1>1. /\ at = "row_done" /\ call \in {"row_buffer", "result_buffer"}
      /\ rc = "OK" /\ row_current # 0 /\ RowBegun
      /\ at' = "field" /\ call' = call /\ rc' = rc /\ pending' = pending
      /\ row' = [c \in Cols |-> Junk] /\ field_sizes' = [c \in Cols |-> 0]
      /\ field_buffer' = field_buffer
      /\ UNCHANGED <<serverVars, wireVars, cursorVars, fieldVars>>
      /\ UNCHANGED listVars
      /\ UNCHANGED appVars
  BY DEF RowBufferBegins, OnwardTo, RowBegun
<1>2. /\ ~ in_row /\ ~ over /\ ~ buffered /\ shown = 0 /\ pending = "none"
      /\ given = <<>> /\ field_current = 0 /\ InRow
  BY <1>1 DEF CallsInOrder, ByField, Buffering, GivenInOrder, FieldsInOrder, InRow
<1>3. /\ Behind' = Behind /\ Within' = Within /\ AllRows' = AllRows
      /\ Counted' = Counted /\ BitmapKept' = BitmapKept
  BY <1>1, SameStream
<1>4. /\ row_count' = row_count /\ row_current' = row_current
      /\ field_current' = field_current /\ field_offset' = field_offset
      /\ field_size' = field_size /\ field_total' = field_total
      /\ null_bitcount' = null_bitcount /\ binary_rows' = binary_rows
  BY <1>1 DEF serverVars, cursorVars, fieldVars
<1>5. /\ in_row' = in_row /\ over' = over /\ buffered' = buffered /\ part' = part
      /\ given' = given /\ shown' = shown /\ skipped' = skipped
  BY <1>1 DEF appVars, listVars
<1>6. /\ InRow' /\ ~ RowUsed /\ ~ RowUsed' /\ ~ RowBegun'
  BY <1>1 DEF InRow, RowUsed, RowBegun
<1>7. RowsTypeOK'
  <2>1. StreamTypeOK'
    BY <1>1, Frozen DEF RowsTypeOK
  <2>2. FieldsTypeOK'
    BY <1>1 DEF RowsTypeOK, FieldsTypeOK, serverVars, wireVars, cursorVars, fieldVars
  <2>3. CallTypeOK'
    BY <1>1 DEF RowsTypeOK, CallTypeOK, listVars, appVars
  <2> QED BY <2>1, <2>2, <2>3 DEF RowsTypeOK
<1>8. CallsInOrder'
  BY <1>1, <1>2, <1>5 DEF CallsInOrder, ByField, Buffering
<1>9. WireInStep'
  BY <1>1, <1>2, <1>3, <1>5, <1>6 DEF WireInStep, AtBoundary
<1>10. FieldsInOrder'
  BY <1>1, <1>2, <1>3, <1>4, <1>5, <1>6 DEF FieldsInOrder
<1>11. GivenInOrder'
  BY <1>2, <1>5 DEF GivenInOrder
<1>12. RowInPlace'
  <2>1. Done' = 0
    BY <1>1, <1>2, <1>4 DEF Done
  <2>2. row' \in [Cols -> Cols \cup {Null, Junk}] /\ field_sizes' \in [Cols -> Nat]
    BY <1>1
  <2>3. \A k \in 1..Columns : row'[k] = Junk /\ field_sizes'[k] = 0
    BY <1>1 DEF Cols
  <2> QED BY <2>1, <2>2, <2>3 DEF RowInPlace
<1>13. ListsInOrder'
  <2>1. \A r : Stores(r)' = Stores(r)
    BY <1>1, SameCopies DEF listVars
  <2>2. Listed' = Listed
    BY <1>2, <1>4, <1>6 DEF Listed
  <2> QED BY <1>1, <1>4, <1>5, <2>1, <2>2 DEF ListsInOrder, Listing, listVars
<1>14. ShownAsSent'
  BY <1>2, <1>5, <1>7 DEF ShownAsSent, RowsTypeOK, CallTypeOK
<1> QED BY <1>7, <1>8, <1>9, <1>10, <1>11, <1>12, <1>13, <1>14

(* Which value the field at hand is.                                       *)
LEMMA HandIsNth ==
  ASSUME RowsInvariant, at \in {"field_done", "buffered"}, rc = "OK"
  PROVE  /\ field_current \in 1..Cardinality(Stored(row_count))
         /\ Cardinality(Stored(row_count)) \in 0..Columns
         /\ field = Nth(row_count, field_current)
         /\ InRow /\ ~ RowUsed
         /\ row_count \in 1..Len(rows) /\ ReadUpTo \in Stored(row_count)
         /\ field # Null => field \in Bytes /\ Len(field) = field_total
         /\ field = Null => field_total = 0
<1> USE DEF RowsInvariant
<1>1. InRow /\ ~ RowUsed /\ ~ RowBegun
  BY DEF InRow, RowUsed, RowBegun
<1>2. Counted /\ AtHand /\ Within
  BY <1>1 DEF FieldsInOrder, WireInStep
<1>3. ReadUpTo \in Stored(row_count) /\ field_current = Upto(row_count, ReadUpTo)
  BY <1>2, UptoIs DEF Counted, AtHand
<1>4. /\ field_current \in 1..Cardinality(Stored(row_count))
      /\ Delivered(row_count)[field_current] = ReadUpTo
  BY <1>3, DeliveredIs
<1>5. row_count \in 1..Len(rows) /\ StreamTypeOK
  BY <1>2 DEF Within, RowsTypeOK, FieldsTypeOK, StreamTypeOK
<1>6. ReadUpTo \in Cols
  BY <1>3 DEF Stored
<1>7. /\ field # Null => field \in Bytes /\ Len(field) = field_total
      /\ field = Null => field_total = 0
  BY <1>2, <1>5, <1>6, RowValues DEF AtHand, SizeOf
<1> QED BY <1>1, <1>2, <1>3, <1>4, <1>5, <1>7, UptoIs DEF AtHand, Nth

LEMMA FieldBufferCopiesKeeps ==
  ASSUME RowsInvariant, FieldBufferCopies
  PROVE  RowsInvariant'
<1> USE DEF RowsInvariant
<1>1. /\ at = "field_done" /\ call # "field_read" /\ rc = "OK" /\ field # Null
      /\ at' \in {"buffered", "field"} /\ call' = call /\ rc' = rc /\ pending' = pending
      /\ row' = row /\ field_sizes' = field_sizes
      /\ UNCHANGED <<serverVars, wireVars, cursorVars, fieldVars>>
      /\ UNCHANGED listVars
      /\ UNCHANGED appVars
  BY DEF FieldBufferCopies, OnwardTo
<1>2. /\ field_current \in Cols /\ field \in Bytes /\ Len(field) = field_total
      /\ InRow /\ ~ RowUsed /\ ~ RowBegun
  <2>1. Columns \in Nat
    BY RowsAssumption
  <2> QED BY <1>1, <2>1, HandIsNth DEF Cols, RowBegun
<1>3. field_offset = 0 /\ field_size = field_total /\ Whole /\ Current = field_current
  BY DEF FieldsInOrder, Whole, Current, RowsTypeOK, FieldsTypeOK
<1>4. at' = "buffered"
  BY <1>3 DEF FieldBufferCopies, OnwardTo
<1>5. /\ field_buffer' \in [Cols -> Bytes]
      /\ \A k \in Cols : k # field_current => field_buffer'[k] = field_buffer[k]
      /\ SubSeq(field_buffer'[field_current], 1, field_total) = field
  <2> DEFINE b == field_buffer[field_current]
             t == SubSeq(b, field_offset + field_size + 1, Len(b))
             s == SubSeq(b, 1, field_offset) \o field \o t
  <2>1. field_buffer \in [Cols -> Bytes] /\ field_total \in Nat
    BY DEF RowsTypeOK, FieldsTypeOK
  <2>2. b \in Seq(Units)
    BY <1>2, <2>1 DEF Bytes
  <2>3. field_buffer' = [field_buffer EXCEPT ![field_current] = s]
    BY <1>3 DEF FieldBufferCopies
  <2>4. SubSeq(b, 1, field_offset) = <<>>
    <3> HIDE DEF b
    <3> QED BY <1>3, <2>2
  <2>5. t \in Seq(Units)
    <3> HIDE DEF b
    <3> QED BY <1>3, <2>1, <2>2
  <2>6. SubSeq(b, 1, field_offset) \o field = field
    <3> HIDE DEF b
    <3> QED BY <1>2, <2>4, ConcatEmptySeq DEF Bytes
  <2>7. s = field \o t
    <3> HIDE DEF t
    <3> QED BY <2>6
  <2> HIDE DEF b, t, s
  <2>8. s \in Bytes /\ SubSeq(s, 1, field_total) = field
    <3>1. field \in Seq(Units)
      BY <1>2 DEF Bytes
    <3>2. SubSeq(field \o t, 1, Len(field)) = field
      BY <2>5, <3>1, Cut
    <3>3. field \o t \in Seq(Units)
      BY <2>5, <3>1, ConcatProperties
    <3> QED BY <1>2, <2>7, <3>2, <3>3 DEF Bytes
  <2> QED BY <1>2, <2>1, <2>3, <2>8
<1>6. /\ Behind' = Behind /\ Within' = Within /\ AllRows' = AllRows
      /\ Counted' = Counted /\ BitmapKept' = BitmapKept /\ AtHand' = AtHand
      /\ \A k : Nth(row_count, k)' = Nth(row_count, k)
      /\ Cardinality(Stored(row_count))' = Cardinality(Stored(row_count))
  BY <1>1, SameStream
<1>7. /\ row_count' = row_count /\ row_current' = row_current
      /\ field_current' = field_current /\ field_offset' = field_offset
      /\ field_size' = field_size /\ field_total' = field_total /\ field' = field
      /\ null_bitcount' = null_bitcount /\ binary_rows' = binary_rows
  BY <1>1 DEF serverVars, cursorVars, fieldVars
<1>8. /\ in_row' = in_row /\ over' = over /\ buffered' = buffered /\ part' = part
      /\ given' = given /\ shown' = shown /\ skipped' = skipped
  BY <1>1 DEF appVars, listVars
<1>9. InRow' /\ ~ RowUsed' /\ ~ RowBegun'
  BY <1>4 DEF InRow, RowUsed, RowBegun
<1>10. Done = field_current - 1 /\ Done' = Done
  BY <1>1, <1>4, <1>7 DEF Done
<1>11. RowsTypeOK'
  <2>1. StreamTypeOK'
    BY <1>1, Frozen DEF RowsTypeOK
  <2>2. FieldsTypeOK'
    BY <1>1, <1>5 DEF RowsTypeOK, FieldsTypeOK, serverVars, wireVars, cursorVars,
                      fieldVars
  <2>3. CallTypeOK'
    BY <1>1 DEF RowsTypeOK, CallTypeOK, listVars, appVars
  <2> QED BY <2>1, <2>2, <2>3 DEF RowsTypeOK
<1>12. CallsInOrder'
  BY <1>1, <1>4, <1>8 DEF CallsInOrder, ByField, Buffering
<1>13. WireInStep'
  BY <1>1, <1>2, <1>4, <1>6, <1>8, <1>9 DEF WireInStep, AtBoundary, CallsInOrder
<1>14. FieldsInOrder'
  <2>1. Kept(field_current)' = field
    BY <1>5, <1>7 DEF Kept
  <2> QED BY <1>1, <1>2, <1>4, <1>6, <1>7, <1>8, <1>9, <2>1 DEF FieldsInOrder
<1>15. GivenInOrder'
  BY <1>1, <1>4, <1>6, <1>7, <1>8, <1>10 DEF GivenInOrder, Buffering
<1>16. RowInPlace'
  <2>1. SUFFICES ASSUME Buffering
        PROVE  RowInPlace'
    BY <1>1 DEF RowInPlace, Buffering
  <2>2. /\ row \in [Cols -> Cols \cup {Null, Junk}] /\ field_sizes \in [Cols -> Nat]
        /\ \A k \in 1..Done : Placed(k, Nth(row_count, k))
        /\ \A k \in (Done + 1)..Columns : row[k] = Junk /\ field_sizes[k] = 0
    BY <1>1, <2>1 DEF RowInPlace
  <2>3. ASSUME NEW k \in 1..Done
        PROVE  Placed(k, Nth(row_count, k))'
    <3>1. k \in Cols /\ k # field_current
      BY <1>2, <1>10, RowsAssumption DEF Cols
    <3>2. field_buffer'[k] = field_buffer[k]
      BY <1>5, <3>1
    <3> QED BY <1>1, <1>6, <2>2, <3>2 DEF Placed
  <2> QED BY <1>1, <1>10, <2>2, <2>3 DEF RowInPlace
<1>17. ListsInOrder'
  <2>1. \A r : Stores(r)' = Stores(r)
    BY <1>1, SameCopies DEF listVars
  <2>2. Listed' = Listed
    BY <1>2, <1>7, <1>9 DEF Listed
  <2> QED BY <1>1, <1>7, <1>8, <2>1, <2>2 DEF ListsInOrder, Listing, listVars
<1>18. ShownAsSent'
  BY <1>1, <1>8, <1>11 DEF ShownAsSent, RowsTypeOK, CallTypeOK, CallsInOrder
<1> QED BY <1>11, <1>12, <1>13, <1>14, <1>15, <1>16, <1>17, <1>18

LEMMA RowBufferStoresKeeps ==
  ASSUME RowsInvariant, RowBufferStores
  PROVE  RowsInvariant'
<1> USE DEF RowsInvariant
<1>1. /\ at \in {"field_done", "buffered"} /\ rc = "OK" /\ Buffering
      /\ at' = "field" /\ call' = call /\ rc' = rc /\ pending' = pending
      /\ field_buffer' = field_buffer
      /\ UNCHANGED <<serverVars, wireVars, cursorVars, fieldVars>>
      /\ UNCHANGED listVars
      /\ UNCHANGED appVars
  BY DEF RowBufferStores, OnwardTo, Buffering, CallsInOrder
<1>2. /\ field_current \in Cols /\ field_current \in Nat \ {0}
      /\ field = Nth(row_count, field_current)
      /\ field # Null => field \in Bytes /\ Len(field) = field_total
      /\ InRow /\ ~ RowUsed /\ ~ RowBegun
  <2>1. Columns \in Nat
    BY RowsAssumption
  <2> QED BY <1>1, <2>1, HandIsNth DEF Cols, RowBegun
<1>3. Done = field_current - 1 /\ Done' = field_current
  BY <1>1 DEF Done, fieldVars
<1>4. /\ row \in [Cols -> Cols \cup {Null, Junk}] /\ field_sizes \in [Cols -> Nat]
      /\ \A k \in 1..Done : Placed(k, Nth(row_count, k))
      /\ \A k \in (Done + 1)..Columns : row[k] = Junk /\ field_sizes[k] = 0
  BY <1>1 DEF RowInPlace
<1>5. /\ row' \in [Cols -> Cols \cup {Null, Junk}] /\ field_sizes' \in [Cols -> Nat]
      /\ \A k \in Cols : k # field_current =>
           row'[k] = row[k] /\ field_sizes'[k] = field_sizes[k]
      /\ Placed(field_current, field)'
  <2>1. field_total \in Nat /\ field' = field /\ field_current' = field_current
    BY <1>1 DEF RowsTypeOK, FieldsTypeOK, fieldVars
  <2>2. CASE at = "buffered"
    <3>1. /\ row' = [row EXCEPT ![field_current] = field_current]
          /\ field_sizes' = [field_sizes EXCEPT ![field_current] = field_total]
      BY <2>2 DEF RowBufferStores
    <3>2. field # Null /\ SubSeq(field_buffer[field_current], 1, field_total) = field
      BY <2>2 DEF FieldsInOrder, Kept
    <3>3. /\ row'[field_current] = field_current
          /\ field_sizes'[field_current] = field_total
      BY <1>2, <1>4, <3>1
    <3>4. Placed(field_current, field)'
      BY <1>1, <1>2, <2>1, <3>2, <3>3 DEF Placed
    <3> QED BY <1>2, <1>4, <2>1, <3>1, <3>4
  <2>3. CASE at # "buffered"
    <3>1. /\ row' = [row EXCEPT ![field_current] = Null]
          /\ field_sizes' = [field_sizes EXCEPT ![field_current] = 0]
          /\ field = Null
      BY <2>3 DEF RowBufferStores
    <3>2. row'[field_current] = Null /\ field_sizes'[field_current] = 0
      BY <1>2, <1>4, <3>1
    <3>3. Placed(field_current, field)'
      BY <2>1, <3>1, <3>2 DEF Placed
    <3> QED BY <1>2, <1>4, <3>1, <3>3
  <2> QED BY <2>2, <2>3
<1>6. /\ Behind' = Behind /\ Within' = Within /\ AllRows' = AllRows
      /\ Counted' = Counted /\ BitmapKept' = BitmapKept
      /\ \A k : Nth(row_count, k)' = Nth(row_count, k)
      /\ Cardinality(Stored(row_count))' = Cardinality(Stored(row_count))
  BY <1>1, SameStream
<1>7. /\ row_count' = row_count /\ row_current' = row_current
      /\ field_current' = field_current /\ field_offset' = field_offset
      /\ field_size' = field_size /\ field_total' = field_total /\ field' = field
      /\ null_bitcount' = null_bitcount /\ binary_rows' = binary_rows
  BY <1>1 DEF serverVars, cursorVars, fieldVars
<1>8. /\ in_row' = in_row /\ over' = over /\ buffered' = buffered /\ part' = part
      /\ given' = given /\ shown' = shown /\ skipped' = skipped
  BY <1>1 DEF appVars, listVars
<1>9. /\ InRow' /\ ~ RowUsed' /\ ~ RowBegun'
      /\ ~ in_row /\ given = <<>> /\ ~ over /\ ~ buffered /\ shown = 0
  BY <1>1 DEF InRow, RowUsed, RowBegun, CallsInOrder, Buffering, ByField, GivenInOrder
<1>10. RowsTypeOK'
  <2>1. StreamTypeOK'
    BY <1>1, Frozen DEF RowsTypeOK
  <2>2. FieldsTypeOK'
    BY <1>1 DEF RowsTypeOK, FieldsTypeOK, serverVars, wireVars, cursorVars, fieldVars
  <2>3. CallTypeOK'
    BY <1>1 DEF RowsTypeOK, CallTypeOK, listVars, appVars
  <2> QED BY <2>1, <2>2, <2>3 DEF RowsTypeOK
<1>11. CallsInOrder'
  BY <1>1, <1>8, <1>9 DEF CallsInOrder, ByField, Buffering
<1>12. WireInStep'
  BY <1>1, <1>2, <1>6, <1>8, <1>9 DEF WireInStep, AtBoundary
<1>13. FieldsInOrder'
  BY <1>1, <1>2, <1>6, <1>7, <1>8, <1>9 DEF FieldsInOrder
<1>14. GivenInOrder'
  BY <1>8, <1>9 DEF GivenInOrder
<1>15. RowInPlace'
  <2>1. ASSUME NEW k \in 1..field_current
        PROVE  Placed(k, Nth(row_count, k))'
    <3>1. Nth(row_count, k)' = Nth(row_count, k) /\ k \in Cols
      BY <1>2, <1>6, RowsAssumption DEF Cols
    <3>2. CASE k = field_current
      BY <1>2, <1>5, <1>7, <3>1, <3>2 DEF Placed
    <3>3. CASE k # field_current
      <4>1. Placed(k, Nth(row_count, k)) /\ row'[k] = row[k]
            /\ field_sizes'[k] = field_sizes[k]
        BY <1>2, <1>3, <1>4, <1>5, <3>1, <3>3
      <4> QED BY <1>1, <3>1, <4>1 DEF Placed
    <3> QED BY <3>2, <3>3
  <2>2. \A k \in (field_current + 1)..Columns : row'[k] = Junk /\ field_sizes'[k] = 0
    <3>1. \A k \in (field_current + 1)..Columns :
            k \in (Done + 1)..Columns /\ k \in Cols /\ k # field_current
      BY <1>2, <1>3, RowsAssumption DEF Cols
    <3> QED BY <1>4, <1>5, <3>1
  <2> QED BY <1>3, <1>5, <1>7, <2>1, <2>2 DEF RowInPlace
<1>16. ListsInOrder'
  <2>1. \A r : Stores(r)' = Stores(r)
    BY <1>1, SameCopies DEF listVars
  <2>2. Listed' = Listed
    BY <1>2, <1>7, <1>9 DEF Listed
  <2> QED BY <1>1, <1>7, <1>8, <2>1, <2>2 DEF ListsInOrder, Listing, listVars
<1>17. ShownAsSent'
  BY <1>8, <1>9, <1>10 DEF ShownAsSent, RowsTypeOK, CallTypeOK
<1> QED BY <1>10, <1>11, <1>12, <1>13, <1>14, <1>15, <1>16, <1>17

----------------------------------------------------------------------------
(* The application is given a field.                                       *)

LEMMA FieldCallReturns ==
  ASSUME RowsInvariant, FieldReadReturns \/ FieldBufferReturns
  PROVE  RowsInvariant'
<1> USE DEF RowsInvariant
<1>1. /\ at \in {"field_done", "buffered"} /\ ByField
      /\ call' = "none" /\ at' = "app" /\ rc' = rc /\ pending' = pending
      /\ UNCHANGED <<serverVars, wireVars, cursorVars, fieldVars>>
      /\ UNCHANGED rowVars
      /\ UNCHANGED listVars
      /\ over' = over /\ shown' = shown /\ skipped' = skipped
  BY DEF FieldReadReturns, FieldBufferReturns, Return, ByField
<1>2. /\ in_row /\ ~ over /\ ~ buffered /\ pending = "none" /\ shown = 0
      /\ rc \in {"OK", "ROW_END"} /\ (at = "buffered" => rc = "OK")
      /\ InRow /\ ~ RowBegun
  BY <1>1 DEF CallsInOrder, InRow, RowBegun
<1>3. rc = "OK" => /\ field_current \in 1..Cardinality(Stored(row_count))
                   /\ Cardinality(Stored(row_count)) \in Nat
                   /\ field = Nth(row_count, field_current)
                   /\ field \in Bytes \cup {Null}
                   /\ <<>> \o field = field \/ field = Null
  <2>1. field \in Bytes \cup {Null}
    BY DEF RowsTypeOK, FieldsTypeOK
  <2>2. field # Null => <<>> \o field = field
    BY <2>1, ConcatEmptySeq DEF Bytes
  <2>3. Cardinality(Stored(row_count)) \in 0..Columns => Cardinality(Stored(row_count)) \in Nat
    OBVIOUS
  <2> QED BY <1>1, <2>1, <2>2, <2>3, HandIsNth
<1>4. /\ field_offset + field_size = field_total /\ part = <<>>
      /\ at = "buffered" => Kept(field_current) = field
      /\ field \in Bytes \cup {Null}
  BY DEF FieldsInOrder, RowsTypeOK, FieldsTypeOK
<1>5. /\ part' = <<>>
      /\ rc = "ROW_END" => in_row' = FALSE /\ given' = given /\ RowUsed
      /\ rc = "OK" => in_row' = in_row /\ given' = Append(given, field) /\ ~ RowUsed
  <2>1. CASE FieldReadReturns /\ rc = "ROW_END"
    BY <1>1, <1>2, <1>4, <2>1 DEF FieldReadReturns, RowUsed
  <2>2. CASE FieldReadReturns /\ rc = "OK" /\ field = Null
    BY <1>1, <1>2, <1>4, <2>2 DEF FieldReadReturns, RowUsed
  <2>3. CASE FieldReadReturns /\ rc = "OK" /\ field # Null
    <3>1. part \o field = field
      BY <1>4, <2>3, ConcatEmptySeq DEF Bytes
    <3> QED BY <1>1, <1>2, <1>4, <2>3, <3>1 DEF FieldReadReturns, RowUsed
  <2>4. CASE FieldBufferReturns
    BY <1>1, <1>2, <1>4, <2>4 DEF FieldBufferReturns, RowUsed
  <2> QED BY <1>2, <2>1, <2>2, <2>3, <2>4
<1>6. /\ Behind' = Behind /\ Within' = Within /\ AllRows' = AllRows
      /\ Counted' = Counted /\ BitmapKept' = BitmapKept
      /\ \A k : Nth(row_count, k)' = Nth(row_count, k)
      /\ Cardinality(Stored(row_count))' = Cardinality(Stored(row_count))
  BY <1>1, SameStream
<1>7. /\ row_count' = row_count /\ row_current' = row_current
      /\ field_current' = field_current /\ field_offset' = field_offset
      /\ field_size' = field_size /\ field_total' = field_total
      /\ null_bitcount' = null_bitcount /\ binary_rows' = binary_rows
  BY <1>1 DEF serverVars, cursorVars, fieldVars
<1>8. buffered' = buffered /\ ~ RowUsed' /\ ~ RowBegun'
  BY <1>1 DEF listVars, RowUsed, RowBegun
<1>9. InRow' <=> rc = "OK"
  BY <1>1, <1>2, <1>5 DEF InRow, RowBegun
<1>10. RowsTypeOK'
  <2>1. StreamTypeOK'
    BY <1>1, Frozen DEF RowsTypeOK
  <2>2. FieldsTypeOK'
    BY <1>1 DEF RowsTypeOK, FieldsTypeOK, serverVars, wireVars, cursorVars, fieldVars,
                rowVars
  <2>3. given' \in Seq(Bytes \cup {Null})
    <3> DEFINE S == Bytes \cup {Null}
    <3>1. given \in Seq(S) /\ field \in S
      BY <1>4 DEF RowsTypeOK, CallTypeOK
    <3>2. given' = given \/ given' = Append(given, field)
      BY <1>2, <1>5
    <3> HIDE DEF S
    <3>3. given' \in Seq(S)
      BY <3>1, <3>2
    <3> QED BY <3>3 DEF S
  <2>4. CallTypeOK'
    BY <1>1, <1>2, <1>5, <2>3 DEF RowsTypeOK, CallTypeOK, listVars
  <2> QED BY <2>1, <2>2, <2>4 DEF RowsTypeOK
<1>11. CallsInOrder'
  BY <1>1, <1>2, <1>5, <1>8 DEF CallsInOrder, ByField, Buffering
<1>12. WireInStep'
  BY <1>1, <1>2, <1>5, <1>6, <1>7, <1>8, <1>9 DEF WireInStep, AtBoundary
<1>13. FieldsInOrder'
  BY <1>1, <1>2, <1>5, <1>6, <1>7, <1>8, <1>9 DEF FieldsInOrder
<1>14. GivenInOrder'
  <2>1. CASE rc = "ROW_END"
    BY <1>1, <1>2, <1>5, <1>6, <1>7, <1>8, <2>1 DEF GivenInOrder, Buffering
  <2>2. CASE rc = "OK"
    <3>1. given \in Seq(Bytes \cup {Null}) /\ Len(given) = field_current - 1
      BY <1>1, <1>2, <2>2 DEF GivenInOrder, Done, RowsTypeOK, CallTypeOK
    <3>2. given' = Append(given, field) /\ field_current \in Nat \ {0}
      BY <1>3, <1>5, <2>2
    <3>3. /\ Len(given') = field_current
          /\ \A k \in 1..Len(given) : given'[k] = given[k]
          /\ given'[field_current] = field
      BY <1>4, <3>1, <3>2
    <3>4. Done' = field_current
      BY <1>1, <1>7 DEF Done
    <3>5. ASSUME NEW k \in 1..Len(given')
          PROVE  given'[k] = Nth(row_count, k)'
      <4>1. CASE k = field_current
        BY <1>3, <1>6, <2>2, <3>3, <4>1
      <4>2. CASE k # field_current
        <5>1. k \in 1..Len(given)
          BY <3>1, <3>2, <3>3, <4>2
        <5> QED BY <1>6, <3>3, <5>1 DEF GivenInOrder
      <4> QED BY <4>1, <4>2
    <3>6. Within
      BY <1>2, <1>5, <2>2 DEF WireInStep
    <3>7. row_current = row_count /\ row_count # 0
      BY <3>6 DEF Within
    <3>8. Len(given') <= Cardinality(Stored(row_count))'
      BY <1>3, <1>6, <2>2, <3>3
    <3> QED BY <1>1, <1>2, <1>7, <1>8, <3>3, <3>4, <3>5, <3>7, <3>8
            DEF GivenInOrder, Buffering
  <2> QED BY <1>2, <2>1, <2>2
<1>15. RowInPlace'
  BY <1>1 DEF RowInPlace
<1>16. ListsInOrder'
  BY <1>1, <1>2, <1>8 DEF ListsInOrder, Listing
<1>17. ShownAsSent'
  BY <1>1, <1>2, <1>10 DEF ShownAsSent, RowsTypeOK, CallTypeOK
<1> QED BY <1>10, <1>11, <1>12, <1>13, <1>14, <1>15, <1>16, <1>17

----------------------------------------------------------------------------
(* A row is complete.                                                      *)

(* What a place of the row points to.                                      *)
LEMMA PlacePoints ==
  ASSUME NEW k \in Cols, NEW v, v = Null \/ v \in Bytes, Placed(k, v)
  PROVE  Pointee(k) = v
<1>1. k # Null /\ k # Junk
  BY PointersAssumption DEF Cols
<1>2. CASE v = Null
  BY <1>2 DEF Placed, Pointee
<1>3. CASE v # Null
  BY <1>1, <1>3 DEF Placed, Pointee
<1> QED BY <1>2, <1>3

LEMMA NthIs ==
  ASSUME StreamTypeOK, NEW r \in 1..Len(rows), NEW k \in 1..Cardinality(Stored(r))
  PROVE  LET c == Delivered(r)[k]
         IN  /\ c \in Cols /\ Nth(r, k) \in Bytes \cup {Null} /\ SizeOf(r, c) \in Nat
             /\ Nth(r, k) = Null <=> rows[r][c] = Null
             /\ Nth(r, k) = Null => SizeOf(r, c) = 0
             /\ Nth(r, k) # Null => Len(Nth(r, k)) = SizeOf(r, c)
<1> DEFINE c == Delivered(r)[k]
<1>1. c \in Cols
  BY DeliveredIs DEF Stored
<1> HIDE DEF c
<1>2. /\ rows[r][c] = Null \/ rows[r][c] \in Nat
      /\ rows[r][c] = Null => Value(r, c) = Null
      /\ rows[r][c] # Null => /\ Value(r, c) \in Bytes /\ Value(r, c) # Null
                              /\ Len(Value(r, c)) = rows[r][c]
  BY <1>1, RowValues
<1>3. Nth(r, k) = Value(r, c)
  BY DEF Nth, c
<1> QED BY <1>1, <1>2, <1>3 DEF SizeOf, c

LEMMA RowComplete ==
  ASSUME RowsInvariant, at = "field_done", Buffering, rc = "ROW_END"
  PROVE  LET n == Cardinality(Stored(row_count))
         IN  /\ row_count \in 1..Len(rows) /\ Behind /\ RowUsed /\ BitmapKept
             /\ n \in 0..Columns /\ n = Columns - null_bitcount
             /\ field_sizes \in [Cols -> Nat]
             /\ \A k \in 1..n : Pointee(k) = Nth(row_count, k)
             /\ \A k \in 1..n : field_sizes[k] = SizeOf(row_count, Delivered(row_count)[k])
             /\ \A k \in (n + 1)..Columns : field_sizes[k] = 0
<1> USE DEF RowsInvariant
<1> DEFINE n == Cardinality(Stored(row_count))
<1>1. RowUsed /\ InRow /\ AtBoundary /\ field_current = n /\ Done = n
  BY DEF RowUsed, InRow, AtBoundary, FieldsInOrder, Done
<1>2. Behind /\ BitmapKept /\ row_count # 0
  BY <1>1 DEF WireInStep, FieldsInOrder
<1>3. row_count \in 1..Len(rows) /\ StreamTypeOK
  BY <1>2 DEF RowsTypeOK, FieldsTypeOK, StreamTypeOK
<1>4. n \in 0..Columns /\ Columns \in Nat
  BY UptoIs, RowsAssumption
<1>5. n = Columns - null_bitcount
  <2>1. CASE binary_rows
    BY <1>2, <1>3, <2>1, StoredIs DEF BitmapKept
  <2>2. CASE ~ binary_rows
    <3>1. null_bitcount = 0
      BY <2>2 DEF FieldsInOrder
    <3>2. n = Columns
      BY <1>3, <2>2, StoredIs
    <3> QED BY <1>4, <3>1, <3>2
  <2> QED BY <2>1, <2>2
<1>6. /\ field_sizes \in [Cols -> Nat]
      /\ \A k \in 1..n : Placed(k, Nth(row_count, k))
      /\ \A k \in (n + 1)..Columns : field_sizes[k] = 0
  BY <1>1 DEF RowInPlace
<1>7. ASSUME NEW k \in 1..n
      PROVE  /\ Pointee(k) = Nth(row_count, k)
             /\ field_sizes[k] = SizeOf(row_count, Delivered(row_count)[k])
  <2> DEFINE v == Nth(row_count, k)
             m == SizeOf(row_count, Delivered(row_count)[k])
  <2>1. /\ v \in Bytes \cup {Null} /\ (v = Null => m = 0) /\ (v # Null => Len(v) = m)
    BY <1>3, NthIs
  <2>2. k \in Cols /\ Placed(k, v)
    BY <1>4, <1>6 DEF Cols
  <2> HIDE DEF v, m, n
  <2>3. Pointee(k) = v
    BY <2>1, <2>2, PlacePoints
  <2>4. field_sizes[k] = m
    BY <2>1, <2>2 DEF Placed
  <2> QED BY <2>3, <2>4 DEF v, m
<1> QED BY <1>1, <1>2, <1>3, <1>4, <1>5, <1>6, <1>7

LEMMA RowBufferReturnsKeeps ==
  ASSUME RowsInvariant, RowBufferReturns
  PROVE  RowsInvariant'
<1> USE DEF RowsInvariant
<1> DEFINE n == Cardinality(Stored(row_count))
<1>1. /\ at = "field_done" /\ call = "row_buffer" /\ rc = "ROW_END" /\ Buffering
      /\ call' = "none" /\ at' = "app" /\ rc' = "OK" /\ pending' = pending
      /\ UNCHANGED <<serverVars, wireVars, cursorVars, fieldVars>>
      /\ UNCHANGED rowVars
      /\ UNCHANGED listVars
      /\ given' = [i \in 1..(Columns - null_bitcount) |-> Pointee(i)]
      /\ part' = part /\ in_row' = in_row /\ over' = over /\ shown' = shown
      /\ skipped' = skipped
  BY DEF RowBufferReturns, Return, Buffering
<1>2. /\ row_count \in 1..Len(rows) /\ Behind /\ StreamTypeOK
      /\ n \in 0..Columns /\ n = Columns - null_bitcount
      /\ \A k \in 1..n : Pointee(k) = Nth(row_count, k)
  BY <1>1, RowComplete DEF RowsTypeOK
<1>3. /\ ~ in_row /\ ~ over /\ ~ buffered /\ pending = "none" /\ shown = 0
  BY <1>1 DEF CallsInOrder, ByField, Buffering
<1>4. /\ given' = [i \in 1..n |-> Nth(row_count, i)]
      /\ given' \in Seq(Bytes \cup {Null}) /\ Len(given') = n
      /\ \A k \in 1..n : given'[k] = Nth(row_count, k)
  <2>1. \A k \in 1..n : Nth(row_count, k) \in Bytes \cup {Null}
    BY <1>2, NthIs
  <2>2. n \in Nat
    BY <1>2
  <2>3. given' = [i \in 1..n |-> Nth(row_count, i)]
    <3> HIDE DEF n
    <3> QED BY <1>1, <1>2
  <2> DEFINE S == Bytes \cup {Null}
  <2> HIDE DEF S, n
  <2>4. given' \in Seq(S) /\ Len(given') = n
    BY <2>1, <2>2, <2>3 DEF S
  <2> QED BY <2>3, <2>4 DEF S
<1>5. /\ Behind' = Behind /\ AllRows' = AllRows
      /\ \A k : Nth(row_count, k)' = Nth(row_count, k)
      /\ Cardinality(Stored(row_count))' = n
  BY <1>1, SameStream
<1>6. /\ row_count' = row_count /\ row_current' = row_current
      /\ field_current' = field_current /\ field_offset' = field_offset
      /\ field_size' = field_size /\ field_total' = field_total
      /\ null_bitcount' = null_bitcount /\ binary_rows' = binary_rows
  BY <1>1 DEF serverVars, cursorVars, fieldVars
<1>7. buffered' = buffered /\ ~ RowUsed' /\ ~ RowBegun' /\ ~ InRow'
  BY <1>1, <1>3 DEF listVars, RowUsed, RowBegun, InRow
<1>8. RowsTypeOK'
  <2>1. StreamTypeOK'
    BY <1>1, Frozen DEF RowsTypeOK
  <2>2. FieldsTypeOK'
    BY <1>1 DEF RowsTypeOK, FieldsTypeOK, serverVars, wireVars, cursorVars, fieldVars,
                rowVars
  <2>3. CallTypeOK'
    BY <1>1, <1>4 DEF RowsTypeOK, CallTypeOK, listVars
  <2> QED BY <2>1, <2>2, <2>3 DEF RowsTypeOK
<1>9. CallsInOrder'
  BY <1>1, <1>3, <1>7 DEF CallsInOrder, ByField, Buffering
<1>10. WireInStep'
  BY <1>1, <1>2, <1>3, <1>5, <1>7 DEF WireInStep, AtBoundary
<1>11. FieldsInOrder'
  BY <1>1, <1>6, <1>7 DEF FieldsInOrder
<1>12. GivenInOrder'
  <2>1. row_current = row_count /\ row_count # 0 /\ n <= n
    BY <1>2 DEF Behind
  <2> HIDE DEF n
  <2> QED BY <1>1, <1>3, <1>4, <1>5, <1>6, <1>7, <2>1 DEF GivenInOrder, Buffering
<1>13. RowInPlace'
  BY <1>1 DEF RowInPlace
<1>14. ListsInOrder'
  BY <1>1, <1>3, <1>7 DEF ListsInOrder, Listing
<1>15. ShownAsSent'
  BY <1>1, <1>3, <1>8 DEF ShownAsSent, RowsTypeOK, CallTypeOK
<1> QED BY <1>8, <1>9, <1>10, <1>11, <1>12, <1>13, <1>14, <1>15

(* The row as drizzle_result_buffer copies it.                             *)
LEMMA RowCopies ==
  ASSUME RowsInvariant, at = "field_done", Buffering, rc = "ROW_END"
  PROVE  /\ [c \in Cols |-> IF field_sizes[c] > 0 THEN Pointee(c) ELSE Null]
              = RowCopied(row_count)
         /\ field_sizes = RowSizes(row_count)
<1> DEFINE r == row_count
           n == Cardinality(Stored(r))
           D == Delivered(r)
<1>1. /\ r \in 1..Len(rows) /\ n \in 0..Columns
      /\ field_sizes \in [Cols -> Nat]
      /\ \A k \in 1..n : Pointee(k) = Nth(r, k)
      /\ \A k \in 1..n : field_sizes[k] = SizeOf(r, D[k])
      /\ \A k \in (n + 1)..Columns : field_sizes[k] = 0
      /\ StreamTypeOK
  BY RowComplete DEF RowsInvariant, RowsTypeOK
<1>2. Len(D) = n
  BY DeliveredIs
<1>3. \A k \in Cols : k \in 1..n \/ k \in (n + 1)..Columns
  BY <1>1, RowsAssumption DEF Cols
<1>4. \A k \in Cols : k \in 1..n <=> k <= Len(D)
  <2> HIDE DEF D, n
  <2> QED BY <1>1, <1>2, RowsAssumption DEF Cols
<1>5. ASSUME NEW k \in Cols
      PROVE  /\ field_sizes[k] = IF k <= Len(D) THEN SizeOf(r, D[k]) ELSE 0
             /\ (IF field_sizes[k] > 0 THEN Pointee(k) ELSE Null)
                  = IF k <= Len(D) THEN Copied(r, D[k]) ELSE Null
  <2>1. CASE k \in 1..n
    <3>1. k <= Len(D)
      BY <1>4, <2>1
    <3>2. field_sizes[k] = SizeOf(r, D[k]) /\ field_sizes[k] \in Nat
          /\ Pointee(k) = Value(r, D[k])
      BY <1>1, <2>1 DEF Nth
    <3> HIDE DEF D
    <3> QED BY <3>1, <3>2 DEF Copied
  <2>2. CASE ~ (k \in 1..n)
    <3>1. ~ (k <= Len(D)) /\ field_sizes[k] = 0
      BY <1>1, <1>3, <1>4, <2>2
    <3> HIDE DEF D
    <3> QED BY <3>1
  <2> QED BY <2>1, <2>2
<1>6. /\ RowCopied(r) = [k \in Cols |-> IF k <= Len(D) THEN Copied(r, D[k]) ELSE Null]
      /\ RowSizes(r) = [k \in Cols |-> IF k <= Len(D) THEN SizeOf(r, D[k]) ELSE 0]
  BY DEF RowCopied, RowSizes, Compact
<1>7. field_sizes = [k \in Cols |-> field_sizes[k]]
  BY <1>1
<1>8. field_sizes = RowSizes(r)
  <2> HIDE DEF D, r
  <2> QED BY <1>5, <1>6, <1>7
<1>9. [c \in Cols |-> IF field_sizes[c] > 0 THEN Pointee(c) ELSE Null] = RowCopied(r)
  <2> HIDE DEF D, r
  <2> QED BY <1>5, <1>6
<1> QED BY <1>8, <1>9

LEMMA ResultBufferStoresKeeps ==
  ASSUME RowsInvariant, ResultBufferStores
  PROVE  RowsInvariant'
<1> USE DEF RowsInvariant
<1> DEFINE entry == [c \in Cols |-> IF field_sizes[c] > 0 THEN Pointee(c) ELSE Null]
<1>1. /\ at = "field_done" /\ call = "result_buffer" /\ rc = "ROW_END" /\ Buffering
      /\ call' = call /\ at' = "row" /\ rc' = rc /\ pending' = pending
      /\ row_list' = Extended(row_list, entry)
      /\ field_sizes_list' = Extended(field_sizes_list, field_sizes)
      /\ null_bitmap_list' =
           IF binary_rows THEN Extended(null_bitmap_list, null_bitmap) ELSE <<>>
      /\ row_list_size' = Grown
      /\ field_buffer' = field_buffer /\ buffered' = buffered
      /\ UNCHANGED <<serverVars, wireVars, cursorVars, fieldVars>>
      /\ UNCHANGED appVars
  BY DEF ResultBufferStores, OnwardTo, Buffering
<1>2. /\ row_count \in 1..Len(rows) /\ Behind /\ StreamTypeOK /\ BitmapKept
      /\ RowUsed
  BY <1>1, RowComplete DEF RowsTypeOK
<1>3. entry = RowCopied(row_count) /\ field_sizes = RowSizes(row_count)
  BY <1>1, RowCopies
<1> HIDE DEF entry
<1>4. /\ ~ in_row /\ ~ over /\ ~ buffered /\ pending = "none" /\ shown = 0
      /\ given = <<>>
  BY <1>1 DEF CallsInOrder, ByField, Buffering, GivenInOrder
<1>5. /\ Behind' = Behind /\ AllRows' = AllRows
  BY <1>1, SameStream
<1>6. /\ row_count' = row_count /\ row_current' = row_current
      /\ field_current' = field_current /\ field_offset' = field_offset
      /\ field_size' = field_size /\ field_total' = field_total
      /\ null_bitcount' = null_bitcount /\ binary_rows' = binary_rows
  BY <1>1 DEF serverVars, cursorVars, fieldVars
<1>7. /\ in_row' = in_row /\ over' = over /\ part' = part
      /\ given' = given /\ shown' = shown /\ skipped' = skipped
  BY <1>1 DEF appVars
<1>8. ~ RowUsed' /\ ~ RowBegun' /\ ~ InRow' /\ InRow
  BY <1>1, <1>4, <1>7 DEF RowUsed, RowBegun, InRow
<1>9. /\ row_count \in Nat \ {0} /\ row_list_size \in Nat /\ GrowSize \in Nat \ {0}
      /\ skipped \in Nat /\ row_current = row_count
  BY <1>2, RowsAssumption DEF RowsTypeOK, CallTypeOK, StreamTypeOK, Behind
<1>10. row_list_size' \in Nat
  BY <1>1, <1>9 DEF Grown
<1>11. RowsTypeOK'
  <2>1. StreamTypeOK'
    BY <1>1, Frozen DEF RowsTypeOK
  <2>2. FieldsTypeOK'
    BY <1>1 DEF RowsTypeOK, FieldsTypeOK, serverVars, wireVars, cursorVars, fieldVars
  <2>3. CallTypeOK'
    BY <1>1, <1>10 DEF RowsTypeOK, CallTypeOK, appVars
  <2> QED BY <2>1, <2>2, <2>3 DEF RowsTypeOK
<1>12. CallsInOrder'
  BY <1>1, <1>4, <1>7 DEF CallsInOrder, ByField, Buffering
<1>13. WireInStep'
  BY <1>1, <1>2, <1>4, <1>5, <1>7, <1>8 DEF WireInStep, AtBoundary
<1>14. FieldsInOrder'
  BY <1>1, <1>6, <1>7, <1>8 DEF FieldsInOrder
<1>15. GivenInOrder'
  BY <1>4, <1>7 DEF GivenInOrder
<1>16. RowInPlace'
  BY <1>1 DEF RowInPlace
<1>17. ListsInOrder'
  <2>1. SUFFICES ASSUME skipped < GrowSize
        PROVE  ListsInOrder'
    BY <1>7 DEF ListsInOrder
  <2>2. /\ Listed = row_count - 1 /\ Listed' = row_count
    BY <1>6, <1>8 DEF Listed
  <2>3. /\ skipped <= row_count - 1
        /\ \A r \in (skipped + 1)..(row_count - 1) : Stores(r)
        /\ skipped < row_count - 1 =>
             /\ DOMAIN field_sizes_list = 1..row_list_size
             /\ binary_rows => DOMAIN null_bitmap_list = 1..row_list_size
    BY <1>1, <2>1, <2>2 DEF ListsInOrder, Listing
  <2>4. skipped < row_count - 1 => row_count - 1 <= row_list_size
    <3>1. skipped < row_count - 1 => row_count - 1 \in (skipped + 1)..(row_count - 1)
      BY <1>9
    <3> QED BY <2>3, <3>1 DEF Stores
  <2>5. /\ row_count <= Grown /\ row_list_size <= Grown /\ Grown \in Nat
    BY <1>9, <2>1, <2>3, <2>4 DEF Grown
  <2>6. \A list, e : /\ DOMAIN Extended(list, e) = 1..Grown
                     /\ Extended(list, e)[row_count] = e
                     /\ \A k \in 1..Grown : k # row_count /\ k <= row_list_size
                          => Extended(list, e)[k] = list[k]
    <3> TAKE list, e
    <3>1. Extended(list, e) = [k \in 1..Grown |->
             CASE k = row_count -> e
               [] k # row_count /\ k <= row_list_size -> list[k]
               [] OTHER -> Junk]
      BY <1>9 DEF Extended
    <3>2. row_count \in 1..Grown
      BY <1>9, <2>5
    <3> QED BY <3>1, <3>2
  <2>7. /\ row_list'[row_count] = RowCopied(row_count)
        /\ field_sizes_list'[row_count] = RowSizes(row_count)
        /\ binary_rows => null_bitmap_list'[row_count] = Nulls(row_count)
    BY <1>1, <1>2, <1>3, <2>6 DEF BitmapKept
  <2>8. ASSUME NEW r \in (skipped + 1)..row_count
        PROVE  Stores(r)'
    <3>1. /\ RowCopied(r)' = RowCopied(r) /\ RowSizes(r)' = RowSizes(r)
          /\ Nulls(r)' = Nulls(r)
      BY <1>1, Frozen
    <3>2. r <= Grown /\ r \in 1..Grown
      BY <1>9, <2>5
    <3>3. CASE r = row_count
      BY <1>1, <1>6, <2>7, <3>1, <3>2, <3>3 DEF Stores
    <3>4. CASE r # row_count
      <4>1. r \in (skipped + 1)..(row_count - 1)
        BY <1>9, <3>4
      <4>2. Stores(r)
        BY <2>3, <4>1
      <4>3. r <= row_list_size
        BY <4>2 DEF Stores
      <4>4. /\ row_list'[r] = row_list[r] /\ field_sizes_list'[r] = field_sizes_list[r]
            /\ binary_rows => null_bitmap_list'[r] = null_bitmap_list[r]
        BY <1>1, <2>6, <3>2, <3>4, <4>3
      <4> QED BY <1>1, <1>6, <3>1, <3>2, <4>2, <4>4 DEF Stores
    <3> QED BY <3>3, <3>4
  <2>9. /\ DOMAIN field_sizes_list' = 1..row_list_size'
        /\ binary_rows => DOMAIN null_bitmap_list' = 1..row_list_size'
    BY <1>1, <2>6
  <2>10. skipped <= row_count /\ shown <= row_count
    BY <1>4, <1>9, <2>3
  <2> QED BY <1>6, <1>7, <2>2, <2>8, <2>9, <2>10 DEF ListsInOrder
<1>18. ShownAsSent'
  BY <1>4, <1>7, <1>11 DEF ShownAsSent, RowsTypeOK, CallTypeOK
<1> QED BY <1>11, <1>12, <1>13, <1>14, <1>15, <1>16, <1>17, <1>18

----------------------------------------------------------------------------
(* The cursor over buffered rows; a row is freed.                          *)

LEMMA ShownIs ==
  /\ ShownAsSent <=>
       (shown > skipped /\ skipped < GrowSize =>
          /\ field_sizes = RowSizes(shown)
          /\ binary_rows => null_bitmap = Nulls(shown))
  /\ ShownAsSent' <=>
       (shown' > skipped' /\ skipped' < GrowSize =>
          /\ field_sizes' = RowSizes(shown)'
          /\ binary_rows' => null_bitmap' = Nulls(shown)')
BY DEF ShownAsSent, RowSizes

LEMMA CursorMoves ==
  ASSUME RowsInvariant, drizzle_row_next \/ drizzle_row_prev \/ drizzle_row_seek
  PROVE  RowsInvariant'
<1> USE DEF RowsInvariant
<1>1. /\ call = "none" /\ buffered /\ at = "app"
      /\ UNCHANGED serverVars
      /\ UNCHANGED wireVars
      /\ UNCHANGED listVars
      /\ UNCHANGED callVars
      /\ row_count' = row_count /\ field_current' = field_current
      /\ field_current_read' = field_current_read /\ null_bitcount' = null_bitcount
      /\ field_offset' = field_offset /\ field_size' = field_size
      /\ field_total' = field_total /\ field' = field
      /\ field_buffer' = field_buffer
      /\ given' = given /\ part' = part /\ in_row' = in_row /\ over' = over
      /\ skipped' = skipped
  BY DEF drizzle_row_next, drizzle_row_prev, drizzle_row_seek, MoveCursor, CallsInOrder
<1>2. /\ row_count \in Nat /\ row_current \in 0..row_count /\ skipped \in Nat
      /\ shown \in Nat
  BY DEF RowsTypeOK, FieldsTypeOK, CallTypeOK, StreamTypeOK
<1>3. \/ /\ row_current' \in 0..row_count /\ shown' = shown
         /\ field_sizes' = field_sizes /\ null_bitmap' = null_bitmap
      \/ /\ row_current' \in 0..row_count /\ shown' \in 1..row_count
         /\ field_sizes' = At(field_sizes_list, shown')
         /\ binary_rows => null_bitmap' = At(null_bitmap_list, shown')
  <2>1. CASE drizzle_row_next
    BY <1>2, <2>1 DEF drizzle_row_next, Show
  <2>2. CASE drizzle_row_prev
    BY <1>2, <2>2 DEF drizzle_row_prev, Show
  <2>3. CASE drizzle_row_seek
    BY <1>2, <2>3 DEF drizzle_row_seek
  <2> QED BY <2>1, <2>2, <2>3
<1>4. /\ call' = call /\ at' = at /\ rc' = rc /\ pending' = pending
      /\ buffered' = buffered /\ binary_rows' = binary_rows /\ ending' = ending
      /\ rows' = rows /\ row_list_size' = row_list_size
      /\ field_sizes_list' = field_sizes_list /\ null_bitmap_list' = null_bitmap_list
  BY <1>1 DEF callVars, listVars, serverVars
<1>5. ~ in_row /\ given = <<>> /\ ~ over /\ AllRows
  BY <1>1 DEF CallsInOrder, GivenInOrder, WireInStep
<1>6. /\ ~ InRow /\ ~ InRow' /\ ~ RowUsed' /\ ~ RowBegun' /\ ~ AtBoundary'
  BY <1>1, <1>4, <1>5 DEF InRow, RowUsed, RowBegun, AtBoundary
<1>7. RowsTypeOK'
  <2>1. StreamTypeOK'
    BY <1>1, Frozen DEF RowsTypeOK
  <2>2. FieldsTypeOK'
    BY <1>1, <1>3, <1>4 DEF RowsTypeOK, FieldsTypeOK, wireVars
  <2>3. CallTypeOK'
    BY <1>1, <1>2, <1>3, <1>4 DEF RowsTypeOK, CallTypeOK
  <2> QED BY <2>1, <2>2, <2>3 DEF RowsTypeOK
<1>8. CallsInOrder'
  BY <1>1, <1>4, <1>5 DEF CallsInOrder, ByField, Buffering
<1>9. WireInStep'
  <2>1. AllRows'
    BY <1>1, <1>4, <1>5 DEF AllRows
  <2> QED BY <1>1, <1>4, <1>6, <2>1 DEF WireInStep
<1>10. FieldsInOrder'
  BY <1>1, <1>4, <1>6 DEF FieldsInOrder
<1>11. GivenInOrder'
  BY <1>1, <1>5 DEF GivenInOrder
<1>12. RowInPlace'
  BY <1>1, <1>4 DEF RowInPlace, Buffering
<1>13. ListsInOrder'
  <2>1. \A r : Stores(r)' = Stores(r)
    BY <1>1, SameCopies DEF listVars
  <2>2. Listed = row_count /\ Listed' = row_count
    BY <1>1, <1>6 DEF Listed
  <2>3. shown <= row_count => shown' <= row_count
    BY <1>2, <1>3
  <2> QED BY <1>1, <1>4, <2>1, <2>2, <2>3 DEF ListsInOrder, Listing
<1>14. ShownAsSent'
  <2>1. SUFFICES ASSUME shown' > skipped, skipped < GrowSize
        PROVE  /\ field_sizes' = RowSizes(shown)'
               /\ binary_rows => null_bitmap' = Nulls(shown)'
    BY <1>1, <1>4, ShownIs
  <2>2. /\ RowSizes(shown)' = RowSizes(shown') /\ Nulls(shown)' = Nulls(shown')
    BY <1>1, Frozen
  <2>3. CASE shown' = shown /\ field_sizes' = field_sizes /\ null_bitmap' = null_bitmap
    BY <2>1, <2>2, <2>3, ShownIs
  <2>4. CASE /\ shown' \in 1..row_count
             /\ field_sizes' = At(field_sizes_list, shown')
             /\ binary_rows => null_bitmap' = At(null_bitmap_list, shown')
    <3> DEFINE k == shown'
    <3>1. Listing /\ Listed = row_count
      BY <1>1, <1>6 DEF Listing, Listed
    <3>2. k \in (skipped + 1)..Listed /\ skipped < Listed
      BY <1>2, <2>1, <2>4, <3>1
    <3> HIDE DEF k
    <3>3. /\ Stores(k)
          /\ DOMAIN field_sizes_list = 1..row_list_size
          /\ binary_rows => DOMAIN null_bitmap_list = 1..row_list_size
      BY <2>1, <3>1, <3>2 DEF ListsInOrder
    <3>4. k \in 1..row_list_size
      BY <1>2, <3>1, <3>2, <3>3 DEF Stores, RowsTypeOK, CallTypeOK
    <3>5. /\ At(field_sizes_list, k) = RowSizes(k)
          /\ binary_rows => At(null_bitmap_list, k) = Nulls(k)
      BY <3>3, <3>4 DEF At, Stores
    <3> QED BY <2>2, <2>4, <3>5 DEF k
  <2> QED BY <1>3, <2>3, <2>4
<1> QED BY <1>7, <1>8, <1>9, <1>10, <1>11, <1>12, <1>13, <1>14

LEMMA RowFreeKeeps ==
  ASSUME RowsInvariant, drizzle_row_free
  PROVE  RowsInvariant'
<1> USE DEF RowsInvariant
<1>1. /\ call = "none" /\ ~ buffered /\ ~ in_row /\ at = "app" /\ shown = 0
      /\ UNCHANGED serverVars
      /\ UNCHANGED wireVars
      /\ UNCHANGED cursorVars
      /\ UNCHANGED listVars
      /\ UNCHANGED callVars
      /\ UNCHANGED appVars
      /\ field_current' = field_current
      /\ field_current_read' = field_current_read /\ null_bitcount' = null_bitcount
      /\ field_offset' = field_offset /\ field_size' = field_size
      /\ field_total' = field_total /\ field' = field
      /\ field_buffer' = field_buffer
  BY DEF drizzle_row_free, CallsInOrder
<1>2. /\ call' = call /\ at' = at /\ rc' = rc /\ pending' = pending
      /\ buffered' = buffered /\ binary_rows' = binary_rows /\ ending' = ending
      /\ rows' = rows /\ row_list_size' = row_list_size
      /\ wire' = wire /\ packet_size' = packet_size
      /\ row_count' = row_count /\ row_current' = row_current
      /\ given' = given /\ part' = part /\ in_row' = in_row /\ over' = over
      /\ shown' = shown /\ skipped' = skipped
      /\ field_sizes_list' = field_sizes_list /\ null_bitmap_list' = null_bitmap_list
  BY <1>1 DEF callVars, listVars, serverVars, appVars, wireVars, cursorVars
<1>3. /\ ~ InRow /\ ~ InRow' /\ ~ RowUsed' /\ ~ RowBegun'
      /\ ~ RowUsed /\ ~ RowBegun /\ AtBoundary' = AtBoundary
  BY <1>1, <1>2 DEF InRow, RowUsed, RowBegun, AtBoundary
<1>4. RowsTypeOK'
  <2>1. StreamTypeOK'
    BY <1>1, Frozen DEF RowsTypeOK
  <2>2. FieldsTypeOK'
    BY <1>1, <1>2 DEF RowsTypeOK, FieldsTypeOK
  <2>3. CallTypeOK'
    BY <1>2 DEF RowsTypeOK, CallTypeOK
  <2> QED BY <2>1, <2>2, <2>3 DEF RowsTypeOK
<1>5. CallsInOrder'
  BY <1>2 DEF CallsInOrder, ByField, Buffering
<1>6. WireInStep'
  <2>1. RestOf(row_count)' = RestOf(row_count)
    BY <1>1, <1>2, Frozen
  <2>2. AllRows' = AllRows /\ Behind' = Behind
    BY <1>2, <2>1 DEF AllRows, Behind
  <2> QED BY <1>1, <1>2, <1>3, <2>2 DEF WireInStep
<1>7. FieldsInOrder'
  BY <1>1, <1>2, <1>3 DEF FieldsInOrder
<1>8. GivenInOrder'
  <2>1. Stored(row_count)' = Stored(row_count)
        /\ \A k : Nth(row_count, k)' = Nth(row_count, k)
    BY <1>1, <1>2, Frozen
  <2>2. Cardinality(Stored(row_count))' = Cardinality(Stored(row_count))
    BY <2>1
  <2> QED BY <1>1, <1>2, <2>1, <2>2 DEF GivenInOrder, Buffering
<1>9. RowInPlace'
  BY <1>1, <1>2 DEF RowInPlace, Buffering
<1>10. ListsInOrder'
  <2>1. \A r : Stores(r)' = Stores(r)
    BY <1>1, SameCopies DEF listVars
  <2> QED BY <1>2, <1>3, <2>1 DEF ListsInOrder, Listing, Listed
<1>11. ShownAsSent'
  BY <1>1, <1>2, <1>4 DEF ShownAsSent, RowsTypeOK, CallTypeOK
<1> QED BY <1>4, <1>5, <1>6, <1>7, <1>8, <1>9, <1>10, <1>11

----------------------------------------------------------------------------
(* drizzle_row_read.                                                       *)

(* Between two rows there is the head of a packet, and behind it the next  *)
(* row or the end of the result.                                           *)
LEMMA RowAhead ==
  ASSUME StreamTypeOK, RowsFit, NEW r \in 0..Len(rows)
  PROVE  LET w == RestOf(r)
             p == Lead(r + 1) \o Rest(r + 1, 0)
         IN  /\ w \in Bytes /\ w # <<>> /\ Head(w).what = "head" /\ Head(w).i \in Nat
             /\ r = Len(rows) => w[2].what = ending
             /\ r # Len(rows) => /\ w[2].what \notin {"eof", "err"}
                                 /\ Tail(w) = p \o RestOf(r + 1) /\ Head(w).i = Len(p)
<1>1. Len(rows) \in Nat
  BY DEF StreamTypeOK
<1>2. CASE r = Len(rows)
  <2> DEFINE h == Unit("head", 0, 0, 1)
             e == Unit(ending, 0, 0, 0)
  <2>1. h \in Units /\ e \in Units /\ e.what = ending /\ h.what = "head" /\ h.i = 1
    BY DEF Unit, Units, StreamTypeOK
  <2>2. RestOf(r) = <<h>> \o <<e>> /\ RestOf(r) \in Bytes
    BY <1>2, RestOfIs
  <2> DEFINE w == RestOf(r)
  <2> HIDE DEF h, e, w
  <2>3. <<e>> \in Seq(Units) /\ 1 \in 1..Len(<<e>>) /\ <<e>>[1] = e /\ w = <<h>> \o <<e>>
    BY <2>1, <2>2 DEF w
  <2> DEFINE t == <<e>>
  <2>4. w # <<>> /\ Head(w) = h /\ w[1 + 1] = t[1]
    <3> HIDE DEF t
    <3>1. t \in Seq(Units) /\ w = <<h>> \o t /\ 1 \in 1..Len(t)
      BY <2>3 DEF t
    <3> QED BY <2>1, <3>1, OneFirst
  <2>5. w[2] = e
    BY <2>3, <2>4
  <2> QED BY <1>2, <2>1, <2>2, <2>4, <2>5 DEF w
<1>3. CASE r # Len(rows)
  <2> DEFINE p == Lead(r + 1) \o Rest(r + 1, 0)
             h == Unit("head", 0, 0, Len(p))
             q == p \o RestOf(r + 1)
             w == RestOf(r)
  <2>1. r \in 0..(Len(rows) - 1) /\ r + 1 \in 1..Len(rows) /\ r + 1 \in 0..Len(rows)
    BY <1>1, <1>3
  <2>2. w = <<h>> \o q /\ w \in Bytes /\ RestOf(r + 1) \in Seq(Units)
    BY <2>1, RestOfIs DEF Bytes
  <2>3. p \in Seq(Units) /\ p # <<>> /\ p[1].what \notin {"eof", "err"}
    BY <2>1, PayloadIs DEF Bytes
  <2>4. h \in Units /\ h.what = "head" /\ h.i = Len(p) /\ Len(p) \in Nat
    <3> HIDE DEF p
    <3> QED BY <2>3 DEF Unit, Units
  <2> DEFINE g == RestOf(r + 1)
  <2>5. q \in Seq(Units) /\ q[1] = p[1] /\ 1 \in 1..Len(q)
    <3> HIDE DEF p, g
    <3>1. 1 \in 1..Len(p)
      BY <2>3
    <3>2. q = p \o g /\ g \in Seq(Units)
      BY <2>2 DEF g
    <3> HIDE DEF q
    <3> QED BY <2>3, <3>1, <3>2, ConcatProperties
  <2> HIDE DEF p, h, q, w, g
  <2>6. w # <<>> /\ Head(w) = h /\ Tail(w) = q /\ w[1 + 1] = q[1]
    BY <2>2, <2>4, <2>5, OneFirst
  <2>7. w[2] = p[1]
    BY <2>5, <2>6
  <2> QED BY <1>3, <2>2, <2>3, <2>4, <2>6, <2>7 DEF w, q, p
<1> QED BY <1>2, <1>3

LEMMA RowReadKeeps ==
  ASSUME RowsInvariant, RowsFit, drizzle_row_read
  PROVE  RowsInvariant'
<1> USE DEF RowsInvariant
<1>1. /\ at = "row" /\ Behind /\ StreamTypeOK
      /\ call \in {"row_read", "row_buffer", "result_buffer"}
      /\ ~ in_row /\ ~ over /\ ~ buffered /\ pending = "none" /\ shown = 0
      /\ given = <<>> /\ ~ InRow /\ ~ RowUsed
  BY DEF drizzle_row_read, WireInStep, AtBoundary, CallsInOrder, GivenInOrder, ByField,
         Buffering, RowsTypeOK, InRow, RowBegun, RowUsed
<1>2. /\ row_count \in 0..Len(rows) /\ Len(rows) \in Nat /\ row_count \in Nat
      /\ row_current = row_count /\ wire = RestOf(row_count)
  BY <1>1 DEF RowsTypeOK, FieldsTypeOK, StreamTypeOK, Behind
<1> DEFINE p == Lead(row_count + 1) \o Rest(row_count + 1, 0)
<1>3. /\ wire \in Bytes /\ wire # <<>> /\ Head(wire).i \in Nat
      /\ row_count = Len(rows) => wire[2].what = ending
      /\ row_count # Len(rows) =>
           /\ wire[2].what \notin {"eof", "err"}
           /\ Tail(wire) = p \o RestOf(row_count + 1) /\ Head(wire).i = Len(p)
  BY <1>1, <1>2, RowAhead
<1> HIDE DEF p
<1>4. /\ at' = "row_done" /\ call' = call /\ rc' \in {"OK", "IO_WAIT", "LOST_CONNECTION", "ERROR_CODE"}
      /\ UNCHANGED serverVars
      /\ UNCHANGED rowVars
      /\ UNCHANGED listVars
      /\ UNCHANGED appVars
      /\ pending' = pending \/ (rc' = "IO_WAIT" /\ pending' = call)
      /\ UNCHANGED <<null_bitmap, null_bitcount, field_offset, field_size, field_total, field>>
  BY DEF drizzle_row_read, RowNotThere, ConnectionLost, RowEof, RowError, RowFound,
         RowReadSees, fieldVars
<1>5. \/ /\ rc' \in {"IO_WAIT", "LOST_CONNECTION"}
         /\ wire' = wire /\ packet_size' = packet_size
         /\ row_count' = row_count /\ row_current' = row_current
         /\ field_current' = field_current /\ field_current_read' = field_current_read
      \/ /\ rc' = "OK" /\ wire[2].what = "eof"
         /\ wire' = SubSeq(wire, 3, Len(wire)) /\ packet_size' = Head(wire).i
         /\ row_count' = row_count /\ row_current' = 0
         /\ field_current' = field_current /\ field_current_read' = field_current_read
      \/ /\ rc' = "ERROR_CODE"
         /\ wire' = SubSeq(wire, 3, Len(wire)) /\ packet_size' = 0
         /\ row_count' = row_count /\ row_current' = row_current
         /\ field_current' = field_current /\ field_current_read' = field_current_read
      \/ /\ rc' = "OK" /\ wire[2].what \notin {"eof", "err"}
         /\ wire' = Tail(wire) /\ packet_size' = Head(wire).i
         /\ row_count' = row_count + 1 /\ row_current' = row_current + 1
         /\ field_current' = 0 /\ field_current_read' = 0
  BY DEF drizzle_row_read, RowNotThere, ConnectionLost, RowEof, RowError, RowFound,
         RowReadSees, fieldVars, wireVars, cursorVars
<1>6. /\ rows' = rows /\ binary_rows' = binary_rows /\ ending' = ending
      /\ in_row' = in_row /\ over' = over /\ given' = given /\ part' = part
      /\ shown' = shown /\ skipped' = skipped /\ buffered' = buffered
      /\ row_list_size' = row_list_size /\ field_buffer' = field_buffer
      /\ field_sizes_list' = field_sizes_list /\ null_bitmap_list' = null_bitmap_list
      /\ null_bitcount' = null_bitcount /\ field_offset' = field_offset
      /\ field_size' = field_size /\ field_total' = field_total /\ field' = field
  BY <1>4 DEF serverVars, appVars, listVars, rowVars
<1>7. /\ row_current' = 0 \/ row_current' = row_count'
      /\ row_count' \in 0..Len(rows)
      /\ \/ row_count' = row_count /\ (rc' = "OK" => row_current' = 0)
         \/ /\ row_count' = row_count + 1 /\ rc' = "OK" /\ row_current' # 0
            /\ row_count # Len(rows)
            /\ wire' = p \o RestOf(row_count + 1) /\ packet_size' = Len(p)
            /\ field_current' = 0 /\ field_current_read' = 0
            /\ row_current' = row_count'
  <2>1. ending \in {"eof", "err"} /\ row_current \in Nat
    BY <1>1, <1>2 DEF StreamTypeOK
  <2>2. CASE wire[2].what \notin {"eof", "err"} /\ wire' = Tail(wire)
             /\ packet_size' = Head(wire).i /\ rc' = "OK"
             /\ row_count' = row_count + 1 /\ row_current' = row_current + 1
             /\ field_current' = 0 /\ field_current_read' = 0
    <3>1. row_count # Len(rows)
      BY <1>3, <2>1, <2>2
    <3>2. wire' = p \o RestOf(row_count + 1) /\ packet_size' = Len(p)
      BY <1>3, <2>2, <3>1
    <3>3. row_count' \in 0..Len(rows) /\ row_current' = row_count' /\ row_current' # 0
      BY <1>2, <2>2, <3>1
    <3> QED BY <2>2, <3>1, <3>2, <3>3
  <2>3. CASE row_count' = row_count /\ ((rc' # "OK" /\ row_current' = row_current)
                                         \/ row_current' = 0)
    BY <1>2, <2>3
  <2> QED BY <1>5, <2>2, <2>3
<1>8. wire' \in Bytes /\ packet_size' \in Nat
  <2> DEFINE w == wire
  <2>1. w \in Seq(Units) /\ w # <<>> /\ packet_size \in Nat
    BY <1>3 DEF Bytes, RowsTypeOK, FieldsTypeOK
  <2>2. SubSeq(w, 3, Len(w)) \in Seq(Units) /\ Tail(w) \in Seq(Units)
    <3> HIDE DEF w
    <3> QED BY <2>1
  <2>3. wire' \in {wire, SubSeq(wire, 3, Len(wire)), Tail(wire)}
        /\ packet_size' \in {packet_size, 0, Head(wire).i}
    BY <1>5
  <2>4. wire' \in Seq(Units)
    BY <2>1, <2>2, <2>3
  <2> QED BY <1>3, <2>1, <2>3, <2>4 DEF Bytes
<1>9. ~ RowUsed' /\ (InRow' <=> RowBegun') /\ (RowBegun' <=> row_count' = row_count + 1)
  BY <1>1, <1>2, <1>4, <1>6, <1>7 DEF RowUsed, InRow, RowBegun
<1>10. RowsTypeOK'
  <2>1. StreamTypeOK'
    BY <1>4, Frozen DEF RowsTypeOK
  <2>2. field_current' \in 0..Columns /\ field_current_read' \in 0..Columns
    BY <1>5, RowsAssumption DEF RowsTypeOK, FieldsTypeOK
  <2>3. FieldsTypeOK'
    BY <1>2, <1>6, <1>7, <1>8, <2>2 DEF RowsTypeOK, FieldsTypeOK
  <2>4. CallTypeOK'
    BY <1>1, <1>4, <1>6 DEF RowsTypeOK, CallTypeOK
  <2> QED BY <2>1, <2>3, <2>4 DEF RowsTypeOK
<1>11. CallsInOrder'
  BY <1>1, <1>4, <1>6 DEF CallsInOrder, ByField, Buffering
<1>12. WireInStep'
  <2>1. rc' = "IO_WAIT" => Behind'
    <3>1. SUFFICES ASSUME rc' = "IO_WAIT" PROVE Behind'
      OBVIOUS
    <3>2. wire' = wire /\ row_count' = row_count /\ row_current' = row_current
      BY <1>5, <3>1
    <3>3. RestOf(row_count)' = RestOf(row_count)
      BY <1>4, <3>2, Frozen
    <3> QED BY <1>2, <3>2, <3>3 DEF Behind
  <2>2. rc' = "OK" /\ row_current' = 0 => AllRows'
    <3>1. ASSUME rc' = "OK", row_current' = 0
          PROVE  row_count' = row_count /\ row_count = Len(rows) /\ ending = "eof"
      BY <1>2, <1>3, <1>5, <3>1
    <3> QED BY <1>6, <3>1 DEF AllRows
  <2>3. RowBegun' => Within'
    <3>1. SUFFICES ASSUME row_count' = row_count + 1
          PROVE  Within'
      BY <1>9
    <3>2. /\ wire' = p \o RestOf(row_count + 1) /\ packet_size' = Len(p)
          /\ field_current' = 0 /\ field_current_read' = 0
          /\ row_current' = row_count' /\ row_count' # 0
      BY <1>2, <1>7, <3>1
    <3>3. ReadUpTo' = 0 /\ Leading' = Lead(row_count + 1)
      BY <1>6, <3>1, <3>2 DEF ReadUpTo, Leading, BitmapAhead, Lead
    <3>4. /\ Rest(row_count, ReadUpTo)' = Rest(row_count + 1, 0)
          /\ RestOf(row_count)' = RestOf(row_count + 1)
      BY <1>4, <3>1, <3>3, Frozen
    <3>5. RowLeft' = p
      BY <3>3, <3>4 DEF RowLeft, p
    <3> QED BY <3>2, <3>4, <3>5 DEF Within
  <2> QED BY <1>1, <1>4, <1>6, <1>9, <2>1, <2>2, <2>3 DEF WireInStep, AtBoundary, RowUsed
<1>13. FieldsInOrder'
  <2>1. RowBegun' => field_current' = 0 /\ field_current_read' = 0
    BY <1>2, <1>7, <1>9
  <2>2. RowBegun' => Counted'
    <3>1. SUFFICES ASSUME RowBegun' PROVE Counted'
      OBVIOUS
    <3>2. ReadUpTo' = 0
      BY <2>1, <3>1 DEF ReadUpTo
    <3>3. Upto(row_count, ReadUpTo)' = 0
      <4>1. row_count' = row_count + 1
        BY <1>9, <3>1
      <4>2. Upto(row_count, ReadUpTo)' = Upto(row_count + 1, 0)
        BY <1>4, <3>2, <4>1, Frozen
      <4> QED BY <4>2, UptoIs
    <3> QED BY <2>1, <3>1, <3>2, <3>3 DEF Counted
  <2> QED BY <1>4, <1>6, <1>9, <2>1, <2>2 DEF FieldsInOrder
<1>14. GivenInOrder'
  BY <1>1, <1>6 DEF GivenInOrder
<1>15. RowInPlace'
  BY <1>4 DEF RowInPlace
<1>16. ListsInOrder'
  <2>1. \A r : Stores(r)' = Stores(r)
    BY <1>4, SameCopies DEF listVars
  <2>2. Listed = row_count /\ Listed' = row_count
    <3>1. row_count' = row_count \/ row_count' = row_count + 1
      BY <1>7
    <3>2. InRow' <=> row_count' = row_count + 1
      BY <1>9
    <3>3. Listed' = row_count
      BY <1>2, <3>1, <3>2 DEF Listed
    <3> QED BY <1>1, <3>3 DEF Listed
  <2>3. Listing' => Listing
    BY <1>1, <1>4, <1>6 DEF Listing
  <2>4. shown' <= row_count'
    BY <1>1, <1>2, <1>6, <1>7
  <2> QED BY <1>6, <2>1, <2>2, <2>3, <2>4 DEF ListsInOrder
<1>17. ShownAsSent'
  BY <1>1, <1>6, <1>10 DEF ShownAsSent, RowsTypeOK, CallTypeOK
<1> QED BY <1>10, <1>11, <1>12, <1>13, <1>14, <1>15, <1>16, <1>17

----------------------------------------------------------------------------
(* drizzle_field_read.                                                     *)

(* What is there once the NULL bitmap has been read.                       *)
LEMMA BitmapRead ==
  ASSUME RowsInvariant, RowsFit, at = "field"
  PROVE  LET r == row_count
         IN  /\ r \in 1..Len(rows) /\ row_current = r
             /\ Counted /\ ReadUpTo \in 0..Columns
             /\ AfterBitmap = Rest(r, ReadUpTo) \o RestOf(r)
             /\ SizeAfterBitmap = Len(Rest(r, ReadUpTo))
             /\ Rest(r, ReadUpTo) \in Bytes /\ RestOf(r) \in Bytes
             /\ binary_rows => Bitmap = Nulls(r) /\ BitCount = Cardinality(Nulls(r))
             /\ ~ binary_rows => /\ BitCount = 0 /\ ReadUpTo = field_current
                                 /\ AfterBitmap = wire /\ SizeAfterBitmap = packet_size
             /\ FieldsLeft = Cardinality(Stored(r)) - field_current
<1> USE DEF RowsInvariant
<1> DEFINE r == row_count
           R == Rest(r, ReadUpTo)
           Q == RestOf(r)
<1>1. InRow /\ ~ RowUsed
  BY DEF InRow, RowUsed
<1>2. Within /\ Counted
  BY <1>1 DEF WireInStep, FieldsInOrder
<1>3. r \in 1..Len(rows) /\ row_current = r /\ StreamTypeOK /\ r \in 0..Len(rows)
  BY <1>2 DEF Within, RowsTypeOK, FieldsTypeOK, StreamTypeOK
<1>4. Stored(r) \subseteq Cols /\ Columns \in Nat
  BY <1>3, StoredIs, RowsAssumption
<1>5. ReadUpTo \in 0..Columns
  BY <1>2, <1>4 DEF Counted, Cols
<1>6. R \in Seq(Units) /\ Q \in Seq(Units)
  BY <1>3, <1>5, RestNext, RestOfIs DEF Bytes
<1>7. wire = (Leading \o R) \o Q /\ packet_size = Len(Leading \o R)
  BY <1>2 DEF Within, RowLeft
<1>8. AfterBitmap = R \o Q /\ SizeAfterBitmap = Len(R)
      /\ (BitmapAhead => Head(wire).row = r)
  <2>1. CASE BitmapAhead
    <3> DEFINE u == Unit("bitmap", row_count, 0, 0)
    <3>1. Leading = <<u>> /\ u \in Units /\ u.row = r
      BY <1>3, <2>1 DEF Leading, Unit, Units, StreamTypeOK
    <3> HIDE DEF u, R, Q, r
    <3>2. <<u>> \in Seq(Units)
      BY <3>1
    <3>3. (<<u>> \o R) \o Q = <<u>> \o (R \o Q) /\ R \o Q \in Seq(Units)
      BY <1>6, <3>2, Regroup
    <3>4. wire = <<u>> \o (R \o Q) /\ packet_size = Len(<<u>> \o R)
      BY <1>7, <3>1, <3>3
    <3> DEFINE w == R \o Q
    <3>5. w \in Seq(Units) /\ wire = <<u>> \o w
      BY <3>3, <3>4
    <3> HIDE DEF w
    <3>6. Head(wire) = u /\ Tail(wire) = w
      BY <3>1, <3>5, OneFirst
    <3>7. packet_size = 1 + Len(R) /\ Len(R) \in Nat
      BY <1>6, <3>1, <3>4, OneFirst
    <3> QED BY <2>1, <3>1, <3>6, <3>7 DEF AfterBitmap, SizeAfterBitmap, w
  <2>2. CASE ~ BitmapAhead
    <3>1. Leading = <<>>
      BY <2>2 DEF Leading
    <3> HIDE DEF R, Q
    <3>2. <<>> \o R = R /\ Len(R) \in Nat
      BY <1>6, ConcatEmptySeq
    <3> QED BY <1>7, <2>2, <3>1, <3>2 DEF AfterBitmap, SizeAfterBitmap
  <2> QED BY <2>1, <2>2
<1>9. binary_rows => Bitmap = Nulls(r) /\ BitCount = Cardinality(Nulls(r))
  <2>1. CASE BitmapAhead
    BY <1>8, <2>1 DEF Bitmap, BitCount
  <2>2. CASE binary_rows /\ ~ BitmapAhead
    <3>1. BitmapKept
      BY <1>1, <2>2 DEF FieldsInOrder, BitmapAhead
    <3> QED BY <2>2, <3>1 DEF BitmapKept, Bitmap, BitCount
  <2> QED BY <2>1, <2>2
<1>10. ~ binary_rows => /\ BitCount = 0 /\ ReadUpTo = field_current
                        /\ AfterBitmap = wire /\ SizeAfterBitmap = packet_size
  BY DEF FieldsInOrder, BitCount, BitmapAhead, ReadUpTo, AfterBitmap, SizeAfterBitmap,
         RowsTypeOK, FieldsTypeOK
<1>11. FieldsLeft = Cardinality(Stored(r)) - field_current
  <2>1. CASE binary_rows
    BY <1>3, <1>9, <2>1, StoredIs DEF FieldsLeft
  <2>2. CASE ~ binary_rows
    <3>1. Cardinality(Stored(r)) = Columns
      BY <1>3, <2>2, StoredIs
    <3> QED BY <1>4, <1>10, <2>2, <3>1 DEF FieldsLeft, RowsTypeOK, FieldsTypeOK
  <2> QED BY <2>1, <2>2
<1> QED BY <1>2, <1>3, <1>5, <1>6, <1>8, <1>9, <1>10, <1>11 DEF Bytes

(* What is in front once it is column d's turn.                            *)
LEMMA ColumnAhead ==
  ASSUME RowsInvariant, RowsFit, at = "field", NEW d \in Stored(row_count),
         ReadUpTo < d, \A e \in Stored(row_count) : ~ (ReadUpTo < e /\ e < d)
  PROVE  LET v == Value(row_count, d)
             R == Rest(row_count, d)
             w == R \o RestOf(row_count)
         IN  /\ w \in Bytes /\ R \in Bytes
             /\ rows[row_count][d] = Null =>
                  /\ v = Null /\ ~ binary_rows
                  /\ \E u \in Units : /\ u.what = "null" /\ u.i = 0
                                      /\ AfterBitmap = <<u>> \o w
                  /\ SizeAfterBitmap = 1 + Len(R)
             /\ rows[row_count][d] # Null =>
                  /\ v \in Bytes /\ v # Null /\ Len(v) = rows[row_count][d]
                  /\ binary_rows /\ d \in FixedColumns =>
                       /\ AfterBitmap = v \o w
                       /\ SizeAfterBitmap = Len(v) + Len(R)
                       /\ Len(v) = FixedSize
                  /\ ~ (binary_rows /\ d \in FixedColumns) =>
                       /\ \E u \in Units : /\ u.what = "length" /\ u.i = Len(v)
                                           /\ AfterBitmap = <<u>> \o (v \o w)
                       /\ SizeAfterBitmap = 1 + Len(v) + Len(R)
<1> DEFINE r == row_count
           v == Value(r, d)
           R == Rest(r, d)
           Q == RestOf(r)
           E == Encoded(rows, binary_rows, r, d)
<1>0. \A a, b, c \in Seq(Units) :
         (a \o b) \o c = a \o (b \o c) /\ a \o b \in Seq(Units) /\ b \o c \in Seq(Units)
  BY Regroups, Zenon
<1>1. /\ r \in 1..Len(rows) /\ ReadUpTo \in 0..Columns
      /\ AfterBitmap = Rest(r, ReadUpTo) \o Q
      /\ SizeAfterBitmap = Len(Rest(r, ReadUpTo)) /\ Q \in Seq(Units)
      /\ StreamTypeOK
  BY BitmapRead DEF RowsInvariant, RowsTypeOK, Bytes
<1>2. d \in Cols /\ d \in 0..Columns
  BY <1>1, RowsAssumption DEF Stored, Cols
<1>3. Rest(r, ReadUpTo) = E \o R /\ R \in Seq(Units)
  BY <1>1, <1>2, RestNext DEF Bytes
<1>4. /\ E \in Seq(Units)
      /\ rows[r][d] = Null => E = <<Unit("null", r, d, 0)>>
      /\ rows[r][d] # Null => E = IF binary_rows /\ d \in FixedColumns THEN v
                                  ELSE <<Unit("length", r, d, rows[r][d])>> \o v
  BY <1>1, <1>2, EncodedIs DEF Bytes
<1>5. /\ rows[r][d] = Null => v = Null /\ ~ binary_rows
      /\ rows[r][d] # Null => v \in Seq(Units) /\ v # Null /\ Len(v) = rows[r][d]
      /\ rows[r][d] # Null => rows[r][d] \in Nat
      /\ binary_rows /\ d \in FixedColumns /\ rows[r][d] # Null => rows[r][d] = FixedSize
  BY <1>1, <1>2, RowValues DEF Bytes, Stored
<1> DEFINE w == R \o Q
<1> HIDE DEF v, R, Q, E
<1>6. w \in Seq(Units) /\ AfterBitmap = E \o w /\ SizeAfterBitmap = Len(E) + Len(R)
      /\ Len(R) \in Nat
  <2>1. (E \o R) \o Q = E \o (R \o Q) /\ R \o Q \in Seq(Units)
    BY <1>0, <1>1, <1>3, <1>4, Zenon
  <2>2. Len(E \o R) = Len(E) + Len(R)
    BY <1>3, <1>4
  <2> QED BY <1>1, <1>3, <2>1, <2>2
<1> HIDE DEF w
<1>7. CASE rows[r][d] = Null
  <2> DEFINE u == Unit("null", r, d, 0)
  <2>1. u \in Units /\ u.what = "null" /\ u.i = 0
    BY <1>1, <1>2 DEF Unit, Units, Cols, StreamTypeOK
  <2>2. E = <<u>>
    BY <1>4, <1>7
  <2> HIDE DEF u
  <2>3. AfterBitmap = <<u>> \o w /\ SizeAfterBitmap = 1 + Len(R)
    BY <1>6, <2>2
  <2> QED BY <1>3, <1>5, <1>6, <1>7, <2>1, <2>3 DEF Bytes, v, R, w, Q
<1>8. CASE rows[r][d] # Null /\ binary_rows /\ d \in FixedColumns
  <2>1. E = v
    BY <1>4, <1>8
  <2>2. AfterBitmap = v \o w /\ SizeAfterBitmap = Len(v) + Len(R) /\ Len(v) = FixedSize
    BY <1>5, <1>6, <1>8, <2>1
  <2> QED BY <1>3, <1>5, <1>6, <1>8, <2>2 DEF Bytes, v, R, w, Q
<1>9. CASE rows[r][d] # Null /\ ~ (binary_rows /\ d \in FixedColumns)
  <2> DEFINE u == Unit("length", r, d, rows[r][d])
  <2>1. u \in Units /\ u.what = "length" /\ u.i = Len(v)
    BY <1>1, <1>2, <1>5, <1>9 DEF Unit, Units, Cols, StreamTypeOK
  <2>2. E = <<u>> \o v /\ v \in Seq(Units)
    BY <1>4, <1>5, <1>9
  <2> HIDE DEF u
  <2>3. <<u>> \in Seq(Units)
    BY <2>1
  <2>4. (<<u>> \o v) \o w = <<u>> \o (v \o w)
    BY <1>0, <1>6, <2>2, <2>3, Zenon
  <2>5. AfterBitmap = <<u>> \o (v \o w)
    BY <1>6, <2>2, <2>4
  <2>6. Len(<<u>> \o v) = 1 + Len(v)
    BY <2>1, <2>2, OneFirst
  <2>7. SizeAfterBitmap = 1 + Len(v) + Len(R)
    BY <1>6, <2>2, <2>6
  <2> QED BY <1>3, <1>5, <1>6, <1>9, <2>1, <2>5, <2>7 DEF Bytes, v, R, w, Q
<1> QED BY <1>7, <1>8, <1>9

(* What drizzle_field_read has done when it returns the value of column d. *)
Took(d) ==
  /\ wire' = Rest(row_count, d) \o RestOf(row_count)
  /\ packet_size' = Len(Rest(row_count, d))
  /\ field' = Value(row_count, d)
  /\ field_total' = SizeOf(row_count, d) /\ field_size' = field_total'
  /\ field_offset' = 0 /\ field_current' = field_current + 1
  /\ IF binary_rows THEN field_current_read' = d
     ELSE field_current_read' = field_current_read /\ d = field_current + 1

LEMMA TextFieldTook ==
  ASSUME RowsInvariant, RowsFit, at = "field", NEW d \in Stored(row_count),
         ReadUpTo < d, \A e \in Stored(row_count) : ~ (ReadUpTo < e /\ e < d),
         Upto(row_count, d) = field_current + 1, ~ binary_rows, TextField
  PROVE  Took(d)
<1> DEFINE r == row_count
           v == Value(r, d)
           R == Rest(r, d)
           w == R \o RestOf(r)
<1>1. /\ r \in 1..Len(rows) /\ AfterBitmap = wire /\ SizeAfterBitmap = packet_size
      /\ StreamTypeOK
  BY BitmapRead DEF RowsInvariant, RowsTypeOK
<1>2. d = field_current + 1 /\ d \in 0..Columns
  <2>1. d \in Cols
    BY DEF Stored
  <2>2. d \in 0..Columns /\ Columns \in Nat
    BY <2>1, RowsAssumption DEF Cols
  <2>3. Upto(r, d) = d
    BY <1>1, <2>2, StoredIs
  <2> QED BY <2>2, <2>3
<1>3. field_offset = 0 /\ field_size = field_total /\ field_total \in Nat
      /\ field_current \in Nat
  BY DEF RowsInvariant, FieldsInOrder, RowsTypeOK, FieldsTypeOK
<1>4. /\ w \in Seq(Units) /\ R \in Seq(Units)
      /\ rows[r][d] = Null =>
           /\ v = Null
           /\ \E u \in Units : u.what = "null" /\ u.i = 0 /\ wire = <<u>> \o w
           /\ packet_size = 1 + Len(R)
      /\ rows[r][d] # Null =>
           /\ v \in Seq(Units) /\ v # Null /\ Len(v) = rows[r][d]
           /\ \E u \in Units : u.what = "length" /\ u.i = Len(v) /\ wire = <<u>> \o (v \o w)
           /\ packet_size = 1 + Len(v) + Len(R)
  BY <1>1, ColumnAhead DEF Bytes
<1> DEFINE total == Head(wire).i
           bytes == Tail(wire)
           left == packet_size - 1
           size == Smaller(total - 0, left)
<1>5. /\ field_offset' = 0 /\ field_size' = size /\ field_total' = total
      /\ field' = IF Head(wire).what = "null" THEN Null ELSE SubSeq(bytes, 1, size)
      /\ wire' = SubSeq(bytes, size + 1, Len(bytes))
      /\ packet_size' = left - size
      /\ 0 + size = total => field_current' = field_current + 1
      /\ field_current_read' = field_current_read
  BY <1>3 DEF TextField
<1> HIDE DEF v, R, w, total, bytes, left, size
<1>6. Len(R) \in Nat
  BY <1>4
<1>7. CASE rows[r][d] = Null
  <2>1. PICK u \in Units : u.what = "null" /\ u.i = 0 /\ wire = <<u>> \o w
    BY <1>4, <1>7
  <2>2. Head(wire) = u /\ Tail(wire) = w
    BY <1>4, <2>1, OneFirst
  <2>3. total = 0 /\ bytes = w /\ left = Len(R) /\ Head(wire).what = "null"
    BY <1>4, <1>6, <1>7, <2>1, <2>2 DEF total, bytes, left
  <2>4. size = 0
    BY <1>6, <2>3 DEF size, Smaller
  <2>5. SubSeq(w, 1, Len(w)) = w
    BY <1>4
  <2>6. /\ wire' = w /\ packet_size' = Len(R) /\ field' = Null /\ field_total' = 0
        /\ field_size' = 0 /\ field_current' = field_current + 1
    BY <1>5, <1>6, <2>3, <2>4, <2>5
  <2>7. v = Null /\ SizeOf(r, d) = 0
    BY <1>4, <1>7 DEF SizeOf
  <2> QED BY <1>2, <1>5, <2>6, <2>7 DEF Took, v, R, w
<1>8. CASE rows[r][d] # Null
  <2>1. PICK u \in Units : u.what = "length" /\ u.i = Len(v) /\ wire = <<u>> \o (v \o w)
    BY <1>4, <1>8
  <2> DEFINE x == v \o w
  <2>2. x \in Seq(Units) /\ v \in Seq(Units) /\ Len(v) \in Nat
    BY <1>4, <1>8, ConcatProperties
  <2>3. Head(wire) = u /\ Tail(wire) = x
    <3>1. wire = <<u>> \o x
      BY <2>1
    <3> HIDE DEF x
    <3> QED BY <2>2, <3>1, OneFirst
  <2>4. total = Len(v) /\ bytes = x /\ left = Len(v) + Len(R) /\ Head(wire).what # "null"
    <3>1. packet_size = 1 + Len(v) + Len(R)
      BY <1>4, <1>8
    <3> HIDE DEF x
    <3>2. left = Len(v) + Len(R)
      BY <1>6, <2>2, <3>1 DEF left
    <3>3. total = Len(v) /\ bytes = x /\ Head(wire).what # "null"
      BY <2>1, <2>3 DEF total, bytes
    <3> QED BY <3>2, <3>3
  <2>5. size = Len(v)
    BY <1>6, <2>2, <2>4 DEF size, Smaller
  <2>6. SubSeq(x, 1, Len(v)) = v /\ SubSeq(x, Len(v) + 1, Len(x)) = w
    BY <1>4, <2>2, Cut
  <2> HIDE DEF x
  <2>7. /\ wire' = w /\ packet_size' = Len(R) /\ field' = v /\ field_total' = Len(v)
        /\ field_size' = Len(v) /\ field_current' = field_current + 1
    BY <1>5, <1>6, <2>2, <2>4, <2>5, <2>6
  <2>8. SizeOf(r, d) = Len(v)
    BY <1>4, <1>8 DEF SizeOf
  <2> QED BY <1>2, <1>5, <2>7, <2>8 DEF Took, v, R, w
<1> QED BY <1>7, <1>8

LEMMA BinaryFieldTook ==
  ASSUME RowsInvariant, RowsFit, at = "field", NEW d \in Stored(row_count),
         ReadUpTo < d, \A e \in Stored(row_count) : ~ (ReadUpTo < e /\ e < d),
         binary_rows, BinaryField
  PROVE  Took(d)
<1> DEFINE r == row_count
           v == Value(r, d)
           R == Rest(r, d)
           w == R \o RestOf(r)
<1>1. /\ r \in 1..Len(rows) /\ Bitmap = Nulls(r) /\ StreamTypeOK /\ ReadUpTo \in 0..Columns
  BY BitmapRead DEF RowsInvariant, RowsTypeOK
<1>2. Stored(r) = Cols \ Bitmap /\ rows[r][d] # Null
  BY <1>1, StoredIs DEF Stored
<1>3. NextRead = d
  <2>1. ReadUpTo = field_current_read
    BY DEF ReadUpTo
  <2> DEFINE Is(c) == /\ c \notin Bitmap
                      /\ \A x \in field_current_read + 1..c - 1 : x \in Bitmap
             S == field_current_read + 1..Columns
  <2>2. d \in S /\ Columns \in Nat
    BY <1>1, <1>2, <2>1, RowsAssumption DEF Cols
  <2>3. Is(d)
    <3>1. ASSUME NEW x \in field_current_read + 1..d - 1 PROVE x \in Bitmap
      <4>1. x \in Cols /\ ReadUpTo < x /\ x < d
        BY <1>1, <2>1, <2>2 DEF Cols
      <4> QED BY <1>2, <4>1
    <3> QED BY <1>2, <3>1
  <2>4. \A c \in S : Is(c) => c = d
    <3> SUFFICES ASSUME NEW c \in S, Is(c), c # d PROVE FALSE
      OBVIOUS
    <3>1. CASE c < d
      <4>1. c \in Stored(r) /\ ReadUpTo < c
        BY <1>1, <1>2, <2>1, <2>2 DEF Cols
      <4> QED BY <3>1, <4>1
    <3>2. CASE d < c
      <4>1. d \in field_current_read + 1..c - 1
        BY <1>1, <2>1, <2>2, <3>2
      <4>2. d \in Bitmap
        BY <4>1
      <4> QED BY <1>2, <4>2
    <3> QED BY <1>1, <2>1, <2>2, <3>1, <3>2
  <2> HIDE DEF Is, S
  <2>5. (CHOOSE c \in S : Is(c)) = d
    BY <2>2, <2>3, <2>4
  <2> QED BY <2>5 DEF NextRead, Is, S
<1>4. /\ w \in Seq(Units) /\ R \in Seq(Units)
      /\ v \in Seq(Units) /\ v # Null /\ Len(v) = rows[r][d]
      /\ d \in FixedColumns => /\ AfterBitmap = v \o w
                               /\ SizeAfterBitmap = Len(v) + Len(R)
                               /\ Len(v) = FixedSize
      /\ d \notin FixedColumns =>
           /\ \E u \in Units : u.what = "length" /\ u.i = Len(v)
                               /\ AfterBitmap = <<u>> \o (v \o w)
           /\ SizeAfterBitmap = 1 + Len(v) + Len(R)
  BY <1>2, ColumnAhead DEF Bytes
<1>5. field_offset = 0 /\ field_current \in Nat
  BY DEF RowsInvariant, FieldsInOrder, RowsTypeOK, FieldsTypeOK
<1> DEFINE size == IF d \in FixedColumns THEN FixedSize ELSE Head(AfterBitmap).i
           bytes == IF d \in FixedColumns THEN AfterBitmap ELSE Tail(AfterBitmap)
<1>6. /\ field_size' = size /\ field_total' = size
      /\ field' = SubSeq(bytes, 1, size)
      /\ wire' = SubSeq(bytes, size + 1, Len(bytes))
      /\ packet_size' = SizeAfterBitmap - size - (IF d \in FixedColumns THEN 0 ELSE 1)
      /\ field_current' = field_current + 1
      /\ field_current_read' = d
      /\ field_offset' = 0
  BY <1>3, <1>5 DEF BinaryField
<1> HIDE DEF v, R, w
<1> DEFINE x == v \o w
<1>7. x \in Seq(Units) /\ Len(v) \in Nat /\ Len(R) \in Nat
  BY <1>4, ConcatProperties
<1>8. SubSeq(x, 1, Len(v)) = v /\ SubSeq(x, Len(v) + 1, Len(x)) = w
  BY <1>4, Cut
<1>9. /\ size = Len(v) /\ bytes = x
      /\ SizeAfterBitmap - size - (IF d \in FixedColumns THEN 0 ELSE 1) = Len(R)
  <2>1. CASE d \in FixedColumns
    <3>1. size = Len(v) /\ bytes = x
      BY <1>4, <2>1
    <3> HIDE DEF x, size, bytes
    <3> QED BY <1>4, <1>7, <2>1, <3>1
  <2>2. CASE d \notin FixedColumns
    <3>1. PICK u \in Units : u.what = "length" /\ u.i = Len(v)
                             /\ AfterBitmap = <<u>> \o x
      BY <1>4, <2>2
    <3>2. Head(AfterBitmap) = u /\ Tail(AfterBitmap) = x
      <4> HIDE DEF x
      <4> QED BY <1>7, <3>1, OneFirst
    <3>3. size = Len(v) /\ bytes = x
      <4> HIDE DEF x
      <4> QED BY <2>2, <3>1, <3>2
    <3> HIDE DEF x, size, bytes
    <3> QED BY <1>4, <1>7, <2>2, <3>3
  <2> QED BY <2>1, <2>2
<1> HIDE DEF x, size, bytes
<1>10. /\ wire' = w /\ packet_size' = Len(R) /\ field' = v /\ field_total' = Len(v)
       /\ field_size' = Len(v)
  BY <1>6, <1>8, <1>9
<1>11. SizeOf(r, d) = Len(v)
  BY <1>2, <1>4 DEF SizeOf
<1> QED BY <1>6, <1>10, <1>11 DEF Took, v, R, w

LEMMA FieldReadKeeps ==
  ASSUME RowsInvariant, RowsFit, drizzle_field_read
  PROVE  RowsInvariant'
<1> USE DEF RowsInvariant
<1> DEFINE r == row_count
           n == Cardinality(Stored(r))
<1>1. at = "field"
  BY DEF drizzle_field_read
<1>2. /\ r \in 1..Len(rows) /\ row_current = r
      /\ Counted /\ ReadUpTo \in 0..Columns
      /\ AfterBitmap = Rest(r, ReadUpTo) \o RestOf(r)
      /\ SizeAfterBitmap = Len(Rest(r, ReadUpTo))
      /\ RestOf(r) \in Bytes
      /\ binary_rows => Bitmap = Nulls(r) /\ BitCount = Cardinality(Nulls(r))
      /\ ~ binary_rows => BitCount = 0
      /\ FieldsLeft = n - field_current
  BY <1>1, BitmapRead
<1>3. /\ at' = "field_done" /\ rc' \in {"OK", "ROW_END"}
      /\ call' = call /\ pending' = pending
      /\ UNCHANGED serverVars
      /\ UNCHANGED cursorVars
      /\ UNCHANGED rowVars
      /\ UNCHANGED listVars
      /\ UNCHANGED appVars
      /\ null_bitmap' = Bitmap /\ null_bitcount' = BitCount
  BY DEF drizzle_field_read
<1>4. /\ ~ over /\ ~ buffered /\ pending = "none" /\ shown = 0
      /\ ByField \/ Buffering
      /\ (ByField <=> in_row) /\ InRow /\ ~ RowUsed /\ ~ RowBegun
  BY <1>1 DEF CallsInOrder, ByField, Buffering, InRow, RowUsed, RowBegun
<1>5. n \in 0..Columns /\ Columns \in Nat /\ field_current \in Nat /\ field_total \in Nat
      /\ StreamTypeOK /\ field_current = Upto(r, ReadUpTo)
  BY <1>2, UptoIs, RowsAssumption DEF RowsTypeOK, FieldsTypeOK, Counted
<1> HIDE DEF n
<1>6. \/ /\ rc' = "ROW_END" /\ field_current = n
         /\ wire' = RestOf(r) /\ packet_size' = 0
         /\ field_current' = field_current /\ field_current_read' = field_current_read
         /\ field_offset' = field_offset /\ field_size' = field_size
         /\ field_total' = field_total /\ field' = field
      \/ /\ rc' = "OK" /\ field_current # n
         /\ \E d \in Stored(r) : Took(d) /\ Upto(r, d) = field_current + 1
  <2>1. CASE FieldsLeft = 0
    <3>1. /\ rc' = "ROW_END" /\ wire' = AfterBitmap /\ packet_size' = SizeAfterBitmap
          /\ UNCHANGED <<field_current, field_current_read, field_offset,
                         field_size, field_total, field>>
      BY <2>1 DEF drizzle_field_read
    <3>2. field_current = n
      BY <1>2, <1>5, <2>1
    <3>3. \A e \in Stored(r) : ~ (ReadUpTo < e)
      <4>1. Columns \in ReadUpTo..Columns
        BY <1>2, <1>5
      <4>2. Upto(r, ReadUpTo) = Upto(r, Columns)
        BY <1>5, <3>2, UptoIs DEF n
      <4>3. ~ (\E e \in Stored(r) : ReadUpTo < e /\ e <= Columns)
        <5>1. Upto(r, ReadUpTo) \in Nat /\ Upto(r, Columns) \in Nat
          BY UptoIs
        <5> QED BY <1>2, <4>1, <4>2, <5>1, UptoGrows
      <4>4. \A e \in Stored(r) : e <= Columns
        BY <1>5 DEF Stored, Cols
      <4> QED BY <4>3, <4>4
    <3>4. Rest(r, ReadUpTo) = <<>>
      BY <1>2, <1>5, <3>3, RestNext
    <3>5. AfterBitmap = RestOf(r) /\ SizeAfterBitmap = 0
      BY <1>2, <3>4, ConcatEmptySeq DEF Bytes
    <3> QED BY <3>1, <3>2, <3>5
  <2>2. CASE FieldsLeft # 0
    <3>1. rc' = "OK" /\ ((~ binary_rows /\ TextField) \/ (binary_rows /\ BinaryField))
      BY <2>2 DEF drizzle_field_read
    <3>2. field_current # n
      BY <1>2, <1>5, <2>2
    <3>3. PICK d \in Stored(r) : /\ ReadUpTo < d
                                 /\ \A e \in Stored(r) : ~ (ReadUpTo < e /\ e < d)
                                 /\ Upto(r, d) = Upto(r, ReadUpTo) + 1
      BY <1>2, <1>5, <3>2, NextStored DEF n
    <3>4. Upto(r, d) = field_current + 1
      BY <1>5, <3>3
    <3>5. Took(d)
      <4>1. CASE ~ binary_rows
        BY <1>1, <3>1, <3>3, <3>4, <4>1, TextFieldTook
      <4>2. CASE binary_rows
        BY <1>1, <3>1, <3>3, <4>2, BinaryFieldTook
      <4> QED BY <4>1, <4>2
    <3> QED BY <3>1, <3>2, <3>4, <3>5
  <2> QED BY <2>1, <2>2
<1>7. /\ rows' = rows /\ binary_rows' = binary_rows /\ ending' = ending
      /\ row_count' = row_count /\ row_current' = row_current
      /\ row' = row /\ field_sizes' = field_sizes /\ field_buffer' = field_buffer
      /\ in_row' = in_row /\ over' = over /\ given' = given /\ part' = part
      /\ shown' = shown /\ skipped' = skipped /\ buffered' = buffered
      /\ row_list_size' = row_list_size
      /\ field_sizes_list' = field_sizes_list /\ null_bitmap_list' = null_bitmap_list
  BY <1>3 DEF serverVars, cursorVars, rowVars, listVars, appVars
<1>8. /\ \A k : Nth(row_count, k)' = Nth(row_count, k)
      /\ \A c : /\ Rest(row_count, c)' = Rest(row_count, c)
                /\ Upto(row_count, c)' = Upto(row_count, c)
                /\ Value(row_count, c)' = Value(row_count, c)
                /\ SizeOf(row_count, c)' = SizeOf(row_count, c)
      /\ RestOf(row_count)' = RestOf(row_count)
      /\ Stored(row_count)' = Stored(row_count)
      /\ Nulls(row_count)' = Nulls(row_count)
  BY <1>3, <1>7, Frozen
<1>9. Cardinality(Stored(row_count))' = n
  BY <1>8 DEF n
<1>10. BitmapKept' /\ (~ binary_rows' => null_bitcount' = 0)
  <2>1. Cardinality(Nulls(row_count))' = Cardinality(Nulls(row_count))
    BY <1>8
  <2> QED BY <1>2, <1>3, <1>7, <1>8, <2>1 DEF BitmapKept
<1>11. /\ field_offset' = 0 /\ field_size' = field_total' /\ part' = <<>>
       /\ field_total' \in Nat /\ field' \in Bytes \cup {Null}
       /\ field_current' \in 0..Columns /\ field_current_read' \in 0..Columns
       /\ wire' \in Bytes /\ packet_size' \in Nat
  <2>1. CASE rc' = "ROW_END"
    BY <1>2, <1>6, <1>7, <2>1 DEF FieldsInOrder, RowsTypeOK, FieldsTypeOK
  <2>2. CASE rc' = "OK"
    <3>1. PICK d \in Stored(r) : Took(d) /\ Upto(r, d) = field_current + 1
      BY <1>6, <2>2
    <3>2. d \in Cols /\ d \in 0..Columns
      BY <1>5 DEF Stored, Cols
    <3>3. Upto(r, d) \in 1..n
      BY <3>1, DeliveredIs DEF n
    <3>4. field_current' \in 0..Columns
      BY <1>5, <3>1, <3>3 DEF Took
    <3>5. field_current_read' \in 0..Columns
      BY <3>1, <3>2 DEF Took, RowsTypeOK, FieldsTypeOK
    <3>6. SizeOf(r, d) \in Nat /\ Value(r, d) \in Bytes \cup {Null}
      BY <1>2, <1>5, <3>2, RowValues DEF SizeOf
    <3>7. Rest(r, d) \in Seq(Units) /\ RestOf(r) \in Seq(Units)
      BY <1>2, <1>5, <3>2, RestNext DEF Bytes
    <3>8. wire' \in Bytes /\ packet_size' \in Nat
      BY <3>1, <3>7, ConcatProperties DEF Took, Bytes
    <3> QED BY <1>7, <3>1, <3>4, <3>5, <3>6, <3>8 DEF Took, FieldsInOrder
  <2> QED BY <1>3, <2>1, <2>2
<1>12. /\ rc' = "OK" => Within' /\ Counted' /\ AtHand'
       /\ rc' = "ROW_END" => Behind' /\ Counted' /\ packet_size' = 0
  <2>1. ASSUME rc' = "OK"
        PROVE  Within' /\ Counted' /\ AtHand'
    <3>1. PICK d \in Stored(r) : Took(d) /\ Upto(r, d) = field_current + 1
      BY <1>6, <2>1
    <3>2. ReadUpTo' = d
      BY <1>7, <3>1 DEF Took, ReadUpTo
    <3>3. field_current' # 0 /\ ~ BitmapAhead' /\ Leading' = <<>>
      BY <1>5, <3>1 DEF Took, BitmapAhead, Leading
    <3>4. Rest(row_count, ReadUpTo)' = Rest(r, d)
      BY <1>3, <1>7, <3>2, Frozen
    <3>5. Rest(r, d) \in Seq(Units)
      <4>1. d \in 0..Columns
        BY <1>5 DEF Stored, Cols
      <4> QED BY <1>2, <1>5, <4>1, RestNext DEF Bytes
    <3>6. RowLeft' = Rest(r, d)
      BY <3>3, <3>4, <3>5, ConcatEmptySeq DEF RowLeft
    <3>7. Within'
      BY <1>2, <1>7, <1>8, <3>1, <3>6 DEF Within, Took
    <3>8. Upto(row_count, ReadUpTo)' = Upto(r, d)
      BY <1>3, <1>7, <3>2, Frozen
    <3>9. Counted'
      BY <1>8, <3>1, <3>2, <3>8 DEF Counted, Took
    <3>10. Value(row_count, ReadUpTo)' = Value(r, d)
           /\ SizeOf(row_count, ReadUpTo)' = SizeOf(r, d)
      BY <1>3, <1>7, <3>2, Frozen
    <3>11. AtHand'
      BY <3>1, <3>3, <3>10 DEF AtHand, Took
    <3> QED BY <3>7, <3>9, <3>11
  <2>2. ASSUME rc' = "ROW_END"
        PROVE  Behind' /\ Counted' /\ packet_size' = 0
    <3>1. /\ wire' = RestOf(r) /\ packet_size' = 0 /\ field_current' = field_current
          /\ field_current_read' = field_current_read
      BY <1>6, <2>2
    <3>2. ReadUpTo' = ReadUpTo
      BY <1>7, <3>1 DEF ReadUpTo
    <3>3. Upto(row_count, ReadUpTo)' = Upto(row_count, ReadUpTo)
      BY <1>3, <1>7, <3>2, Frozen
    <3> QED BY <1>2, <1>7, <1>8, <3>1, <3>2, <3>3 DEF Behind, Counted
  <2> QED BY <2>1, <2>2
<1>13. /\ InRow' /\ ~ RowBegun' /\ (RowUsed' <=> rc' = "ROW_END")
       /\ Done' = field_current /\ Done = field_current
  <2>1. rc' = "OK" => field_current' = field_current + 1
    BY <1>6 DEF Took
  <2>2. rc' = "ROW_END" => field_current' = field_current
    BY <1>6
  <2> QED BY <1>1, <1>3, <1>5, <2>1, <2>2 DEF InRow, RowBegun, RowUsed, Done
<1>14. RowsTypeOK'
  <2>1. StreamTypeOK'
    BY <1>3, Frozen DEF RowsTypeOK
  <2>2. FieldsTypeOK'
    BY <1>7, <1>11 DEF RowsTypeOK, FieldsTypeOK
  <2>3. CallTypeOK'
    BY <1>3, <1>7 DEF RowsTypeOK, CallTypeOK
  <2> QED BY <2>1, <2>2, <2>3 DEF RowsTypeOK
<1>15. CallsInOrder'
  BY <1>1, <1>3, <1>4, <1>7 DEF CallsInOrder, ByField, Buffering
<1>16. WireInStep'
  BY <1>2, <1>3, <1>4, <1>7, <1>12, <1>13 DEF WireInStep, AtBoundary
<1>17. FieldsInOrder'
  <2>1. rc' = "ROW_END" => field_current' = Cardinality(Stored(row_count))'
    BY <1>6, <1>9
  <2> QED BY <1>3, <1>10, <1>11, <1>12, <1>13, <2>1 DEF FieldsInOrder
<1>18. GivenInOrder'
  BY <1>1, <1>3, <1>7, <1>8, <1>13 DEF GivenInOrder, Buffering
<1>19. RowInPlace'
  <2>1. \A k, v : Placed(k, v)' = Placed(k, v)
    BY <1>3, SameCopies
  <2>2. SUFFICES ASSUME Buffering PROVE RowInPlace'
    BY <1>3 DEF RowInPlace, Buffering
  <2>3. /\ row \in [Cols -> Cols \cup {Null, Junk}] /\ field_sizes \in [Cols -> Nat]
        /\ \A k \in 1..Done : Placed(k, Nth(row_count, k))
        /\ \A k \in (Done + 1)..Columns : row[k] = Junk /\ field_sizes[k] = 0
    BY <1>1, <2>2 DEF RowInPlace
  <2>4. ASSUME NEW k \in 1..Done
        PROVE  Placed(k, Nth(row_count, k))'
    BY <1>7, <1>8, <2>3 DEF Placed
  <2> QED BY <1>7, <1>13, <2>3, <2>4 DEF RowInPlace
<1>20. ListsInOrder'
  <2>1. \A k : Stores(k)' = Stores(k)
    BY <1>3, SameCopies DEF listVars
  <2>2. Listed' = Listed
    BY <1>4, <1>7, <1>13 DEF Listed
  <2> QED BY <1>3, <1>7, <2>1, <2>2 DEF ListsInOrder, Listing
<1>21. ShownAsSent'
  BY <1>4, <1>7, <1>14 DEF ShownAsSent, RowsTypeOK, CallTypeOK
<1> QED BY <1>14, <1>15, <1>16, <1>17, <1>18, <1>19, <1>20, <1>21

----------------------------------------------------------------------------
(* The invariant holds.                                                    *)

LEMMA RowsInitially ==
  ASSUME Init, RowsFit
  PROVE  RowsInvariant
<1>1. StreamTypeOK
  <2>1. PICK m \in 0..MaxRows : rows \in [1..m -> Row(binary_rows)]
    BY DEF Init
  <2>2. rows \in Seq(Row(binary_rows))
    <3>1. m \in Nat
      BY RowsAssumption
    <3> QED BY <2>1, <3>1
  <2>3. Len(rows) \in 0..MaxRows
    BY <2>1, RowsAssumption
  <2> QED BY <2>2, <2>3 DEF Init, StreamTypeOK
<1>2. Len(rows) \in Nat /\ DOMAIN rows = 1..Len(rows)
  BY <1>1 DEF StreamTypeOK
<1>3. wire = RestOf(0)
  <2>1. [r \in DOMAIN rows |-> Packets(RowPayload(rows, binary_rows, r))]
          = [k \in 1..(Len(rows) - 0) |-> Packets(RowPayload(rows, binary_rows, 0 + k))]
    <3> DEFINE P(k) == Packets(RowPayload(rows, binary_rows, k))
    <3>1. 1..(Len(rows) - 0) = DOMAIN rows /\ \A k \in DOMAIN rows : 0 + k = k
      BY <1>2
    <3> HIDE DEF P
    <3>2. [r \in DOMAIN rows |-> P(r)] = [k \in 1..(Len(rows) - 0) |-> P(0 + k)]
      BY <3>1
    <3> QED BY <3>2 DEF P
  <2> QED BY <2>1 DEF Init, Stream, RestOf
<1>4. wire \in Bytes
  <2>1. 0 \in 0..Len(rows)
    BY <1>2
  <2> QED BY <1>1, <1>3, <2>1, RestOfIs
<1>5. RowsTypeOK
  <2>1. FieldsTypeOK
    <3>1. <<>> \in Bytes
      BY DEF Bytes
    <3>2. 0 \in Nat /\ 0 \in 0..Columns /\ 0 \in 0..Len(rows) /\ 0 \in 0..0
      BY <1>2, RowsAssumption
    <3>3. field_buffer \in [Cols -> Bytes]
      BY <3>1 DEF Init
    <3>4. /\ packet_size = 0 /\ row_count = 0 /\ row_current = 0
          /\ field_current = 0 /\ field_current_read = 0
          /\ field_total = 0 /\ field = Null
      BY DEF Init
    <3> QED BY <1>4, <3>2, <3>3, <3>4 DEF FieldsTypeOK
  <2>2. CallTypeOK
    <3>1. 0 \in Nat /\ given \in Seq(Bytes \cup {Null})
      BY DEF Init
    <3> QED BY <3>1 DEF Init, CallTypeOK
  <2> QED BY <1>1, <2>1, <2>2 DEF RowsTypeOK
<1>6. CallsInOrder
  BY DEF Init, CallsInOrder, ByField, Buffering
<1>7. ~ InRow /\ ~ RowUsed /\ ~ RowBegun
  BY DEF Init, InRow, RowUsed, RowBegun
<1>8. WireInStep
  BY <1>3, <1>7 DEF Init, WireInStep, Behind
<1>9. FieldsInOrder
  BY <1>7 DEF Init, FieldsInOrder
<1>10. GivenInOrder
  BY DEF Init, GivenInOrder
<1>11. RowInPlace
  BY DEF Init, RowInPlace
<1>12. ListsInOrder
  BY DEF Init, ListsInOrder, Listing
<1>13. ShownAsSent
  BY DEF Init, ShownAsSent
<1> QED BY <1>5, <1>6, <1>8, <1>9, <1>10, <1>11, <1>12, <1>13 DEF RowsInvariant

LEMMA RowsStutters ==
  ASSUME RowsInvariant, UNCHANGED vars
  PROVE  RowsInvariant'
<1> USE DEF RowsInvariant
<1>1. /\ UNCHANGED serverVars
      /\ UNCHANGED wireVars
      /\ UNCHANGED cursorVars
      /\ UNCHANGED fieldVars
      /\ UNCHANGED rowVars
      /\ UNCHANGED listVars
      /\ UNCHANGED callVars
      /\ UNCHANGED appVars
  BY DEF vars
<1>2. /\ Behind' = Behind /\ Within' = Within /\ AllRows' = AllRows
      /\ Counted' = Counted /\ BitmapKept' = BitmapKept /\ AtHand' = AtHand
      /\ \A k : Nth(row_count, k)' = Nth(row_count, k)
      /\ Cardinality(Stored(row_count))' = Cardinality(Stored(row_count))
  BY <1>1, SameStream
<1>3. /\ call' = call /\ at' = at /\ rc' = rc /\ pending' = pending
      /\ buffered' = buffered /\ binary_rows' = binary_rows
      /\ row_count' = row_count /\ row_current' = row_current
      /\ given' = given /\ part' = part /\ in_row' = in_row /\ over' = over
      /\ shown' = shown /\ skipped' = skipped /\ packet_size' = packet_size
      /\ row_list_size' = row_list_size
      /\ field_current' = field_current /\ field_offset' = field_offset
      /\ field_size' = field_size /\ field_total' = field_total /\ field' = field
      /\ null_bitcount' = null_bitcount /\ null_bitmap' = null_bitmap
      /\ row' = row /\ field_sizes' = field_sizes /\ field_buffer' = field_buffer
      /\ field_sizes_list' = field_sizes_list /\ null_bitmap_list' = null_bitmap_list
  BY <1>1 DEF serverVars, wireVars, cursorVars, fieldVars, rowVars, listVars, callVars,
              appVars
<1>4. InRow' = InRow /\ RowUsed' = RowUsed /\ RowBegun' = RowBegun /\ Done' = Done
      /\ AtBoundary' = AtBoundary
  BY <1>3 DEF InRow, RowUsed, RowBegun, Done, AtBoundary
<1>5. RowsTypeOK'
  <2>1. StreamTypeOK'
    BY <1>1, Frozen DEF RowsTypeOK
  <2>2. FieldsTypeOK'
    BY <1>1, <1>3 DEF RowsTypeOK, FieldsTypeOK, wireVars, fieldVars, serverVars
  <2>3. CallTypeOK'
    BY <1>3 DEF RowsTypeOK, CallTypeOK
  <2> QED BY <2>1, <2>2, <2>3 DEF RowsTypeOK
<1>6. CallsInOrder'
  BY <1>3 DEF CallsInOrder, ByField, Buffering
<1>7. WireInStep'
  BY <1>2, <1>3, <1>4 DEF WireInStep
<1>8. FieldsInOrder'
  BY <1>2, <1>3, <1>4 DEF FieldsInOrder, Kept
<1>9. GivenInOrder'
  BY <1>2, <1>3, <1>4 DEF GivenInOrder, Buffering
<1>10. RowInPlace'
  <2>1. \A k, v : Placed(k, v)' = Placed(k, v)
    BY <1>1, SameCopies
  <2>2. \A k : Placed(k, Nth(row_count, k))' = Placed(k, Nth(row_count, k))
    BY <1>2, <1>3 DEF Placed
  <2> QED BY <1>3, <1>4, <2>2 DEF RowInPlace, Buffering
<1>11. ListsInOrder'
  <2>1. \A r : Stores(r)' = Stores(r)
    BY <1>1, SameCopies DEF listVars
  <2> QED BY <1>3, <1>4, <2>1 DEF ListsInOrder, Listing, Listed
<1>12. ShownAsSent'
  <2>1. RowSizes(shown)' = RowSizes(shown) /\ Nulls(shown)' = Nulls(shown)
    BY <1>1, <1>3, Frozen
  <2> QED BY <1>3, <2>1, ShownIs
<1> QED BY <1>5, <1>6, <1>7, <1>8, <1>9, <1>10, <1>11, <1>12

(* The invariant holds in every behaviour of the calls that read the rows  *)
(* of a result, of any number of columns and rows: none of them is as long *)
(* as a packet.                                                            *)
THEOREM RowsIsInvariant ==
  ASSUME RowsFit
  PROVE  Spec => []RowsInvariant
<1>1. Init => RowsInvariant
  BY RowsInitially
<1>2. RowsInvariant /\ [Next]_vars => RowsInvariant'
  <2> SUFFICES ASSUME RowsInvariant, [Next]_vars
               PROVE  RowsInvariant'
    OBVIOUS
  <2>1. CASE CallRowRead \/ CallFieldRead \/ CallFieldBuffer \/ CallRowBuffer
             \/ CallResultBuffer
    BY <2>1, CallBegins
  <2>2. CASE drizzle_row_free
    BY <2>2, RowFreeKeeps
  <2>3. CASE drizzle_row_read
    BY <2>3, RowReadKeeps
  <2>4. CASE drizzle_field_read
    BY <2>4, FieldReadKeeps
  <2>5. CASE RowReadReturns \/ RowBufferEnds \/ ResultBufferEnds
    BY <2>5, RowCallReturns
  <2>6. CASE FieldReadReturns \/ FieldBufferReturns
    BY <2>6, FieldCallReturns
  <2>7. CASE FieldBufferCopies
    BY <2>7, FieldBufferCopiesKeeps
  <2>8. CASE RowBufferBegins
    BY <2>8, RowBufferBeginsKeeps
  <2>9. CASE RowBufferStores
    BY <2>9, RowBufferStoresKeeps
  <2>10. CASE RowBufferReturns
    BY <2>10, RowBufferReturnsKeeps
  <2>11. CASE ResultBufferStores
    BY <2>11, ResultBufferStoresKeeps
  <2>12. CASE drizzle_row_next \/ drizzle_row_prev \/ drizzle_row_seek
    BY <2>12, CursorMoves
  <2>13. CASE UNCHANGED vars
    BY <2>13, RowsStutters
  <2> QED BY <2>1, <2>2, <2>3, <2>4, <2>5, <2>6, <2>7, <2>8, <2>9, <2>10, <2>11,
             <2>12, <2>13 DEF Next
<1> QED BY <1>1, <1>2, PTL DEF Spec

----------------------------------------------------------------------------
(* What the invariant is for.                                              *)

(* The application is given the values of the row, whole and in the order  *)
(* of the columns, whichever of the calls it reads them with.              *)
THEOREM GivenAsSent ==
  ASSUME RowsFit
  PROVE  Spec => []FieldsAsSent
<1>1. ASSUME RowsInvariant PROVE FieldsAsSent
  <2> USE <1>1 DEF RowsInvariant
  <2> SUFFICES ASSUME NEW k \in DOMAIN given
               PROVE  /\ k <= Len(Delivered(row_current))
                      /\ given[k] = Value(row_current, Delivered(row_current)[k])
    BY DEF FieldsAsSent
  <2>1. Len(given) \in Nat /\ k \in 1..Len(given) /\ given # <<>>
    BY DEF RowsTypeOK, CallTypeOK
  <2>2. /\ row_current = row_count /\ given[k] = Nth(row_count, k)
        /\ Len(given) <= Cardinality(Stored(row_count))
    BY <2>1 DEF GivenInOrder
  <2>3. Len(Delivered(row_count)) = Cardinality(Stored(row_count))
        /\ Cardinality(Stored(row_count)) \in Nat
    BY DeliveredIs, UptoIs
  <2> QED BY <2>1, <2>2, <2>3 DEF Nth
<1> QED BY <1>1, RowsIsInvariant, PTL

(* ROW_END is returned once each value of the row was read, and then the   *)
(* packet of the row is used up and the next one's head is ahead.          *)
THEOREM RowsUseUpPackets ==
  ASSUME RowsFit
  PROVE  Spec => []PacketUsedUp
<1>1. ASSUME RowsInvariant PROVE PacketUsedUp
  <2> USE <1>1 DEF RowsInvariant
  <2> SUFFICES ASSUME RowUsed
               PROVE  /\ field_current = Len(Delivered(row_current))
                      /\ packet_size = 0 /\ Head(wire).what = "head"
    BY DEF PacketUsedUp, RowUsed
  <2>1. Behind /\ packet_size = 0
    BY DEF WireInStep, AtBoundary
  <2>2. wire = RestOf(row_count) /\ row_current = row_count
    BY <2>1 DEF Behind
  <2>3. field_current = Cardinality(Stored(row_count))
    BY DEF FieldsInOrder
  <2>4. Head(wire).what = "head"
    BY <2>2, RowAhead DEF RowsTypeOK, FieldsTypeOK
  <2> QED BY <2>1, <2>2, <2>3, <2>4, DeliveredIs
<1> QED BY <1>1, RowsIsInvariant, PTL

(* "No more rows" is said, and a buffered result given, only after the     *)
(* last of the rows and when the server ended the result as it should.     *)
THEOREM EndIsTheEnd ==
  ASSUME RowsFit
  PROVE  Spec => []EndMeansAllRows
<1>1. RowsInvariant => EndMeansAllRows
  BY DEF RowsInvariant, WireInStep, AllRows, EndMeansAllRows
<1> QED BY <1>1, RowsIsInvariant, PTL

(* The lists of a buffered result hold each row as the server sent it,     *)
(* with the sizes of its values and, of a binary row, its NULL bitmap.     *)
THEOREM BufferedAsSent ==
  ASSUME RowsFit
  PROVE  Spec => []BufferedRowsAsSent
<1>1. ASSUME RowsInvariant PROVE BufferedRowsAsSent
  <2> USE <1>1 DEF RowsInvariant
  <2> SUFFICES ASSUME buffered, skipped < GrowSize,
                      NEW r \in (skipped + 1)..Len(rows)
               PROVE  Stores(r)
    BY DEF BufferedRowsAsSent, Stores, RowCopied, RowSizes
  <2>1. call = "none" /\ at = "app" /\ ~ in_row
    BY DEF CallsInOrder, RowsTypeOK, CallTypeOK
  <2>2. Listed = row_count
    BY <2>1 DEF Listed, InRow, RowBegun
  <2>3. row_count = Len(rows)
    BY DEF WireInStep, AllRows
  <2> QED BY <2>2, <2>3 DEF ListsInOrder, Listing
<1> QED BY <1>1, RowsIsInvariant, PTL

(* A row shown by drizzle_row_next or drizzle_row_prev comes with its own  *)
(* sizes and its own NULL bitmap.                                          *)
THEOREM ShownWithItsSizes ==
  ASSUME RowsFit
  PROVE  Spec => []ShownAsSent
<1>1. RowsInvariant => ShownAsSent
  BY DEF RowsInvariant
<1> QED BY <1>1, RowsIsInvariant, PTL

(* A field is read in one piece, so that no call returns a piece of no     *)
(* bytes of a value that has some.                                         *)
THEOREM FieldsComeWhole ==
  ASSUME RowsFit
  PROVE  Spec => []PartsMakeProgress
<1>1. ASSUME RowsInvariant PROVE PartsMakeProgress
  BY <1>1 DEF RowsInvariant, FieldsInOrder, PartsMakeProgress, RowsTypeOK,
              FieldsTypeOK
<1> QED BY <1>1, RowsIsInvariant, PTL

================================================================================
