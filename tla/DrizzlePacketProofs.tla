------------------------- MODULE DrizzlePacketProofs -------------------------
(***************************************************************************)
(* Proofs that PacketInvariant is inductive with StackInvariant and        *)
(* SessionInvariant in an orderly use of the connection, and of what       *)
(* follows from it: the header and the packet that a handler looks for are *)
(* at hand, and a reply that is over has been read to its end.  Then, on   *)
(* top of it, that a call's result is there until the call returns, and    *)
(* that commands go out piece by piece in their order.                     *)
(***************************************************************************)
EXTENDS DrizzleProofs, DrizzlePackets

----------------------------------------------------------------------------
(* The rest of a reply.                                                    *)

(* The rest of a sequence behind its first unit.                           *)
LEMMA Behind ==
  ASSUME NEW s \in Seq(Units), s # <<>>
  PROVE  /\ Head(s) = s[1] /\ Tail(s) \in Seq(Units)
         /\ Len(s) \in Nat /\ Len(s) >= 1 /\ Len(Tail(s)) = Len(s) - 1
         /\ Tail(s) = <<>> <=> Len(s) < 2
         /\ \A i \in 1..(Len(s) - 1) : Tail(s)[i] = s[i + 1]
<1>1. /\ Head(s) = s[1] /\ Tail(s) \in Seq(Units) /\ Len(Tail(s)) = Len(s) - 1
      /\ \A i \in 1..(Len(s) - 1) : Tail(s)[i] = s[i + 1]
  BY HeadTailProperties
<1>2. Len(s) \in Nat /\ Len(s) # 0
  BY LenProperties, EmptySeq
<1>3. Tail(s) = <<>> <=> Len(Tail(s)) = 0
  BY <1>1, EmptySeq
<1>4. Len(Tail(s)) = 0 <=> Len(s) < 2
  <2> DEFINE n == Len(s)
             m == Len(Tail(s))
  <2>1. n \in Nat /\ n # 0 /\ m = n - 1
    BY <1>1, <1>2
  <2> HIDE DEF n, m
  <2>2. m = 0 <=> n < 2
    BY <2>1
  <2> QED BY <2>2 DEF n, m
<1> QED BY <1>1, <1>2, <1>3, <1>4

(* The head of a packet is consumed: what was left of a reply is left of   *)
(* it without this head, and packet_number goes on.                        *)
LEMMA HeadFramed ==
  ASSUME NEW s \in Seq(Units), NEW number, NEW k, Framed(s, number, 0, k)
  PROVE  /\ s # <<>> /\ Head(s).part = "head" /\ Head(s).seq = number
         /\ Len(s) >= 2
         /\ Framed(Tail(s), (number + 1) % PacketMod, 1, k)
<1>1. /\ Head(s) = s[1] /\ Len(s) \in Nat /\ Len(s) >= 1 /\ Len(Tail(s)) = Len(s) - 1
      /\ Tail(s) = <<>> <=> Len(s) < 2
      /\ \A i \in 1..(Len(s) - 1) : Tail(s)[i] = s[i + 1]
  BY Behind DEF Framed
<1>2. s[1].part = "head" /\ s[1].seq = number /\ s[Len(s)].part = "body"
  BY DEF Framed
<1>3. Len(s) >= 2
  BY <1>1, <1>2
<1>4. /\ Tail(s)[1] = s[2] /\ s[2].part = "body" /\ s[2].seq = number
      /\ Tail(s)[Len(s) - 1] = s[Len(s)]
  <2>1. 1 \in 1..(Len(s) - 1) /\ 1 + 1 = 2 /\ Len(s) - 1 \in 1..(Len(s) - 1)
        /\ (Len(s) - 1) + 1 = Len(s)
    BY <1>1, <1>3
  <2> QED BY <1>1, <1>2, <2>1 DEF Framed
<1>5. \A i \in 1..(Len(s) - 1) : Tail(s)[i].k = k
  BY <1>1 DEF Framed
<1>6. \A i \in 1..((Len(s) - 1) - 1) :
        /\ Tail(s)[i] = s[i + 1] /\ Tail(s)[i + 1] = s[(i + 1) + 1]
        /\ i + 1 \in 1..(Len(s) - 1)
  BY <1>1
<1> QED BY <1>1, <1>2, <1>3, <1>4, <1>5, <1>6 DEF Framed

(* The body of a packet is consumed.                                       *)
LEMMA BodyFramed ==
  ASSUME NEW s \in Seq(Units), NEW number, NEW k, Framed(s, number, 1, k)
  PROVE  /\ s # <<>> /\ Head(s) = s[1] /\ Head(s).part = "body" /\ Head(s).k = k
         /\ Len(s) < 2 => Tail(s) = <<>>
         /\ Len(s) >= 2 => Framed(Tail(s), number, 0, k) /\ Len(s) > 2
<1>1. /\ Head(s) = s[1] /\ Len(s) \in Nat /\ Len(s) >= 1 /\ Len(Tail(s)) = Len(s) - 1
      /\ Tail(s) = <<>> <=> Len(s) < 2
      /\ \A i \in 1..(Len(s) - 1) : Tail(s)[i] = s[i + 1]
  BY Behind DEF Framed
<1>2. /\ s[1].part = "body" /\ number = (s[1].seq + 1) % PacketMod
      /\ s[Len(s)].part = "body" /\ s[1].k = k
  BY <1>1 DEF Framed
<1>3. ASSUME Len(s) >= 2
      PROVE  Framed(Tail(s), number, 0, k) /\ Len(s) > 2
  <2>1. 1 \in 1..(Len(s) - 1) /\ 1 + 1 = 2 /\ Len(s) - 1 \in 1..(Len(s) - 1)
        /\ (Len(s) - 1) + 1 = Len(s)
    BY <1>1, <1>3
  <2>2. /\ Tail(s)[1] = s[2] /\ s[2].part = "head" /\ s[2].seq = number
        /\ Tail(s)[Len(s) - 1] = s[Len(s)]
    BY <1>1, <1>2, <2>1 DEF Framed
  <2>3. Len(s) > 2
    BY <1>1, <1>2, <1>3, <2>2
  <2>4. \A i \in 1..(Len(s) - 1) : Tail(s)[i].k = k
    BY <1>1 DEF Framed
  <2>5. \A i \in 1..((Len(s) - 1) - 1) :
          /\ Tail(s)[i] = s[i + 1] /\ Tail(s)[i + 1] = s[(i + 1) + 1]
          /\ i + 1 \in 1..(Len(s) - 1)
    BY <1>1
  <2> QED BY <1>1, <1>2, <1>3, <2>2, <2>3, <2>4, <2>5 DEF Framed
<1> QED BY <1>1, <1>2, <1>3

(* One packet.                                                             *)
LEMMA OneHead ==
  ASSUME NEW s \in Seq(Units), NEW number, NEW kinds, NEW k,
         OneLeft(s, number, 0, kinds, k)
  PROVE  OneLeft(Tail(s), (number + 1) % PacketMod, 1, kinds, k)
<1>1. Framed(s, number, 0, k)
  BY DEF OneLeft
<1>2. Framed(Tail(s), (number + 1) % PacketMod, 1, k)
  BY <1>1, HeadFramed
<1>3. s # <<>> /\ Len(s) <= 2 /\ \A i \in 1..Len(s) : s[i].kind \in kinds
  BY <1>1, HeadFramed DEF OneLeft
<1>4. /\ Len(s) \in Nat /\ Len(Tail(s)) = Len(s) - 1
      /\ \A i \in 1..(Len(s) - 1) : Tail(s)[i] = s[i + 1]
  BY <1>3, Behind
<1>5. Len(Tail(s)) <= 2 - 1 /\ \A i \in 1..Len(Tail(s)) : Tail(s)[i].kind \in kinds
  <2>1. \A i \in 1..(Len(s) - 1) : i + 1 \in 1..Len(s)
    BY <1>4
  <2> QED BY <1>3, <1>4, <2>1
<1> QED BY <1>2, <1>5 DEF OneLeft

LEMMA OneBody ==
  ASSUME NEW s \in Seq(Units), NEW number, NEW kinds, NEW k,
         OneLeft(s, number, 1, kinds, k)
  PROVE  Tail(s) = <<>> /\ Head(s).kind \in kinds
<1>1. /\ Framed(s, number, 1, k) /\ Len(s) <= 2 - 1
      /\ \A i \in 1..Len(s) : s[i].kind \in kinds
  BY DEF OneLeft
<1>2. Len(s) \in Nat /\ Len(s) >= 1 /\ s # <<>>
  BY <1>1, BodyFramed, Behind
<1>3. s[1].kind \in kinds /\ Len(s) < 2
  BY <1>1, <1>2
<1> QED BY <1>1, <1>3, BodyFramed

(* Rows.                                                                   *)
LEMMA RowsHead ==
  ASSUME NEW s \in Seq(Units), NEW number, NEW k, RowsLeft(s, number, 0, k)
  PROVE  RowsLeft(Tail(s), (number + 1) % PacketMod, 1, k)
<1>1. Framed(s, number, 0, k)
  BY DEF RowsLeft
<1>2. Framed(Tail(s), (number + 1) % PacketMod, 1, k)
  BY <1>1, HeadFramed
<1>3. \A i \in 1..Len(s) : IF i <= Len(s) - 2 THEN s[i].kind = "row" ELSE s[i].kind \in Lasts
  BY DEF RowsLeft
<1>4. /\ Len(s) \in Nat /\ Len(Tail(s)) = Len(s) - 1
      /\ \A i \in 1..(Len(s) - 1) : Tail(s)[i] = s[i + 1]
  BY <1>1, HeadFramed, Behind
<1>5. \A i \in 1..(Len(s) - 1) :
        IF i <= (Len(s) - 1) - 2 THEN Tail(s)[i].kind = "row" ELSE Tail(s)[i].kind \in Lasts
  <2> TAKE i \in 1..(Len(s) - 1)
  <2>1. i + 1 \in 1..Len(s) /\ (i + 1 <= Len(s) - 2 <=> i <= (Len(s) - 1) - 2)
    BY <1>4
  <2> QED BY <1>3, <1>4, <2>1
<1> QED BY <1>2, <1>4, <1>5 DEF RowsLeft

LEMMA RowsBody ==
  ASSUME NEW s \in Seq(Units), NEW number, NEW k, RowsLeft(s, number, 1, k)
  PROVE  /\ Head(s).kind \in {"row", "eof", "err"}
         /\ Head(s).kind = "row" => Len(s) > 2 /\ RowsLeft(Tail(s), number, 0, k)
         /\ Head(s).kind # "row" => Tail(s) = <<>>
         /\ Head(s).kind = "err" => OneLeft(s, number, 1, {"err"}, k)
<1>1. Framed(s, number, 1, k)
  BY DEF RowsLeft
<1>2. /\ s # <<>> /\ Head(s) = s[1]
      /\ Len(s) < 2 => Tail(s) = <<>>
      /\ Len(s) >= 2 => Framed(Tail(s), number, 0, k) /\ Len(s) > 2
  BY <1>1, BodyFramed
<1>3. \A i \in 1..Len(s) : IF i <= Len(s) - 2 THEN s[i].kind = "row" ELSE s[i].kind \in Lasts
  BY DEF RowsLeft
<1>4. /\ Len(s) \in Nat /\ Len(s) >= 1 /\ Len(Tail(s)) = Len(s) - 1
      /\ \A i \in 1..(Len(s) - 1) : Tail(s)[i] = s[i + 1]
  BY <1>2, Behind
<1>5. CASE Len(s) < 2
  BY <1>1, <1>2, <1>3, <1>4, <1>5 DEF Lasts, OneLeft
<1>6. CASE Len(s) >= 2
  <2>1. s[1].kind = "row"
    BY <1>2, <1>3, <1>4, <1>6
  <2>2. \A i \in 1..(Len(s) - 1) :
          IF i <= (Len(s) - 1) - 2 THEN Tail(s)[i].kind = "row" ELSE Tail(s)[i].kind \in Lasts
    <3> TAKE i \in 1..(Len(s) - 1)
    <3>1. i + 1 \in 1..Len(s) /\ (i + 1 <= Len(s) - 2 <=> i <= (Len(s) - 1) - 2)
      BY <1>4
    <3> QED BY <1>3, <1>4, <3>1
  <2> QED BY <1>2, <1>4, <1>6, <2>1, <2>2 DEF RowsLeft
<1> QED BY <1>4, <1>5, <1>6

(* A result set: its column count, and its columns.                        *)
LEMMA ResultHead ==
  ASSUME NEW s \in Seq(Units), NEW number, NEW k, NEW first \in {0, 2},
         Framed(s, number, 0, k), NEW e \in 1..Len(s), ResultKinds(s, first, e)
  PROVE  \E d \in 1..Len(Tail(s)) :
           ResultKinds(Tail(s), IF first = 0 THEN 0 ELSE 1, d)
<1> DEFINE rest == IF first = 0 THEN 0 ELSE 1
<1>1. /\ Len(s) \in Nat /\ Len(s) >= 2 /\ Len(Tail(s)) = Len(s) - 1
      /\ \A i \in 1..(Len(s) - 1) : Tail(s)[i] = s[i + 1]
      /\ s[1].part = "head"
  BY HeadFramed, Behind DEF Framed
<1>2. e \in Nat /\ e - 1 \in 1..(Len(s) - 1) /\ Tail(s)[e - 1] = s[e]
  <2>1. e # 1
    BY <1>1 DEF ResultKinds
  <2>2. e \in Nat /\ e - 1 \in 1..(Len(s) - 1) /\ (e - 1) + 1 = e
    BY <1>1, <2>1
  <2> QED BY <1>1, <2>2
<1>3. /\ e + 2 <= Len(s) /\ s[e].part = "body"
      /\ first > 0 => e >= first + 2
      /\ \A i \in 1..Len(s) :
           IF i <= first THEN s[i].kind = "count" /\ s[i].n > 0
           ELSE IF i <= e - 2 THEN s[i].kind = "column"
           ELSE IF i <= e THEN s[i].kind = "eof"
           ELSE IF i <= Len(s) - 2 THEN s[i].kind = "row"
           ELSE s[i].kind \in Lasts
  BY DEF ResultKinds
<1>4. ASSUME NEW i \in 1..(Len(s) - 1)
      PROVE  IF i <= rest THEN Tail(s)[i].kind = "count" /\ Tail(s)[i].n > 0
             ELSE IF i <= (e - 1) - 2 THEN Tail(s)[i].kind = "column"
             ELSE IF i <= e - 1 THEN Tail(s)[i].kind = "eof"
             ELSE IF i <= (Len(s) - 1) - 2 THEN Tail(s)[i].kind = "row"
             ELSE Tail(s)[i].kind \in Lasts
  <2>1. Len(s) \in Nat /\ e \in Nat /\ first \in Nat /\ rest \in Nat
        /\ ((first = 0 /\ rest = 0) \/ (first = 2 /\ rest = 1))
    BY <1>1, <1>2
  <2>2. Tail(s)[i] = s[i + 1]
    BY <1>1
  <2> HIDE DEF rest
  <2>3. /\ i + 1 \in 1..Len(s)
        /\ i + 1 <= first <=> i <= rest
        /\ i + 1 <= e - 2 <=> i <= (e - 1) - 2
        /\ i + 1 <= e <=> i <= e - 1
        /\ i + 1 <= Len(s) - 2 <=> i <= (Len(s) - 1) - 2
    BY <2>1
  <2> QED BY <1>3, <2>2, <2>3
<1>5. (e - 1) + 2 <= Len(s) - 1 /\ (rest > 0 => e - 1 >= rest + 2)
  BY <1>1, <1>2, <1>3
<1> HIDE DEF rest
<1>6. ResultKinds(Tail(s), rest, e - 1)
  BY <1>1, <1>2, <1>3, <1>4, <1>5 DEF ResultKinds
<1> QED BY <1>1, <1>2, <1>6 DEF rest

(* The body of a column, of the EOF packet behind the columns, or of the   *)
(* column count.                                                           *)
LEMMA ResultBody ==
  ASSUME NEW s \in Seq(Units), NEW number, NEW k, NEW first \in {0, 1},
         Framed(s, number, 1, k), NEW e \in 1..Len(s), ResultKinds(s, first, e)
  PROVE  /\ Framed(Tail(s), number, 0, k)
         /\ first = 1 => Head(s).kind = "count" /\ Head(s).n > 0
         /\ first = 0 => Head(s).kind \in {"column", "eof"}
         /\ \/ Head(s).kind = "eof" /\ RowsLeft(Tail(s), number, 0, k)
            \/ /\ Head(s).kind # "eof"
               /\ \E d \in 1..Len(Tail(s)) : ResultKinds(Tail(s), 0, d)
<1>1. /\ Len(s) \in Nat /\ Len(Tail(s)) = Len(s) - 1 /\ Head(s) = s[1]
      /\ \A i \in 1..(Len(s) - 1) : Tail(s)[i] = s[i + 1]
      /\ s[1].part = "body"
  BY BodyFramed, Behind DEF Framed
<1>2. /\ e + 2 <= Len(s) /\ s[e].part = "body"
      /\ first > 0 => e >= first + 2
      /\ \A i \in 1..Len(s) :
           IF i <= first THEN s[i].kind = "count" /\ s[i].n > 0
           ELSE IF i <= e - 2 THEN s[i].kind = "column"
           ELSE IF i <= e THEN s[i].kind = "eof"
           ELSE IF i <= Len(s) - 2 THEN s[i].kind = "row"
           ELSE s[i].kind \in Lasts
  BY DEF ResultKinds
<1>3. Framed(Tail(s), number, 0, k) /\ Tail(s)[1] = s[2] /\ s[2].part = "head"
  <2>1. Len(s) >= 2 /\ 1 \in 1..(Len(s) - 1) /\ 1 + 1 = 2
    <3>1. Len(s) \in Nat /\ e + 2 <= Len(s) /\ e >= 1 /\ e \in Nat
      BY <1>1, <1>2
    <3> QED BY <3>1
  <2>2. Tail(s)[1] = s[2] /\ Framed(Tail(s), number, 0, k)
    BY <1>1, <2>1, BodyFramed
  <2>3. Tail(s)[1].part = "head"
    BY <2>2 DEF Framed
  <2> QED BY <2>2, <2>3
<1>4. CASE e = 1
  <2>1. first = 0 /\ s[1].kind = "eof"
    BY <1>1, <1>2, <1>4
  <2>2. \A i \in 1..(Len(s) - 1) :
          IF i <= (Len(s) - 1) - 2 THEN Tail(s)[i].kind = "row" ELSE Tail(s)[i].kind \in Lasts
    <3> TAKE i \in 1..(Len(s) - 1)
    <3>1. /\ i + 1 \in 1..Len(s) /\ (i + 1 <= Len(s) - 2 <=> i <= (Len(s) - 1) - 2)
          /\ ~ (i + 1 <= first) /\ ~ (i + 1 <= e - 2) /\ ~ (i + 1 <= e)
      BY <1>1, <1>4, <2>1
    <3> QED BY <1>1, <1>2, <3>1
  <2> QED BY <1>1, <1>3, <2>1, <2>2 DEF RowsLeft
<1>5. CASE e > 1
  <2>1. /\ e \in Nat /\ e >= 3 /\ e - 1 \in 1..(Len(s) - 1) /\ Tail(s)[e - 1] = s[e]
    <3>1. e # 2
      BY <1>2, <1>3
    <3>2. e \in Nat /\ e >= 3 /\ e - 1 \in 1..(Len(s) - 1) /\ (e - 1) + 1 = e
      BY <1>1, <1>5, <3>1
    <3> QED BY <1>1, <3>2
  <2>2. /\ first = 1 => s[1].kind = "count" /\ s[1].n > 0
        /\ first = 0 => s[1].kind = "column"
    BY <1>1, <1>2, <2>1
  <2>3. ASSUME NEW i \in 1..(Len(s) - 1)
        PROVE  IF i <= 0 THEN Tail(s)[i].kind = "count" /\ Tail(s)[i].n > 0
               ELSE IF i <= (e - 1) - 2 THEN Tail(s)[i].kind = "column"
               ELSE IF i <= e - 1 THEN Tail(s)[i].kind = "eof"
               ELSE IF i <= (Len(s) - 1) - 2 THEN Tail(s)[i].kind = "row"
               ELSE Tail(s)[i].kind \in Lasts
    <3>1. /\ i + 1 \in 1..Len(s) /\ Tail(s)[i] = s[i + 1]
          /\ ~ (i + 1 <= first) /\ ~ (i <= 0)
          /\ i + 1 <= e - 2 <=> i <= (e - 1) - 2
          /\ i + 1 <= e <=> i <= e - 1
          /\ i + 1 <= Len(s) - 2 <=> i <= (Len(s) - 1) - 2
      BY <1>1, <2>1
    <3> QED BY <1>2, <3>1
  <2>4. (e - 1) + 2 <= Len(s) - 1 /\ ~ (0 > 0)
    BY <1>1, <1>2, <2>1
  <2>5. ResultKinds(Tail(s), 0, e - 1)
    BY <1>1, <1>2, <2>1, <2>3, <2>4 DEF ResultKinds
  <2> QED BY <1>1, <1>3, <2>1, <2>2, <2>5
<1>6. e = 1 \/ e > 1
  OBVIOUS
<1> QED BY <1>4, <1>5, <1>6

(* What is left when an operation has consumed the head of a packet.       *)
LEMMA HeadTaken ==
  ASSUME NEW s \in Seq(Units), NEW number, NEW k
  PROVE  /\ \A kinds : OneLeft(s, number, 0, kinds, k)
                         => OneLeft(Tail(s), (number + 1) % PacketMod, 1, kinds, k)
         /\ RowsLeft(s, number, 0, k) => RowsLeft(Tail(s), (number + 1) % PacketMod, 1, k)
         /\ ColumnsLeft(s, number, 0, k)
              => ColumnsLeft(Tail(s), (number + 1) % PacketMod, 1, k)
         /\ \A name : ReplyLeft(s, number, 0, k, name)
                        => ReplyLeft(Tail(s), (number + 1) % PacketMod, 1, k, name)
<1>1. ASSUME NEW kinds, OneLeft(s, number, 0, kinds, k)
      PROVE  OneLeft(Tail(s), (number + 1) % PacketMod, 1, kinds, k)
  BY <1>1, OneHead
<1>2. RowsLeft(s, number, 0, k) => RowsLeft(Tail(s), (number + 1) % PacketMod, 1, k)
  BY RowsHead
<1>3. ASSUME ColumnsLeft(s, number, 0, k)
      PROVE  ColumnsLeft(Tail(s), (number + 1) % PacketMod, 1, k)
  <2>1. PICK e \in 1..Len(s) : ResultKinds(s, 0, e)
    BY <1>3 DEF ColumnsLeft
  <2>2. Framed(s, number, 0, k)
    BY <1>3 DEF ColumnsLeft
  <2>3. \E d \in 1..Len(Tail(s)) : ResultKinds(Tail(s), IF 0 = 0 THEN 0 ELSE 1, d)
    BY <2>1, <2>2, ResultHead
  <2>4. Framed(Tail(s), (number + 1) % PacketMod, 1, k)
    BY <2>2, HeadFramed
  <2> QED BY <2>3, <2>4 DEF ColumnsLeft
<1>4. ASSUME NEW name, ReplyLeft(s, number, 0, k, name)
      PROVE  ReplyLeft(Tail(s), (number + 1) % PacketMod, 1, k, name)
  <2>1. CASE OneLeft(s, number, 0, {"ok", "err"}, k)
    BY <2>1, OneHead DEF ReplyLeft
  <2>2. CASE /\ name = "query" /\ Framed(s, number, 0, k)
             /\ \E e \in 1..Len(s) : ResultKinds(s, 2 - 0, e)
    <3>1. PICK e \in 1..Len(s) : ResultKinds(s, 2, e)
      BY <2>2
    <3>2. \E d \in 1..Len(Tail(s)) : ResultKinds(Tail(s), IF 2 = 0 THEN 0 ELSE 1, d)
      BY <2>2, <3>1, ResultHead
    <3>3. \E d \in 1..Len(Tail(s)) : ResultKinds(Tail(s), 2 - 1, d)
      BY <3>2
    <3>4. Framed(Tail(s), (number + 1) % PacketMod, 1, k)
      BY <2>2, HeadFramed
    <3> QED BY <2>2, <3>3, <3>4 DEF ReplyLeft
  <2> QED BY <1>4, <2>1, <2>2 DEF ReplyLeft
<1> QED BY <1>1, <1>2, <1>3, <1>4

(* The body at hand of a reply, and what is left without it.               *)
LEMMA ColumnsBody ==
  ASSUME NEW s \in Seq(Units), NEW number, NEW k, ColumnsLeft(s, number, 1, k)
  PROVE  /\ Head(s).kind \in {"column", "eof"}
         /\ Head(s).kind = "eof" => RowsLeft(Tail(s), number, 0, k)
         /\ Head(s).kind # "eof" => ColumnsLeft(Tail(s), number, 0, k)
<1>1. PICK e \in 1..Len(s) : ResultKinds(s, 0, e)
  BY DEF ColumnsLeft
<1>2. Framed(s, number, 1, k)
  BY DEF ColumnsLeft
<1>3. /\ Framed(Tail(s), number, 0, k)
      /\ Head(s).kind \in {"column", "eof"}
      /\ \/ Head(s).kind = "eof" /\ RowsLeft(Tail(s), number, 0, k)
         \/ /\ Head(s).kind # "eof"
            /\ \E d \in 1..Len(Tail(s)) : ResultKinds(Tail(s), 0, d)
  BY <1>1, <1>2, ResultBody
<1> QED BY <1>3 DEF ColumnsLeft

LEMMA ReplyBody ==
  ASSUME NEW s \in Seq(Units), NEW number, NEW k, NEW name,
         ReplyLeft(s, number, 1, k, name)
  PROVE  /\ Head(s).kind \in {"ok", "err", "count"}
         /\ Head(s).kind = "count" => /\ name = "query" /\ Head(s).n > 0
                                      /\ ColumnsLeft(Tail(s), number, 0, k)
         /\ Head(s).kind # "count" => Tail(s) = <<>>
<1>1. CASE OneLeft(s, number, 1, {"ok", "err"}, k)
  BY <1>1, OneBody
<1>2. CASE /\ name = "query" /\ Framed(s, number, 1, k)
           /\ \E e \in 1..Len(s) : ResultKinds(s, 2 - 1, e)
  <2>1. PICK e \in 1..Len(s) : ResultKinds(s, 1, e)
    BY <1>2
  <2>2. /\ Framed(Tail(s), number, 0, k)
        /\ Head(s).kind = "count" /\ Head(s).n > 0
        /\ \E d \in 1..Len(Tail(s)) : ResultKinds(Tail(s), 0, d)
    BY <1>2, <2>1, ResultBody
  <2> QED BY <1>2, <2>2 DEF ColumnsLeft
<1> QED BY <1>1, <1>2 DEF ReplyLeft

(* Whatever is left of a reply is framed.                                  *)
LEMMA AllFramed ==
  ASSUME NEW s, NEW number, NEW taken, NEW k
  PROVE  /\ \A kinds : OneLeft(s, number, taken, kinds, k) => Framed(s, number, taken, k)
         /\ RowsLeft(s, number, taken, k) => Framed(s, number, taken, k)
         /\ ColumnsLeft(s, number, taken, k) => Framed(s, number, taken, k)
         /\ \A name : ReplyLeft(s, number, taken, k, name) => Framed(s, number, taken, k)
BY DEF OneLeft, RowsLeft, ColumnsLeft, ReplyLeft

----------------------------------------------------------------------------
(* What a server says.                                                     *)

(* What is left by a division, and of the number that comes next.         *)
LEMMA Remainder ==
  ASSUME NEW m \in Nat, m > 1, NEW x \in Nat, NEW q \in Nat, NEW r \in 0..(m - 1),
         x = m * q + r
  PROVE  x % m = r
<1>1. /\ x = m * (x \div m) + (x % m) /\ x \div m \in Nat
      /\ x % m \in 0..(m - 1)
  BY Z3
<1> DEFINE p == x \div m
           t == x % m
<1>2. m * q + r = m * p + t /\ p \in Nat /\ t \in 0..(m - 1)
  BY <1>1
<1> HIDE DEF p, t
<1>3. /\ m * (q + 1) = m * q + m /\ m * (p + 1) = m * p + m
      /\ m * q \in Nat /\ m * p \in Nat
  BY <1>2, Z3
<1>4. ~ (q + 1 <= p)
  <2>1. q + 1 <= p => m * (q + 1) <= m * p
    BY <1>2, Z3
  <2> QED BY <1>2, <1>3, <2>1
<1>5. ~ (p + 1 <= q)
  <2>1. p + 1 <= q => m * (p + 1) <= m * q
    BY <1>2, Z3
  <2> QED BY <1>2, <1>3, <2>1
<1>6. p = q
  BY <1>2, <1>4, <1>5
<1> QED BY <1>2, <1>3, <1>6 DEF t

LEMMA NextRemainder ==
  ASSUME NEW m \in Nat, m > 1, NEW a \in Nat
  PROVE  ((a % m) + 1) % m = (a + 1) % m
<1>1. /\ a = m * (a \div m) + (a % m) /\ a \div m \in Nat
      /\ a % m \in 0..(m - 1)
  BY Z3
<1> DEFINE q == a \div m
           r == a % m
<1>2. a = m * q + r /\ q \in Nat /\ r \in 0..(m - 1)
  BY <1>1
<1> HIDE DEF q, r
<1>3. CASE r < m - 1
  <2>1. (r + 1) % m = r + 1
    BY <1>2, <1>3
  <2>2. (a + 1) % m = r + 1
    BY <1>2, <1>3, Remainder
  <2> QED BY <2>1, <2>2 DEF r
<1>4. CASE r = m - 1
  <2>1. (r + 1) % m = 0
    BY <1>2, <1>4
  <2>2. a + 1 = m * (q + 1) + 0
    BY <1>2, <1>4, Z3
  <2>3. (a + 1) % m = 0
    BY <1>2, <2>2, Remainder
  <2> QED BY <2>1, <2>3 DEF r
<1> QED BY <1>2, <1>3, <1>4

(* The units of a list of packets: heads and bodies, numbered from seq on. *)
LEMMA StreamUnits ==
  ASSUME NEW kinds \in Seq(ServerKinds), kinds # <<>>, NEW seq \in 0..(PacketMod - 1),
         NEW k \in Nat, NEW columns \in Nat
  PROVE  LET s == Stream(kinds, seq, k, columns)
         IN  /\ Len(s) = 2 * Len(kinds)
             /\ Framed(s, seq, 0, k)
             /\ \A p \in 1..Len(kinds) : \A i \in {2 * p - 1, 2 * p} :
                  /\ s[i].kind = kinds[p]
                  /\ s[i].part = IF i = 2 * p THEN "body" ELSE "head"
                  /\ s[i].n = IF kinds[p] = "count" THEN columns ELSE 0
<1> DEFINE s == Stream(kinds, seq, k, columns)
           N == Len(kinds)
<1>1. N \in Nat /\ N # 0
  BY LenProperties, EmptySeq
<1>2. DOMAIN s = 1..(2 * N) /\ Len(s) = 2 * N
  <2>1. s = [j \in 1..(2 * N) |-> s[j]]
    BY DEF Stream
  <2>2. 2 * N \in Nat
    BY <1>1
  <2> QED BY <2>1, <2>2
<1>3. ASSUME NEW p \in 1..N, NEW i \in {2 * p - 1, 2 * p}
      PROVE  /\ i \in 1..(2 * N)
             /\ s[i].part = IF i = 2 * p THEN "body" ELSE "head"
             /\ s[i].kind = kinds[p]
             /\ s[i].seq = (seq + p - 1) % PacketMod
             /\ s[i].k = k
             /\ s[i].n = IF kinds[p] = "count" THEN columns ELSE 0
  <2>1. /\ i \in 1..(2 * N) /\ (i + 1) \div 2 = p
        /\ i % 2 = 1 <=> i # 2 * p
    BY <1>1
  <2>2. s[i] = Unit(IF i % 2 = 1 THEN "head" ELSE "body", kinds[p],
                    (seq + p - 1) % PacketMod, k,
                    IF kinds[p] = "count" THEN columns ELSE 0)
    BY <2>1 DEF Stream
  <2> HIDE DEF s
  <2> QED BY <2>1, <2>2 DEF Unit
<1> HIDE DEF s, N
<1>4. ASSUME NEW i \in 1..(2 * N)
      PROVE  \E p \in 1..N : i = 2 * p - 1 \/ i = 2 * p
  <2>1. (i + 1) \div 2 \in 1..N
    BY <1>1
  <2>2. i = 2 * ((i + 1) \div 2) - 1 \/ i = 2 * ((i + 1) \div 2)
    BY <1>1
  <2> QED BY <2>1, <2>2
<1>5. PacketMod \in Nat /\ PacketMod > 1
  BY ConfigAssumption
<1>6. \A i \in 1..(2 * N) : s[i].k = k
  <2> TAKE i \in 1..(2 * N)
  <2>1. PICK p \in 1..N : i = 2 * p - 1 \/ i = 2 * p
    BY <1>4
  <2>2. i \in {2 * p - 1, 2 * p}
    BY <2>1
  <2> QED BY <1>3, <2>2
<1>7. s[1].part = "head" /\ s[1].seq = seq /\ s[2 * N].part = "body"
  <2>1. 1 \in 1..N /\ N \in 1..N /\ 1 = 2 * 1 - 1 /\ 1 # 2 * 1 /\ seq + 1 - 1 = seq
    BY <1>1
  <2>2. seq % PacketMod = seq
    BY <1>5
  <2> QED BY <1>3, <2>1, <2>2 DEF Unit
<1>8. ASSUME NEW i \in 1..(2 * N - 1)
      PROVE  \/ /\ s[i].part = "head" /\ s[i + 1].part = "body"
                /\ s[i + 1].seq = s[i].seq
             \/ /\ s[i].part = "body" /\ s[i + 1].part = "head"
                /\ s[i + 1].seq = (s[i].seq + 1) % PacketMod
  <2>1. i \in 1..(2 * N)
    BY <1>1
  <2>2. PICK p \in 1..N : i = 2 * p - 1 \/ i = 2 * p
    BY <1>4, <2>1
  <2>3. CASE i = 2 * p - 1
    <3>1. i # 2 * p /\ i + 1 = 2 * p
      BY <1>1, <2>3
    <3> QED BY <1>3, <2>3, <3>1 DEF Unit
  <2>4. CASE i = 2 * p
    <3>1. /\ p + 1 \in 1..N /\ i + 1 = 2 * (p + 1) - 1 /\ i + 1 # 2 * (p + 1)
          /\ seq + p - 1 \in Nat /\ seq + (p + 1) - 1 = (seq + p - 1) + 1
      BY <1>1, <1>5, <2>4
    <3>2. (((seq + p - 1) % PacketMod) + 1) % PacketMod = (seq + (p + 1) - 1) % PacketMod
      BY <1>5, <3>1, NextRemainder
    <3> QED BY <1>3, <2>4, <3>1, <3>2 DEF Unit
  <2> QED BY <2>2, <2>3, <2>4
<1>9. s # <<>> /\ Framed(s, seq, 0, k)
  <2>1. s # <<>>
    BY <1>1, <1>2
  <2> QED BY <1>2, <1>6, <1>7, <1>8, <2>1 DEF Framed
<1>10. \A p \in 1..N : \A i \in {2 * p - 1, 2 * p} :
         /\ s[i].kind = kinds[p]
         /\ s[i].part = IF i = 2 * p THEN "body" ELSE "head"
         /\ s[i].n = IF kinds[p] = "count" THEN columns ELSE 0
  BY <1>3 DEF Unit
<1> QED BY <1>2, <1>9, <1>10 DEF s, N

(* One packet of the server is one packet to be read.                      *)
LEMMA OneSaid ==
  ASSUME NEW kind \in ServerKinds, NEW seq \in 0..(PacketMod - 1), NEW k \in Nat,
         NEW kinds, kind \in kinds
  PROVE  /\ OneLeft(Stream(<<kind>>, seq, k, 0), seq, 0, kinds, k)
         /\ Stream(<<kind>>, seq, k, 0) \in Seq(Units)
<1> DEFINE one == <<kind>>
           s == Stream(one, seq, k, 0)
<1>1. one \in Seq(ServerKinds) /\ one # <<>> /\ one[1] = kind /\ Len(one) <= 1 /\ Len(one) >= 1
      /\ Len(one) \in Nat
  OBVIOUS
<1> HIDE DEF one
<1>2. /\ Len(s) = 2 * Len(one) /\ Framed(s, seq, 0, k)
      /\ \A p \in 1..Len(one) : \A i \in {2 * p - 1, 2 * p} : s[i].kind = one[p]
  <2>1. 0 \in Nat /\ one \in Seq(ServerKinds) /\ one # <<>>
    BY <1>1
  <2>2. LET t == Stream(one, seq, k, 0)
        IN  /\ Len(t) = 2 * Len(one)
            /\ Framed(t, seq, 0, k)
            /\ \A p \in 1..Len(one) : \A i \in {2 * p - 1, 2 * p} :
                 /\ t[i].kind = one[p]
                 /\ t[i].part = IF i = 2 * p THEN "body" ELSE "head"
                 /\ t[i].n = IF one[p] = "count" THEN 0 ELSE 0
    BY <2>1, StreamUnits, SMTT(30)
  <2> QED BY <2>2
<1> HIDE DEF s
<1>3. \A i \in 1..Len(s) : 1 \in 1..Len(one) /\ i \in {2 * 1 - 1, 2 * 1}
  BY <1>1, <1>2
<1>4. Len(s) <= 2 - 0 /\ \A i \in 1..Len(s) : s[i].kind \in kinds
  BY <1>1, <1>2, <1>3
<1>5. s \in Seq(Units)
  <2>1. seq \in Nat
    BY ConfigAssumption
  <2> QED BY <2>1, OneKind DEF s, one
<1> QED BY <1>2, <1>4, <1>5 DEF OneLeft, s, one

(* A result set is the reply to a query.                                   *)
LEMMA ResultSaid ==
  ASSUME NEW c \in Nat \ {0}, NEW r \in Nat, NEW last \in Lasts, NEW k \in Nat
  PROVE  /\ ReplyLeft(Stream(ResultSet(c, r, last), 1, k, c), 1, 0, k, "query")
         /\ Stream(ResultSet(c, r, last), 1, k, c) \in Seq(Units)
<1> DEFINE all == ResultSet(c, r, last)
           s == Stream(all, 1, k, c)
           e == 2 * (c + 2)
<1>1. /\ all \in Seq(ServerKinds) /\ Len(all) = c + r + 3 /\ all # <<>>
      /\ \A p \in 1..(c + r + 3) :
           /\ p <= 1 => all[p] = "count"
           /\ p > 1 /\ p <= c + 1 => all[p] = "column"
           /\ p > c + 1 /\ p <= c + 2 => all[p] = "eof"
           /\ p > c + 2 /\ p <= c + r + 2 => all[p] = "row"
           /\ p > c + r + 2 => all[p] = last
  <2>1. all \in Seq(ServerKinds)
    <3>1. c + r + 3 \in Nat
      OBVIOUS
    <3> QED BY <3>1, IsASeq DEF ResultSet, ServerKinds, Lasts
  <2>2. all = [p \in 1..(c + r + 3) |-> all[p]] /\ c + r + 3 \in Nat
    BY DEF ResultSet
  <2>3. Len(all) = c + r + 3
    BY <2>2
  <2>4. all # <<>>
    BY <2>3
  <2>5. ASSUME NEW p \in 1..(c + r + 3)
        PROVE  /\ p <= 1 => all[p] = "count"
               /\ p > 1 /\ p <= c + 1 => all[p] = "column"
               /\ p > c + 1 /\ p <= c + 2 => all[p] = "eof"
               /\ p > c + 2 /\ p <= c + r + 2 => all[p] = "row"
               /\ p > c + r + 2 => all[p] = last
    BY DEF ResultSet
  <2> QED BY <2>1, <2>3, <2>4, <2>5
<1> HIDE DEF all
<1>2. /\ Len(s) = 2 * (c + r + 3) /\ Framed(s, 1, 0, k)
      /\ \A p \in 1..(c + r + 3) : \A i \in {2 * p - 1, 2 * p} :
           /\ s[i].kind = all[p]
           /\ s[i].part = IF i = 2 * p THEN "body" ELSE "head"
           /\ s[i].n = IF all[p] = "count" THEN c ELSE 0
  <2>1. 1 \in 0..(PacketMod - 1) /\ c \in Nat
    BY ConfigAssumption
  <2> DEFINE N == Len(all)
  <2>2. /\ Len(s) = 2 * N /\ Framed(s, 1, 0, k)
        /\ \A p \in 1..N : \A i \in {2 * p - 1, 2 * p} :
             /\ s[i].kind = all[p]
             /\ s[i].part = IF i = 2 * p THEN "body" ELSE "head"
             /\ s[i].n = IF all[p] = "count" THEN c ELSE 0
    <3>1. all \in Seq(ServerKinds) /\ all # <<>>
      BY <1>1
    <3> QED BY <2>1, <3>1, StreamUnits, SMTT(30)
  <2>3. N = c + r + 3
    BY <1>1
  <2> HIDE DEF N, s
  <2> QED BY <2>2, <2>3
<1>3. s \in Seq(Units)
  <2>1. c \in Nat /\ last \in {"eof", "err"}
    BY DEF Lasts
  <2> QED BY <2>1, ResultSetKinds DEF all
<1> HIDE DEF s
<1>4. e \in 1..Len(s) /\ e + 2 <= Len(s) /\ s[e].part = "body" /\ e >= 2 + 2
  <2>1. e \in 1..Len(s) /\ e + 2 <= Len(s) /\ e >= 2 + 2 /\ c + 2 \in 1..(c + r + 3)
    BY <1>2
  <2> QED BY <1>2, <2>1
<1>5. ASSUME NEW i \in 1..Len(s)
      PROVE  IF i <= 2 THEN s[i].kind = "count" /\ s[i].n > 0
             ELSE IF i <= e - 2 THEN s[i].kind = "column"
             ELSE IF i <= e THEN s[i].kind = "eof"
             ELSE IF i <= Len(s) - 2 THEN s[i].kind = "row"
             ELSE s[i].kind \in Lasts
  <2>1. PICK p \in 1..(c + r + 3) : i \in {2 * p - 1, 2 * p}
    <3>1. i \in 1..(2 * (c + r + 3)) /\ c + r + 3 \in Nat
      BY <1>2
    <3>2. /\ (i + 1) \div 2 \in 1..(c + r + 3)
          /\ i \in {2 * ((i + 1) \div 2) - 1, 2 * ((i + 1) \div 2)}
      BY <3>1
    <3> QED BY <3>2
  <2>2. /\ i <= 2 <=> p <= 1
        /\ i <= e - 2 <=> p <= c + 1
        /\ i <= e <=> p <= c + 2
        /\ i <= Len(s) - 2 <=> p <= c + r + 2
    BY <1>2, <2>1
  <2>3. s[i].kind = all[p] /\ s[i].n = IF all[p] = "count" THEN c ELSE 0
    BY <1>2, <2>1
  <2>4. p \in Nat /\ c > 0
    OBVIOUS
  <2> HIDE DEF e
  <2>5. CASE p <= 1
    BY <1>1, <2>2, <2>3, <2>4, <2>5
  <2>6. CASE p > 1 /\ p <= c + 1
    BY <1>1, <2>2, <2>3, <2>4, <2>6
  <2>7. CASE p > c + 1 /\ p <= c + 2
    BY <1>1, <2>2, <2>3, <2>4, <2>7
  <2>8. CASE p > c + 2 /\ p <= c + r + 2
    BY <1>1, <2>2, <2>3, <2>4, <2>8
  <2>9. CASE p > c + r + 2
    BY <1>1, <2>2, <2>3, <2>4, <2>9
  <2> QED BY <2>4, <2>5, <2>6, <2>7, <2>8, <2>9
<1> HIDE DEF e
<1>6. ResultKinds(s, 2, e)
  BY <1>4, <1>5 DEF ResultKinds
<1>7. ResultKinds(s, 2 - 0, e)
  BY <1>6
<1> QED BY <1>2, <1>3, <1>4, <1>7 DEF ReplyLeft, s, all

----------------------------------------------------------------------------
(* What is in the buffer and behind it.                                    *)
LEMMA Together ==
  ASSUME NEW b \in Seq(Units), NEW t \in Seq(Units)
  PROVE  /\ b \o t \in Seq(Units) /\ Len(b \o t) = Len(b) + Len(t)
         /\ b \o t = <<>> <=> b = <<>> /\ t = <<>>
         /\ b = <<>> => b \o t = t
         /\ t = <<>> => b \o t = b
         /\ b # <<>> => Head(b \o t) = Head(b) /\ Tail(b \o t) = Tail(b) \o t
<1>1. /\ b \o t \in Seq(Units) /\ Len(b \o t) = Len(b) + Len(t)
      /\ \A i \in 1..(Len(b) + Len(t)) :
           (b \o t)[i] = IF i <= Len(b) THEN b[i] ELSE t[i - Len(b)]
  BY ConcatProperties
<1>2. /\ b \o t = <<>> <=> b = <<>> /\ t = <<>>
      /\ b = <<>> => b \o t = t
      /\ t = <<>> => b \o t = b
  BY ConcatEmptySeq, ConcatEqualIffEmpty
<1>3. ASSUME b # <<>>
      PROVE  Head(b \o t) = Head(b) /\ Tail(b \o t) = Tail(b) \o t
  <2> DEFINE u == b \o t
             v == Tail(b) \o t
  <2>1. /\ Head(b) = b[1] /\ Tail(b) \in Seq(Units) /\ Len(b) \in Nat /\ Len(b) >= 1
        /\ Len(Tail(b)) = Len(b) - 1
        /\ \A i \in 1..(Len(b) - 1) : Tail(b)[i] = b[i + 1]
    BY <1>3, Behind
  <2>2. /\ v \in Seq(Units) /\ Len(v) = Len(Tail(b)) + Len(t)
        /\ \A i \in 1..(Len(Tail(b)) + Len(t)) :
             v[i] = IF i <= Len(Tail(b)) THEN Tail(b)[i] ELSE t[i - Len(Tail(b))]
    BY <2>1, ConcatProperties
  <2>3. /\ u # <<>> /\ u \in Seq(Units) /\ Len(t) \in Nat
    BY <1>1, <1>2, <1>3, LenProperties
  <2>4. /\ Head(u) = u[1] /\ Tail(u) \in Seq(Units) /\ Len(Tail(u)) = Len(u) - 1
        /\ \A i \in 1..(Len(u) - 1) : Tail(u)[i] = u[i + 1]
    BY <2>3, Behind
  <2> HIDE DEF v
  <2>5. Head(u) = Head(b) /\ Len(Tail(u)) = Len(v)
    BY <1>1, <2>1, <2>2, <2>3, <2>4
  <2>6. ASSUME NEW i \in 1..Len(Tail(u))
        PROVE  Tail(u)[i] = v[i]
    <3>1. /\ i \in 1..(Len(u) - 1) /\ i + 1 \in 1..(Len(b) + Len(t))
          /\ i \in 1..(Len(Tail(b)) + Len(t))
          /\ i + 1 <= Len(b) <=> i <= Len(Tail(b))
          /\ (i + 1) - Len(b) = i - Len(Tail(b))
          /\ i <= Len(Tail(b)) => i \in 1..(Len(b) - 1)
      BY <1>1, <2>1, <2>3, <2>4
    <3>2. Tail(u)[i] = u[i + 1]
      BY <2>4, <3>1
    <3>3. u[i + 1] = IF i + 1 <= Len(b) THEN b[i + 1] ELSE t[(i + 1) - Len(b)]
      BY <1>1, <3>1
    <3>4. v[i] = IF i <= Len(Tail(b)) THEN Tail(b)[i] ELSE t[i - Len(Tail(b))]
      BY <2>2, <3>1
    <3>5. i <= Len(Tail(b)) => Tail(b)[i] = b[i + 1]
      BY <2>1, <3>1
    <3> QED BY <3>1, <3>2, <3>3, <3>4, <3>5
  <2>7. Tail(u) = v
    BY <2>2, <2>4, <2>5, <2>6, SeqEqual
  <2> QED BY <2>5, <2>7 DEF u, v
<1> QED BY <1>1, <1>2, <1>3

LEMMA Regroup ==
  ASSUME NEW b \in Seq(Units), NEW a \in Seq(Units), NEW c \in Seq(Units)
  PROVE  (b \o a) \o c = b \o (a \o c)
<1> DEFINE u == (b \o a) \o c
           v == b \o (a \o c)
<1>1. u \in Seq(Units) /\ v \in Seq(Units) /\ Len(u) = Len(v)
  OBVIOUS
<1>2. \A i \in 1..Len(u) : u[i] = v[i]
  OBVIOUS
<1> HIDE DEF u, v
<1>3. u = v
  BY <1>1, <1>2, SeqEqual
<1> QED BY <1>3 DEF u, v

(* What has been received is what was on its way.                          *)
LEMMA Received ==
  ASSUME NEW b \in Seq(Units), NEW t \in Seq(Units), NEW n \in 1..Len(t)
  PROVE  (b \o SubSeq(t, 1, n)) \o SubSeq(t, n + 1, Len(t)) = b \o t
<1>1. SubSeq(t, 1, n) \in Seq(Units) /\ SubSeq(t, n + 1, Len(t)) \in Seq(Units)
  BY CutKinds
<1>2. SubSeq(t, 1, n) \o SubSeq(t, n + 1, Len(t)) = t
  <2>1. Len(t) \in Nat /\ 1 \in 1..(Len(t) + 1) /\ n \in 0..Len(t) /\ Len(t) \in n..Len(t)
        /\ 1 - 1 = 0
    BY LenProperties
  <2>2. SubSeq(t, 1, n) \o SubSeq(t, n + 1, Len(t)) = SubSeq(t, 1, Len(t))
    BY <2>1, ConcatAdjacentSubSeq
  <2>3. SubSeq(t, 1, Len(t)) = t
    BY SubSeqFull
  <2> QED BY <2>2, <2>3
<1> DEFINE a == SubSeq(t, 1, n)
           c == SubSeq(t, n + 1, Len(t))
<1>3. a \in Seq(Units) /\ c \in Seq(Units) /\ a \o c = t
  BY <1>1, <1>2
<1> HIDE DEF a, c
<1>4. (b \o a) \o c = b \o t
  <2>1. (b \o a) \o c = b \o (a \o c)
    <3>1. a \in Seq(Units) /\ c \in Seq(Units)
      BY <1>3
    <3> QED BY <3>1, Regroup
  <2> QED BY <1>3, <2>1, Zenon
<1> QED BY <1>4 DEF a, c

----------------------------------------------------------------------------
(* The classes of stacks.                                                  *)

(* The states that read a packet.                                          *)
LEMMA ReadingClasses ==
  ASSUME NEW g \in Parsers \ {"field_read"}, NEW s \in Reading(g)
  PROVE  /\ s # <<>> /\ Head(s) \in {"packet_read", "read"}
         /\ \A h : s # <<h>>
         /\ \A h : s \in Reading(h) <=> h = g
         /\ \A h : s \in ReaderStates(h) <=> h = g
         /\ s \in CommandStates <=> g = "result_read"
         /\ s \in ConnectStates <=> g = "handshake_server_read"
         /\ s \in HandshakeStates <=> g = "handshake_result_read"
         /\ s # <<"read", "field_read">>
<1>1. s = <<"packet_read", g>> \/ s = <<"read", "packet_read", g>>
  BY DEF Reading
<1>2. s \in ReaderStates(g)
  BY <1>1 DEF ReaderStates
<1>3. /\ s # <<>> /\ Head(s) \in {"packet_read", "read"}
      /\ \A h : s # <<h>>
      /\ s # <<"read", "field_read">>
  <2>1. g # "field_read"
    OBVIOUS
  <2> QED BY <1>1, <2>1
<1>4. \A h : s \in Reading(h) <=> h = g
  BY <1>1 DEF Reading
<1>5. \A h : s \in ReaderStates(h) <=> h = g
  BY <1>1, <1>3, <1>4 DEF ReaderStates, Reading
<1> QED BY <1>2, <1>3, <1>4, <1>5, ReaderClasses

(* A parser alone.                                                         *)
LEMMA AloneClasses ==
  ASSUME NEW g \in Parsers
  PROVE  /\ <<g>> # <<>> /\ Head(<<g>>) = g /\ Tail(<<g>>) = <<>>
         /\ \A h : <<g>> = <<h>> <=> h = g
         /\ \A h : <<g>> \notin Reading(h)
         /\ \A h : <<g>> \in ReaderStates(h) <=> h = g
         /\ <<g>> \in CommandStates <=> g = "result_read"
         /\ <<g>> \in ConnectStates <=> g = "handshake_server_read"
         /\ <<g>> \in HandshakeStates <=> g = "handshake_result_read"
         /\ <<g>> # <<"read", "field_read">>
<1>1. /\ <<g>> # <<>> /\ Head(<<g>>) = g /\ Tail(<<g>>) = <<>>
      /\ \A h : <<g>> = <<h>> <=> h = g
      /\ <<g>> # <<"read", "field_read">>
  OBVIOUS
<1>2. \A h : <<g>> \notin Reading(h)
  BY DEF Reading
<1>3. \A h : <<g>> \in ReaderStates(h) <=> h = g
  BY <1>1 DEF ReaderStates
<1>4. CASE g = "field_read"
  BY <1>1, <1>2, <1>3, <1>4, ReaderClasses
<1>5. CASE g # "field_read"
  <2>1. g \in Parsers \ {"field_read"} /\ <<g>> \in ReaderStates(g)
    BY <1>3, <1>5
  <2> QED BY <1>1, <1>2, <1>3, <2>1, ReaderClasses
<1> QED BY <1>4, <1>5

(* The states that write, and none.                                        *)
Writers ==
  {<<"command_write">>, <<"write">>, <<"write", "command_write">>,
   <<"write", "packet_read", "result_read">>,
   <<"write", "packet_read", "handshake_result_read">>,
   <<"handshake_client_write", "write", "packet_read", "handshake_result_read">>, <<>>}

LEMMA WriterClasses ==
  ASSUME NEW s \in Writers
  PROVE  /\ \A h \in Parsers : s # <<h>> /\ s \notin Reading(h) /\ s \notin ReaderStates(h)
         /\ s # <<"read", "field_read">> /\ s # <<"read">>
         /\ s \in CommandStates
              <=> s \in {<<"command_write">>, <<"write">>, <<"write", "command_write">>,
                         <<"write", "packet_read", "result_read">>}
         /\ s \in HandshakeStates
              <=> s \in {<<"write", "packet_read", "handshake_result_read">>,
                         <<"handshake_client_write", "write", "packet_read",
                           "handshake_result_read">>}
         /\ s \notin ConnectStates
<1>1. /\ \A h \in Parsers : s # <<h>>
      /\ s # <<"read", "field_read">> /\ s # <<"read">>
  BY DEF Writers, Parsers
<1>2. \A h \in Parsers : s \notin Reading(h)
  BY DEF Writers, Parsers, Reading
<1>3. \A h \in Parsers : s \notin ReaderStates(h)
  BY <1>1, <1>2 DEF Reading, ReaderStates
<1>4. /\ "result_read" \in Parsers /\ "handshake_result_read" \in Parsers
  BY DEF Parsers
<1>5. /\ s \in CommandStates
           <=> s \in {<<"command_write">>, <<"write">>, <<"write", "command_write">>,
                      <<"write", "packet_read", "result_read">>}
  BY <1>3, <1>4 DEF CommandStates
<1>6. s \in HandshakeStates
        <=> s \in {<<"write", "packet_read", "handshake_result_read">>,
                   <<"handshake_client_write", "write", "packet_read",
                     "handshake_result_read">>}
  BY <1>3, <1>4 DEF HandshakeStates
<1>7. s \notin ConnectStates
  BY DEF Writers, ConnectStates
<1> QED BY <1>1, <1>2, <1>3, <1>5, <1>6, <1>7

----------------------------------------------------------------------------
(* Steps in general.                                                       *)

(* What is on its way to the library, and in its buffer.                   *)
LEMMA SaidTyped ==
  ASSUME StackInvariant
  PROVE  /\ Said \in Seq(Units) /\ buf \in Seq(Units) /\ s2c \in Seq(Units)
         /\ Silent <=> Said = <<>>
         /\ buf # <<>> => Said # <<>> /\ Head(Said) = Head(buf)
         /\ buf # <<>> /\ buf' = Tail(buf) /\ s2c' = s2c => Said' = Tail(Said)
         /\ buf' = buf /\ s2c' = s2c => Said' = Said /\ (Silent' <=> Silent)
<1>1. buf \in Seq(Units) /\ s2c \in Seq(Units)
  BY DEF StackInvariant, TypeOK, ConnectionTypeOK, PeerTypeOK
<1>2. /\ buf \o s2c \in Seq(Units)
      /\ buf \o s2c = <<>> <=> buf = <<>> /\ s2c = <<>>
      /\ buf # <<>> => Head(buf \o s2c) = Head(buf) /\ Tail(buf \o s2c) = Tail(buf) \o s2c
  BY <1>1, Together
<1> QED BY <1>1, <1>2 DEF Said, Silent

LEMMA NowSaid ==
  ASSUME StackInvariant'
  PROVE  /\ Said' \in Seq(Units)
         /\ Silent' <=> Said' = <<>>
<1>1. buf' \in Seq(Units) /\ s2c' \in Seq(Units)
  BY DEF StackInvariant, TypeOK, ConnectionTypeOK, PeerTypeOK
<1>2. /\ buf' \o s2c' \in Seq(Units)
      /\ buf' \o s2c' = <<>> <=> buf' = <<>> /\ s2c' = <<>>
  BY <1>1, Together
<1> QED BY <1>2 DEF Said, Silent

(* A connection that is closed, or about to be, says nothing.              *)
LEMMA Vacuous ==
  ASSUME SessionInvariant', Closing' \/ sock' # "connected"
  PROVE  ReplyInOrder' /\ Requests' /\ HandshakeInOrder'
<1>1. sock' # "connected" => ~ ready'
  BY DEF SessionInvariant, CleanApart, Clean
<1> QED BY <1>1 DEF ReplyInOrder, Requests, HandshakeInOrder

(* The call goes on.                                                       *)
LEMMA CallsGoOn ==
  ASSUME CallsMatch, pc \in {"loop", "wait", "stop", "leave"},
         pc' \in {"loop", "wait", "stop", "leave"},
         UNCHANGED <<op, inConnect, stage>>,
         Connecting' => Connecting,
         sock' # "connected" => c2s' = <<>>,
         stage = "columns" => result'.columns = result.columns,
         stage = "rows" => result'.buffered = result.buffered,
         Top({"field_read"})' => pc' = "loop" /\ op = "fields" /\ ready',
         ready' /\ inConnect => stack' = <<>>
  PROVE  CallsMatch'
<1>1. InCall /\ InCall' /\ pc \notin {"app", "again", "freed"}
      /\ pc' \notin {"app", "again", "freed"}
  BY DEF InCall
<1>2. Connecting' => stage' = "done" /\ inConnect'
  BY <1>1 DEF CallsMatch
<1>3. /\ op' \in Asks \cup {"columns", "row", "fields"}
      /\ op' \in Asks <=> stage' = "done"
      /\ op' = "columns" <=> stage' = "columns"
      /\ inConnect' => op' \in Asks
      /\ op' = "connect" => inConnect'
  BY <1>1 DEF CallsMatch
<1>4. /\ stage' = "columns" => result'.columns > 0
      /\ stage' = "rows" => result'.buffered
  BY DEF CallsMatch
<1> QED BY <1>1, <1>2, <1>3, <1>4 DEF CallsMatch

(* Nothing is said, read or sent, and the states stay on the stack.        *)
LEMMA Stays ==
  ASSUME StackInvariant, StackInvariant', PacketInvariant,
         UNCHANGED <<stack, sock, ready, packet_number, packet_size, buf, s2c, c2s, command>>,
         stack # <<>>, ~ Closing,
         ready /\ ~ Closing' =>
            /\ op' = op
            /\ pc' # "app" /\ (pc' \in {"stop", "leave"} => rc' \notin {"ERROR_CODE", "NOT_READY"})
            /\ ~ result'.skip
            /\ op = "columns" /\ result.column => result'.column
            /\ op = "fields" => result'.row_current = result.row_current
            /\ op # "row" /\ result.columns = 0 => result'.columns = 0
  PROVE  ReplyInOrder' /\ Requests' /\ HandshakeInOrder'
<1> USE DEF PacketInvariant
<1>1. Said' = Said /\ (Silent' <=> Silent)
  BY SaidTyped
<1>2. /\ \A taken, kinds, k : OneAhead(taken, kinds, k)' = OneAhead(taken, kinds, k)
      /\ \A taken : RowsAhead(taken)' = RowsAhead(taken)
      /\ \A taken : ColumnsAhead(taken)' = ColumnsAhead(taken)
      /\ \A taken : ReplyAhead(taken)' = ReplyAhead(taken)
      /\ FieldsAhead' = FieldsAhead
  BY <1>1 DEF OneAhead, RowsAhead, ColumnsAhead, ReplyAhead, FieldsAhead
<1>3. ReplyInOrder'
  <2> SUFFICES ASSUME ready', ~ Closing' PROVE ReplyInOrder'
    BY DEF ReplyInOrder, Complaining
  <2>1. stack = <<"field_read">> => op = "fields"
    BY DEF CallsMatch, Top
  <2> QED BY <1>1, <1>2, <2>1 DEF ReplyInOrder, Complaining
<1>4. Requests'
  <2> SUFFICES ASSUME ready', ~ Closing' PROVE Requests'
    BY DEF Requests
  <2>1. \A s : Asked(s)' = Asked(s)
    BY DEF Asked
  <2>2. Top({"write"})' = Top({"write"}) /\ Top({"command_write"})' = Top({"command_write"})
    BY DEF Top
  <2> QED BY <1>1, <2>1, <2>2 DEF Requests
<1>5. HandshakeInOrder'
  <2>1. \A s : Login(s)' = Login(s)
    BY DEF Login
  <2>2. Top({"write"})' = Top({"write"})
        /\ Top({"handshake_client_write"})' = Top({"handshake_client_write"})
    BY DEF Top
  <2> QED BY <1>1, <1>2, <2>1, <2>2 DEF HandshakeInOrder
<1> QED BY <1>3, <1>4, <1>5

----------------------------------------------------------------------------
(* Connecting.                                                             *)

(* What PacketInvariant rests on, with itself.                             *)
Sound == StackInvariant /\ SessionInvariant /\ PacketInvariant

(* While there is no packet to read for a handshake.                       *)
LEMMA Unbegun ==
  ASSUME ~ ready', stack' # <<>>, Head(stack') \in {"addrinfo", "connect"}
  PROVE  ReplyInOrder' /\ Requests' /\ HandshakeInOrder'
<1>1. /\ \A h \in Parsers : stack' # <<h>> /\ stack' \notin Reading(h)
      /\ stack' # <<"connecting", "packet_read", "handshake_server_read">>
      /\ ~ Top({"write"})' /\ ~ Top({"handshake_client_write"})'
  <2>1. \A h \in Parsers : Head(<<h>>) = h /\ h \notin {"addrinfo", "connect"}
    BY DEF Parsers
  <2>2. /\ Head(<<"connecting", "packet_read", "handshake_server_read">>) = "connecting"
        /\ \A h : Head(<<"packet_read", h>>) = "packet_read"
        /\ \A h : Head(<<"read", "packet_read", h>>) = "read"
    OBVIOUS
  <2> QED BY <2>1, <2>2 DEF Top, Reading
<1>2. "handshake_server_read" \in Parsers /\ "handshake_result_read" \in Parsers
  BY DEF Parsers
<1> QED BY <1>1, <1>2 DEF ReplyInOrder, Requests, HandshakeInOrder

LEMMA AddrinfoPackets ==
  ASSUME Sound, StackInvariant', SessionInvariant', drizzle_state_addrinfo
  PROVE  PacketInvariant'
<1> USE DEF Sound
<1>1. /\ pc = "loop" /\ stack # <<>>
      /\ stack = <<"addrinfo", "connect", "packet_read", "handshake_server_read">>
  BY Shapes DEF drizzle_state_addrinfo, Running, StackInvariant, WellFormedStack
<1>2. /\ Tail(stack) = <<"connect", "packet_read", "handshake_server_read">>
      /\ stack' \in {stack, Tail(stack)} /\ pc' \in {"loop", "stop"}
      /\ UNCHANGED <<op, inConnect, stage, result, sock, c2s, ready>>
  BY <1>1 DEF drizzle_state_addrinfo, Pop, Continue, Return, Others, callVars, appVars,
     cmdVars, ioVars, conVars
<1>3. stack \in ConnectStates /\ ~ ready
  BY <1>1 DEF ConnectStates, SessionInvariant, StackTellsReady
<1>4. stack' # <<>> /\ Head(stack') \in {"addrinfo", "connect"}
  BY <1>1, <1>2
<1>5. ~ Top({"field_read"})' /\ Connecting
  BY <1>3, <1>4 DEF Top, Connecting
<1>6. sock # "connected" => c2s = <<>>
  BY DEF PacketInvariant, CallsMatch
<1>7. CallsMatch'
  BY <1>1, <1>2, <1>3, <1>5, <1>6, CallsGoOn DEF PacketInvariant
<1> QED BY <1>2, <1>3, <1>4, <1>7, Unbegun DEF PacketInvariant

(* A connection that was just made has nothing said on it.                 *)
LEMMA Fresh ==
  ASSUME ~ ready', Silent', c2s' = <<>>, packet_number' = 0,
         stack' \in {<<"packet_read", "handshake_server_read">>,
                     <<"connecting", "packet_read", "handshake_server_read">>}
  PROVE  ReplyInOrder' /\ Requests' /\ HandshakeInOrder'
<1>1. /\ stack' # <<"handshake_server_read">> /\ stack' # <<"handshake_result_read">>
      /\ ~ Top({"write"})' /\ ~ Top({"handshake_client_write"})'
      /\ stack' \notin Reading("handshake_result_read")
  BY DEF Top, Reading
<1> QED BY <1>1 DEF ReplyInOrder, Requests, HandshakeInOrder

LEMMA ConnectPackets ==
  ASSUME CallbackAccepts, Sound, StackInvariant', SessionInvariant', drizzle_state_connect
  PROVE  PacketInvariant'
<1> USE DEF Sound
<1>1. /\ pc = "loop" /\ Clean' /\ s2c' = <<>>
      /\ stack = <<"connect", "packet_read", "handshake_server_read">>
      /\ server' = "none" => sock' # "connected"
      /\ \/ /\ stack' \in {<<"packet_read", "handshake_server_read">>, stack,
                           <<"connecting", "packet_read", "handshake_server_read">>}
            /\ pc' = "loop" \/ (pc' = "stop" /\ rc' = "COULD_NOT_CONNECT")
         \/ stack' = <<>> /\ pc' = "stop" /\ rc' = "COULD_NOT_CONNECT"
  BY ConnectEffect
<1>2. UNCHANGED <<op, inConnect, stage, result>>
  BY DEF drizzle_state_connect, Others, callVars, appVars, cmdVars
<1>3. c2s' = <<>>
  BY DEF drizzle_state_connect, ConnectUds, NoAddressLeft, ConnectFails, SetSockOptFails,
     ConnectAtOnce, ConnectRefused, ConnectInProgress, NewSocket
<1>4. ~ ready' /\ Silent' /\ packet_number' = 0
  BY <1>1 DEF Clean, Silent
<1>5. /\ stack \in ConnectStates /\ Connecting
      /\ ~ Top({"field_read"})' /\ (Connecting' => Connecting)
  BY <1>1 DEF ConnectStates, Connecting, Top
<1>6. CallsMatch'
  BY <1>1, <1>2, <1>3, <1>4, <1>5, CallsGoOn DEF PacketInvariant
<1>7. CASE stack' = stack
  <2>1. stack' # <<>> /\ Head(stack') = "connect"
    BY <1>1, <1>7
  <2> QED BY <1>4, <1>6, <2>1, Unbegun DEF PacketInvariant
<1>8. CASE stack' \in {<<"packet_read", "handshake_server_read">>,
                       <<"connecting", "packet_read", "handshake_server_read">>}
  BY <1>3, <1>4, <1>6, <1>8, Fresh DEF PacketInvariant
<1>9. CASE pc' = "stop" /\ rc' = "COULD_NOT_CONNECT"
  BY <1>6, <1>9, Vacuous DEF Closing, Resumable, PacketInvariant
<1> QED BY <1>1, <1>7, <1>8, <1>9

(* The handler that waits for a connect() finds what has come of it.       *)
LEMMA ConnectingPackets ==
  ASSUME Sound, StackInvariant', SessionInvariant', drizzle_state_connecting
  PROVE  PacketInvariant'
<1> USE DEF Sound
<1>1. /\ pc = "loop" /\ stack # <<>> /\ Head(stack) = "connecting"
      /\ stack = <<"connecting", "packet_read", "handshake_server_read">>
  BY Shapes DEF drizzle_state_connecting, Running, StackInvariant, WellFormedStack,
     SessionInvariant, StackTellsReady
<1>2. stack \in ConnectStates /\ ~ ready /\ Connecting
  BY <1>1 DEF ConnectStates, SessionInvariant, StackTellsReady, Connecting
<1>3. /\ Tail(stack) = <<"packet_read", "handshake_server_read">>
      /\ <<"connect">> \o Tail(stack) = <<"connect", "packet_read", "handshake_server_read">>
  <2>1. /\ "connect" \in Handlers /\ "packet_read" \in Handlers
        /\ "handshake_server_read" \in Handlers
    BY DEF Handlers
  <2>2. <<"connect">> \o <<"packet_read", "handshake_server_read">>
        = <<"connect", "packet_read", "handshake_server_read">>
    BY <2>1, Extensions
  <2>3. Tail(stack) = <<"packet_read", "handshake_server_read">>
    BY <1>1
  <2> QED BY <2>2, <2>3
<1>4. UNCHANGED <<op, inConnect, stage, result, command, packet_size>>
  BY DEF drizzle_state_connecting, Others, callVars, appVars, cmdVars
<1>5. \/ /\ UNCHANGED <<sock, ready, packet_number, buf, s2c, c2s>>
         /\ \/ stack' = Tail(stack) /\ pc' = "loop"
            \/ stack' = Tail(stack) /\ pc' = "stop" /\ rc' = "INTERNAL_ERROR"
            \/ stack' = <<"connect", "packet_read", "handshake_server_read">> /\ pc' = "loop"
            \/ stack' = stack /\ pc' = "stop" /\ rc' = "IO_WAIT"
      \/ drizzle_close /\ pc' = "stop"
  <2>1. CASE revents \cap {"OUT", "ERR"} # {}
    <3>1. UNCHANGED <<ioVars, conVars, pollVars, buf>>
      BY <2>1 DEF drizzle_state_connecting
    <3>2. \/ Pop /\ Return("INTERNAL_ERROR")
          \/ Pop /\ Continue
          \/ TryNextAddress
      BY <2>1 DEF drizzle_state_connecting
    <3>3. \/ stack' = Tail(stack) /\ pc' = "loop"
          \/ stack' = Tail(stack) /\ pc' = "stop" /\ rc' = "INTERNAL_ERROR"
          \/ stack' = <<"connect", "packet_read", "handshake_server_read">> /\ pc' = "loop"
      BY <1>1, <1>3, <3>2 DEF Pop, Return, Continue, TryNextAddress, Replace
    <3> QED BY <3>1, <3>3 DEF ioVars, conVars
  <2>2. CASE revents \cap {"OUT", "ERR"} = {} /\ "NVAL" \in revents
    <3>1. UNCHANGED <<ioVars, conVars, events, buf>> /\ TryNextAddress
      BY <2>2 DEF drizzle_state_connecting
    <3>2. stack' = <<"connect", "packet_read", "handshake_server_read">> /\ pc' = "loop"
      BY <1>1, <1>3, <3>1 DEF Continue, TryNextAddress, Replace
    <3> QED BY <3>1, <3>2 DEF ioVars, conVars
  <2>3. CASE WaitFor({"OUT"}, {}, Yield)
    BY <2>3 DEF WaitFor, Yield, Return, conVars
  <2> QED BY <2>1, <2>2, <2>3 DEF drizzle_state_connecting
<1>6. CASE drizzle_close /\ pc' = "stop"
  <2>1. sock' = "invalid" /\ (stack' = <<>> \/ stack' = stack)
    BY <1>6, CloseCleans DEF SessionInvariant
  <2>2. c2s' = <<>>
    BY <1>6 DEF drizzle_close, Hangup, ioVars, PacketInvariant, CallsMatch
  <2>3. ~ Top({"field_read"})' /\ ~ ready'
    BY <1>1, <2>1 DEF Top, SessionInvariant, CleanApart, Clean
  <2>4. CallsMatch'
    BY <1>1, <1>2, <1>4, <1>6, <2>2, <2>3, CallsGoOn DEF PacketInvariant
  <2> QED BY <2>1, <2>4, Vacuous DEF PacketInvariant
<1>7. CASE /\ UNCHANGED <<sock, ready, packet_number, buf, s2c, c2s>>
           /\ \/ stack' = Tail(stack) /\ pc' = "loop"
              \/ stack' = Tail(stack) /\ pc' = "stop" /\ rc' = "INTERNAL_ERROR"
              \/ stack' = <<"connect", "packet_read", "handshake_server_read">> /\ pc' = "loop"
              \/ stack' = stack /\ pc' = "stop" /\ rc' = "IO_WAIT"
  <2>1. stack' # <<>> /\ ~ Top({"field_read"})'
    BY <1>1, <1>3, <1>7 DEF Top
  <2>2. sock # "connected" => c2s = <<>>
    BY DEF PacketInvariant, CallsMatch
  <2>3. CallsMatch'
    BY <1>1, <1>2, <1>4, <1>7, <2>1, <2>2, CallsGoOn DEF PacketInvariant
  <2>4. CASE stack' = Tail(stack) /\ pc' = "loop"
    <3>1. CASE sock = "connected"
      <4>1. /\ c2s = <<>>
            /\ \/ Silent /\ packet_number = 0
               \/ OneAhead(0, {"greeting", "refusal", "err"}, 0)
        BY <1>1, <1>2, <3>1 DEF PacketInvariant, HandshakeInOrder, Closing
      <4>2. OneAhead(0, {"greeting", "refusal", "err"}, 0)
              => OneAhead(0, {"greeting", "refusal", "err"}, 0)'
        BY <1>7 DEF OneAhead, Said
      <4>3. Silent => Silent'
        BY <1>7 DEF Silent
      <4>4. /\ stack' # <<"handshake_server_read">> /\ stack' # <<"handshake_result_read">>
            /\ ~ Top({"write"})' /\ ~ Top({"handshake_client_write"})'
            /\ stack' \notin Reading("handshake_result_read")
        <5>1. stack' \in Reading("handshake_server_read")
          BY <1>3, <2>4 DEF Reading
        <5>2. "handshake_server_read" \in Parsers \ {"field_read"}
          BY DEF Parsers
        <5> QED BY <5>1, <5>2, ReadingClasses DEF Top
      <4> QED BY <1>2, <1>7, <2>3, <4>1, <4>2, <4>3, <4>4
              DEF ReplyInOrder, Requests, HandshakeInOrder, PacketInvariant
    <3>2. CASE sock # "connected"
      BY <1>7, <2>3, <3>2, Vacuous DEF PacketInvariant
    <3> QED BY <3>1, <3>2
  <2>5. CASE pc' = "stop" /\ rc' = "INTERNAL_ERROR"
    BY <2>3, <2>5, Vacuous DEF Closing, Resumable, PacketInvariant
  <2>6. CASE stack' = <<"connect", "packet_read", "handshake_server_read">>
    <3>1. stack' # <<>> /\ Head(stack') = "connect"
      BY <2>6
    <3> QED BY <1>2, <1>7, <2>3, <3>1, Unbegun DEF PacketInvariant
  <2>7. CASE stack' = stack
    BY <1>1, <1>2, <1>4, <1>7, <2>3, <2>7, Stays DEF Closing, PacketInvariant
  <2> QED BY <1>7, <2>4, <2>5, <2>6, <2>7
<1> QED BY <1>5, <1>6, <1>7

----------------------------------------------------------------------------
(* Waiting, and closing.                                                   *)

(* drizzle_close ends whatever was going on.                               *)
LEMMA ClosePackets ==
  ASSUME Sound, StackInvariant', SessionInvariant', drizzle_close,
         pc \in {"loop", "wait", "stop"}, pc' \in {"stop", "leave"},
         UNCHANGED <<op, inConnect, stage, result>>, ~ Top({"field_read"})
  PROVE  PacketInvariant'
<1> USE DEF Sound
<1>1. sock' = "invalid" /\ ~ ready' /\ (stack' = <<>> \/ stack' = stack)
  BY CloseCleans DEF SessionInvariant, Clean
<1>2. c2s' = <<>>
  BY DEF drizzle_close, Hangup, ioVars, PacketInvariant, CallsMatch
<1>3. (Connecting' => Connecting) /\ ~ Top({"field_read"})'
  BY <1>1, ConnectClasses DEF Connecting, Top
<1>4. CallsMatch'
  BY <1>1, <1>2, <1>3, CallsGoOn DEF PacketInvariant
<1> QED BY <1>1, <1>4, Vacuous DEF PacketInvariant

(* A handler that cannot go on waits, or closes because event_watch_fn     *)
(* refuses to.                                                             *)
LEMMA WaitPackets ==
  ASSUME Sound, StackInvariant', SessionInvariant', pc = "loop", stack # <<>>,
         ~ Top({"field_read"}), NEW ev, NEW rev,
         WaitFor(ev, rev, Yield) \/ WaitFor(ev, rev, Block),
         UNCHANGED <<packet_size, result, command, op, inConnect, stage>>
  PROVE  PacketInvariant'
<1> USE DEF Sound
<1>1. CASE drizzle_close /\ pc' = "stop"
  BY <1>1, ClosePackets
<1>2. CASE /\ UNCHANGED <<stack, sock, s2c, c2s, ready, packet_number, buf>>
           /\ pc' = "wait" \/ (pc' = "stop" /\ rc' = "IO_WAIT")
  <2>1. /\ (Connecting' => Connecting) /\ ~ Top({"field_read"})'
        /\ (sock # "connected" => c2s = <<>>)
        /\ (ready /\ inConnect => stack = <<>>)
    BY <1>2 DEF Connecting, Top, PacketInvariant, CallsMatch
  <2>2. CallsMatch'
    BY <1>2, <2>1, CallsGoOn DEF PacketInvariant
  <2>3. ready => ~ result.skip
    BY DEF PacketInvariant, ReplyInOrder, Closing
  <2>4. ReplyInOrder' /\ Requests' /\ HandshakeInOrder'
    BY <1>2, <2>3, Stays DEF Closing
  <2> QED BY <2>2, <2>4 DEF PacketInvariant
<1>3. \/ drizzle_close /\ pc' = "stop"
      \/ /\ UNCHANGED <<stack, sock, s2c, c2s, ready, packet_number, buf>>
         /\ pc' = "wait" \/ (pc' = "stop" /\ rc' = "IO_WAIT")
  BY DEF WaitFor, Yield, Block, Return, conVars
<1> QED BY <1>1, <1>2, <1>3

----------------------------------------------------------------------------
(* Reading.                                                                *)

(* On a connected socket the stack tells whether it is being set up.       *)
LEMMA ConnectingGoesOn ==
  ASSUME Sound, SessionInvariant', pc = "loop", sock = "connected", ready' = ready
  PROVE  Connecting' => Connecting
BY DEF Sound, SessionInvariant, StackTellsReady, Closing, Connecting

(* What is read is at the end of what has been said.                       *)
LEMMA StillReading ==
  ASSUME Sound, StackInvariant', SessionInvariant',
         NEW h \in Parsers \ {"field_read"}, stack \in Reading(h), stack' \in Reading(h),
         Said' = Said, UNCHANGED <<sock, ready, packet_number, c2s, result, command, op>>,
         pc = "loop", pc' = "loop"
  PROVE  ReplyInOrder' /\ Requests' /\ HandshakeInOrder'
<1> USE DEF Sound, PacketInvariant
<1>1. Silent' <=> Silent
  BY SaidTyped, NowSaid
<1>2. /\ \A taken, kinds, k : OneAhead(taken, kinds, k)' = OneAhead(taken, kinds, k)
      /\ \A taken : RowsAhead(taken)' = RowsAhead(taken)
      /\ \A taken : ColumnsAhead(taken)' = ColumnsAhead(taken)
      /\ \A taken : ReplyAhead(taken)' = ReplyAhead(taken)
  BY DEF OneAhead, RowsAhead, ColumnsAhead, ReplyAhead
<1>3. /\ stack' # <<>> /\ Head(stack') \in {"packet_read", "read"}
      /\ \A g : stack' # <<g>>
      /\ \A g : stack' \in Reading(g) <=> stack \in Reading(g)
      /\ \A g : stack' \in ReaderStates(g) <=> stack \in ReaderStates(g)
      /\ stack' \in CommandStates <=> stack \in CommandStates
      /\ stack' # <<"read", "field_read">>
      /\ stack' # <<"write", "packet_read", "result_read">>
      /\ stack' # <<"connecting", "packet_read", "handshake_server_read">>
  <2>1. /\ stack' # <<>> /\ Head(stack') \in {"packet_read", "read"}
        /\ \A g : stack' # <<g>>
        /\ \A g : stack' \in Reading(g) <=> stack \in Reading(g)
        /\ \A g : stack' \in ReaderStates(g) <=> stack \in ReaderStates(g)
        /\ stack' \in CommandStates <=> stack \in CommandStates
        /\ stack' # <<"read", "field_read">>
    BY ReadingClasses
  <2>2. /\ Head(<<"write", "packet_read", "result_read">>) = "write"
        /\ Head(<<"connecting", "packet_read", "handshake_server_read">>) = "connecting"
    OBVIOUS
  <2> QED BY <2>1, <2>2
<1>4. ~ Closing /\ ~ Top({"write"})' /\ ~ Top({"command_write"})'
      /\ ~ Top({"handshake_client_write"})'
  BY <1>3 DEF Closing, Top
<1>5. ReplyInOrder'
  BY <1>1, <1>2, <1>3, <1>4 DEF ReplyInOrder, Complaining
<1>6. Requests'
  <2>1. \A s : Asked(s)' = Asked(s)
    BY DEF Asked
  <2>2. \A s : NoneFinal(s)' = NoneFinal(s)
    BY DEF NoneFinal
  <2>3. /\ stack' \in Reading("result_read") <=> stack \in Reading("result_read")
        /\ stack' \in ReaderStates("result_read") <=> stack \in ReaderStates("result_read")
        /\ stack' # <<"result_read">> /\ stack # <<"result_read">>
        /\ stack' # <<"write">> /\ stack' # <<"write", "command_write">>
    BY <1>3, <1>4, ReadingClasses DEF Top
  <2> QED BY <1>1, <1>3, <1>4, <2>1, <2>2, <2>3 DEF Requests
<1>7. HandshakeInOrder'
  <2>1. \A s : Login(s)' = Login(s)
    BY DEF Login
  <2> QED BY <1>1, <1>2, <1>3, <1>4, <2>1 DEF HandshakeInOrder
<1> QED BY <1>5, <1>6, <1>7

(* drizzle_state_read: what arrives goes behind what is in the buffer.     *)
LEMMA ReadPackets ==
  ASSUME Sound, StackInvariant', SessionInvariant', drizzle_state_read
  PROVE  PacketInvariant'
<1> USE DEF Sound
<1>1. /\ pc = "loop" /\ stack # <<>> /\ Head(stack) = "read" /\ stack \in StackStates
      /\ buf \in Seq(Units) /\ s2c \in Seq(Units) /\ ~ Closing
  BY DEF drizzle_state_read, Running, StackInvariant, WellFormedStack, TypeOK,
     ConnectionTypeOK, PeerTypeOK, Closing
<1>2. UNCHANGED <<packet_size, result, command, op, inConnect, stage>>
  BY DEF drizzle_state_read, Others, cmdVars, callVars, appVars
<1>3. ~ Top({"field_read"})
  BY <1>1 DEF Top
<1>4. /\ sock # "connected" => c2s = <<>>
      /\ ready /\ inConnect => stack = <<>>
  BY DEF PacketInvariant, CallsMatch
<1>5. CASE ReadWaitsForPoll \/ ReadWouldBlock
  BY <1>1, <1>2, <1>3, <1>5, WaitPackets DEF ReadWaitsForPoll, ReadWouldBlock
<1>6. CASE ReadSome
  <2>1. /\ sock = "connected" /\ UNCHANGED <<sock, c2s, ready, packet_number>>
        /\ stack' = Tail(stack) /\ pc' = "loop"
    BY <1>1, <1>6 DEF ReadSome, conVars, Pop, Continue
  <2>2. PICK n \in 1..Len(s2c) :
          /\ buf' = buf \o SubSeq(s2c, 1, n)
          /\ s2c' = SubSeq(s2c, n + 1, Len(s2c))
    BY <1>6 DEF ReadSome
  <2>3. Said' = Said
    BY <1>1, <2>2, Received DEF Said
  <2>4. stack # <<"read", "field_read">>
    <3>1. CASE ready
      BY <1>1, <3>1 DEF PacketInvariant, ReplyInOrder
    <3>2. CASE ~ ready
      BY <1>1, <2>1, <3>2, ReaderClasses DEF SessionInvariant, StackTellsReady
    <3> QED BY <3>1, <3>2
  <2>5. PICK h \in Parsers \ {"field_read"} :
          stack = <<"read", "packet_read", h>> /\ stack' = <<"packet_read", h>>
    BY <1>1, <2>1, <2>4, ReadShape
  <2>6. stack \in Reading(h) /\ stack' \in Reading(h)
    BY <2>5 DEF Reading
  <2>7. ReplyInOrder' /\ Requests' /\ HandshakeInOrder'
    BY <1>1, <1>2, <2>1, <2>3, <2>6, StillReading
  <2>8. Connecting' => Connecting
    BY <1>1, <2>1, ConnectingGoesOn
  <2>9. ~ Top({"field_read"})'
    BY <2>5 DEF Top
  <2>10. CallsMatch'
    BY <1>1, <1>2, <1>4, <2>1, <2>8, <2>9, CallsGoOn DEF PacketInvariant
  <2> QED BY <2>7, <2>10 DEF PacketInvariant
<1>7. CASE ReadRefused
  <2>1. /\ sock = "connected" /\ UNCHANGED <<sock, c2s, ready>>
        /\ stack' = <<"connect">> \o Tail(stack)
    BY <1>7 DEF ReadRefused, ioVars, conVars, Replace
  <2>2. pc' = "stop" /\ rc' = "COULD_NOT_CONNECT"
    <3>1. addrinfo_next = 0
      BY <1>1, <2>1 DEF StackInvariant, AddressKept, Top
    <3> QED BY <1>7, <3>1 DEF ReadRefused, Return
  <2>3. ~ Top({"field_read"})'
    <3>1. Tail(stack) \in Seq(Handlers) /\ "connect" \in Handlers
      BY <1>1 DEF StackInvariant, TypeOK, Handlers
    <3>2. Head(stack') = "connect"
      BY <2>1, <3>1, Extend
    <3> QED BY <3>2 DEF Top
  <2>4. Connecting' => Connecting
    BY <1>1, <2>1, ConnectingGoesOn
  <2>5. CallsMatch'
    BY <1>1, <1>2, <1>4, <2>1, <2>2, <2>3, <2>4, CallsGoOn DEF PacketInvariant
  <2> QED BY <2>2, <2>5, Vacuous DEF PacketInvariant, Closing, Resumable
<1>8. CASE ReadFails
  <2>1. /\ UNCHANGED <<stack, sock, c2s, ready>> /\ pc' = "stop"
        /\ rc' \in Lost \cup {"INTERNAL_ERROR", "MEMORY"}
    BY <1>8 DEF ReadFails, Return, ioVars, conVars, Lost
  <2>2. (Connecting' => Connecting) /\ ~ Top({"field_read"})'
    BY <1>3, <2>1 DEF Connecting, Top
  <2>3. CallsMatch'
    BY <1>1, <1>2, <1>4, <2>1, <2>2, CallsGoOn DEF PacketInvariant
  <2> QED BY <2>1, <2>3, Vacuous DEF PacketInvariant, Closing, Resumable, Lost
<1> QED BY <1>5, <1>6, <1>7, <1>8 DEF drizzle_state_read

(* What is to hold when a parser is next.                                  *)
LEMMA ParserNext ==
  ASSUME NEW h \in Parsers, stack' = <<h>>, pc' = "loop",
         ready' =>
           /\ ~ result'.skip /\ NoneFinal(c2s)'
           /\ h = "result_read" =>
                /\ op' # "noreply"
                /\ op' = "row" => OneAhead(1, {"err"}, command.k)'
                /\ op' # "row" => /\ ReplyAhead(1)'
                                  /\ command'.name = op' /\ result'.columns = 0
           /\ h = "column_read" => ColumnsAhead(1)' /\ op' = "columns" /\ result'.column
           /\ h = "row_read" => RowsAhead(1)' /\ op' = "row"
           /\ h = "field_read" => FieldsAhead' /\ result'.row_current # 0,
         ~ ready' =>
           /\ h = "handshake_server_read" =>
                /\ c2s' = <<>> /\ packet_size' = 1
                /\ OneAhead(1, {"greeting", "refusal", "err"}, 0)'
           /\ h = "handshake_result_read" =>
                c2s' = <<>> /\ OneAhead(1, {"ok", "eof", "err"}, 0)'
  PROVE  ReplyInOrder' /\ Requests' /\ HandshakeInOrder'
<1>1. /\ stack' # <<>> /\ Head(stack') = h
      /\ stack' # <<"read", "field_read">>
  BY AloneClasses
<1>2. /\ \A g : stack' = <<g>> <=> h = g
      /\ \A g : stack' \notin Reading(g)
  BY AloneClasses
<1>3. /\ stack' \in ReaderStates("column_read") <=> h = "column_read"
      /\ stack' \in ReaderStates("row_read") <=> h = "row_read"
      /\ stack' \in ReaderStates("result_read") <=> h = "result_read"
      /\ stack' \in CommandStates <=> h = "result_read"
  BY AloneClasses
<1>4. /\ ~ Top({"write"})' /\ ~ Top({"command_write"})' /\ ~ Top({"handshake_client_write"})'
      /\ stack' # <<"write", "packet_read", "result_read">>
      /\ stack' # <<"write", "command_write">>
      /\ stack' # <<"connecting", "packet_read", "handshake_server_read">>
  <2>1. h \notin {"write", "command_write", "handshake_client_write", "connecting"}
    BY DEF Parsers
  <2>2. /\ Head(<<"write", "packet_read", "result_read">>) = "write"
        /\ Head(<<"write", "command_write">>) = "write"
        /\ Head(<<"connecting", "packet_read", "handshake_server_read">>) = "connecting"
    OBVIOUS
  <2> QED BY <1>1, <2>1, <2>2 DEF Top
<1>5. ReplyInOrder'
  BY <1>1, <1>2, <1>3 DEF ReplyInOrder, Complaining
<1>6. Requests'
  <2>1. NoneFinal(c2s)' => Asked(c2s)'
    BY DEF NoneFinal, Asked
  <2>2. stack' # <<"write">>
    BY <1>2 DEF Parsers
  <2> QED BY <1>2, <1>3, <1>4, <2>1, <2>2 DEF Requests
<1>7. HandshakeInOrder'
  BY <1>2, <1>4 DEF HandshakeInOrder
<1> QED BY <1>5, <1>6, <1>7

(* What is to hold when no handler is.                                     *)
LEMMA AtRest ==
  ASSUME stack' = <<>>,
         ready' /\ ~ Closing' =>
           /\ Between' /\ ~ result'.skip /\ NoneFinal(c2s)'
           /\ pc' \in {"stop", "leave"} => rc' # "NOT_READY"
  PROVE  ReplyInOrder' /\ Requests' /\ HandshakeInOrder'
<1>1. stack' \in Writers
  BY DEF Writers
<1>2. /\ \A h \in Parsers : /\ stack' # <<h>> /\ stack' \notin Reading(h)
                            /\ stack' \notin ReaderStates(h)
      /\ stack' # <<"read", "field_read">> /\ stack' \notin CommandStates
      /\ stack' # <<"connecting", "packet_read", "handshake_server_read">>
      /\ \A hs : ~ Top(hs)'
  <2>1. stack' \notin CommandStates
    BY ConnectClasses
  <2> QED BY <1>1, <2>1, WriterClasses DEF Top
<1>3. /\ {"result_read", "column_read", "row_read", "field_read"} \subseteq Parsers
      /\ {"handshake_server_read", "handshake_result_read"} \subseteq Parsers
  BY DEF Parsers
<1>4. ReplyInOrder'
  BY <1>2, <1>3 DEF ReplyInOrder, Complaining
<1>5. Requests'
  <2>1. NoneFinal(c2s)' => Asked(c2s)'
    BY DEF NoneFinal, Asked
  <2>2. stack' # <<"write">> /\ stack' # <<"write", "command_write">>
        /\ stack' # <<"write", "packet_read", "result_read">>
    OBVIOUS
  <2> QED BY <1>2, <1>3, <2>1, <2>2 DEF Requests
<1>6. HandshakeInOrder'
  BY <1>2, <1>3 DEF HandshakeInOrder
<1> QED BY <1>4, <1>5, <1>6

(* drizzle_state_packet_read: the header is consumed, and counted.         *)
LEMMA PacketReadPackets ==
  ASSUME Sound, StackInvariant', SessionInvariant', drizzle_state_packet_read
  PROVE  PacketInvariant'
<1> USE DEF Sound
<1>1. /\ pc = "loop" /\ stack # <<>> /\ Head(stack) = "packet_read" /\ ~ Closing
      /\ stack \in {<<"packet_read", h>> : h \in Parsers \ {"field_read"}}
  BY Shapes DEF drizzle_state_packet_read, Running, StackInvariant, WellFormedStack, Closing
<1>2. PICK h \in Parsers \ {"field_read"} : stack = <<"packet_read", h>>
  BY <1>1
<1>3. Tail(stack) = <<h>> /\ <<"read">> \o stack = <<"read", "packet_read", h>>
  <2>1. "read" \in Handlers /\ "packet_read" \in Handlers /\ h \in Handlers
    BY DEF Handlers, Parsers
  <2>2. <<"read">> \o <<"packet_read", h>> = <<"read", "packet_read", h>>
    BY <2>1, Extensions
  <2>3. Tail(stack) = <<h>>
    BY <1>2
  <2> QED BY <1>2, <2>2, <2>3
<1>4. UNCHANGED <<sock, ready, s2c, c2s, result, command, op, inConnect, stage>>
  BY DEF drizzle_state_packet_read, ioVars, Others, cmdVars, callVars, appVars
<1>5. \/ /\ stack' = <<"read", "packet_read", h>> /\ pc' = "loop"
         /\ UNCHANGED <<packet_number, buf>>
      \/ /\ stack' = stack /\ pc' = "stop" /\ rc' = "BAD_PACKET_NUMBER"
      \/ /\ stack' = <<h>> /\ pc' = "loop" /\ buf # <<>> /\ buf' = Tail(buf)
         /\ packet_size' = 1 /\ packet_number' = (packet_number + 1) % PacketMod
  <2>1. CASE Len(buf) < 2
    BY <1>1, <1>3, <2>1 DEF drizzle_state_packet_read, Push, Continue, dataVars
  <2>2. CASE ~ (Len(buf) < 2)
    <3>1. buf # <<>>
      BY <2>2
    <3>2. \/ Return("BAD_PACKET_NUMBER") /\ UNCHANGED stack
          \/ /\ buf' = Tail(buf) /\ Pop /\ Continue
             /\ packet_size' = 1 /\ packet_number' = (packet_number + 1) % PacketMod
      BY <2>2 DEF drizzle_state_packet_read
    <3> QED BY <1>1, <1>3, <3>1, <3>2 DEF Pop, Continue, Return
  <2> QED BY <2>1, <2>2
<1>6. stack \in Reading(h) /\ stack \in ReaderStates(h) /\ stack # <<h>>
  BY <1>2 DEF Reading, ReaderStates
<1>7. CallsMatch'
  <2>1. stack' \in ReaderStates(h) /\ h # "field_read"
    BY <1>2, <1>5 DEF ReaderStates
  <2>2. (Connecting' => Connecting) /\ stack' # <<>> /\ Head(stack') # "field_read"
    <3>1. Connecting' => Connecting
      BY <1>6, <2>1, ReaderClasses DEF Connecting
    <3>2. Head(stack') \in {"read", "packet_read", h}
      BY <1>2, <1>5
    <3> QED BY <1>2, <1>5, <3>1, <3>2, <2>1
  <2>3. ~ Top({"field_read"})'
    BY <2>2 DEF Top
  <2> QED BY <1>1, <1>4, <1>5, <2>2, <2>3, CallsGoOn DEF PacketInvariant, CallsMatch
<1>8. CASE stack' = <<"read", "packet_read", h>> /\ pc' = "loop"
           /\ UNCHANGED <<packet_number, buf>>
  <2>1. stack' \in Reading(h)
    BY <1>8 DEF Reading
  <2>2. Said' = Said
    BY <1>4, <1>8 DEF Said
  <2> QED BY <1>1, <1>4, <1>6, <1>7, <1>8, <2>1, <2>2, StillReading DEF PacketInvariant
<1>9. CASE pc' = "stop" /\ rc' = "BAD_PACKET_NUMBER"
  BY <1>7, <1>9, Vacuous DEF PacketInvariant, Closing, Resumable
<1>10. CASE /\ stack' = <<h>> /\ pc' = "loop" /\ buf # <<>> /\ buf' = Tail(buf)
            /\ packet_size' = 1 /\ packet_number' = (packet_number + 1) % PacketMod
  <2>1. sock = "connected" /\ Said' = Tail(Said) /\ Said \in Seq(Units) /\ ~ Silent
    BY <1>4, <1>10, SaidTyped DEF SessionInvariant, CleanApart, Clean, Silent
  <2>2. /\ \A kinds, k : OneAhead(0, kinds, k) => OneAhead(1, kinds, k)'
        /\ RowsAhead(0) => RowsAhead(1)'
        /\ ColumnsAhead(0) => ColumnsAhead(1)'
        /\ ReplyAhead(0) => ReplyAhead(1)'
    BY <1>4, <1>10, <2>1, HeadTaken DEF OneAhead, RowsAhead, ColumnsAhead, ReplyAhead
  <2>3. /\ \A g : stack \in Reading(g) <=> h = g
        /\ \A g : stack \in ReaderStates(g) <=> h = g
        /\ stack \in CommandStates <=> h = "result_read"
        /\ stack \in ConnectStates <=> h = "handshake_server_read"
        /\ stack \in HandshakeStates <=> h = "handshake_result_read"
    BY <1>6, ReadingClasses
  <2>4. ready <=> h \notin {"handshake_server_read", "handshake_result_read"}
    BY <1>1, <2>1, <2>3 DEF SessionInvariant, StackTellsReady
  <2>5. NoneFinal(c2s)' <=> NoneFinal(c2s)
    BY <1>4 DEF NoneFinal
  <2>6. ASSUME ready
        PROVE  /\ ~ result.skip /\ NoneFinal(c2s)
               /\ h = "result_read" => /\ op # "noreply" /\ op # "row" /\ ReplyAhead(0)
                                       /\ command.name = op /\ result.columns = 0
               /\ h = "column_read" => ColumnsAhead(0) /\ op = "columns" /\ result.column
               /\ h = "row_read" => RowsAhead(0) /\ op = "row"
    <3>1. /\ ~ result.skip
          /\ h = "result_read" => ReplyAhead(0)
          /\ h = "column_read" => ColumnsAhead(0) /\ op = "columns" /\ result.column
          /\ h = "row_read" => RowsAhead(0) /\ op = "row"
      BY <1>1, <2>1, <2>3, <2>6 DEF PacketInvariant, ReplyInOrder
    <3>2. /\ NoneFinal(c2s)
          /\ h = "result_read" => op # "noreply"
      BY <1>1, <2>1, <2>3, <2>6 DEF PacketInvariant, Requests
    <3>3. h = "result_read" => op # "row" /\ command.name = op /\ result.columns = 0
      BY <1>1, <1>6, <2>3, <2>6 DEF PacketInvariant, Requests
    <3> QED BY <3>1, <3>2, <3>3
  <2>7. ASSUME ~ ready
        PROVE  /\ h = "handshake_server_read" =>
                    c2s = <<>> /\ OneAhead(0, {"greeting", "refusal", "err"}, 0)
               /\ h = "handshake_result_read" =>
                    c2s = <<>> /\ OneAhead(0, {"ok", "eof", "err"}, 0)
    BY <1>1, <2>1, <2>3, <2>7 DEF PacketInvariant, HandshakeInOrder
  <2>8. ReplyInOrder' /\ Requests' /\ HandshakeInOrder'
    <3>1. ready' =>
           /\ ~ result'.skip /\ NoneFinal(c2s)'
           /\ h = "result_read" =>
                /\ op' # "noreply"
                /\ op' = "row" => OneAhead(1, {"err"}, command.k)'
                /\ op' # "row" => /\ ReplyAhead(1)'
                                  /\ command'.name = op' /\ result'.columns = 0
           /\ h = "column_read" => ColumnsAhead(1)' /\ op' = "columns" /\ result'.column
           /\ h = "row_read" => RowsAhead(1)' /\ op' = "row"
      BY <1>4, <2>2, <2>5, <2>6
    <3>2. ~ ready' =>
           /\ h = "handshake_server_read" =>
                /\ c2s' = <<>> /\ packet_size' = 1
                /\ OneAhead(1, {"greeting", "refusal", "err"}, 0)'
           /\ h = "handshake_result_read" =>
                c2s' = <<>> /\ OneAhead(1, {"ok", "eof", "err"}, 0)'
      BY <1>4, <1>10, <2>2, <2>7
    <3>3. h \in Parsers /\ h # "field_read"
      OBVIOUS
    <3> QED BY <1>10, <3>1, <3>2, <3>3, ParserNext
  <2> QED BY <1>7, <2>8 DEF PacketInvariant
<1> QED BY <1>5, <1>8, <1>9, <1>10

----------------------------------------------------------------------------
(* Writing.                                                                *)

(* What is to hold when a packet is read next.                             *)
LEMMA ReaderNext ==
  ASSUME NEW h \in Parsers \ {"field_read"}, stack' \in Reading(h), pc' = "loop",
         ready' =>
           /\ ~ result'.skip /\ Asked(c2s)'
           /\ h = "result_read" =>
                /\ op' # "noreply" /\ op' # "row"
                /\ command'.name = op' /\ result'.columns = 0
                /\ (Silent /\ packet_number = 1)' \/ (ReplyAhead(0)' /\ NoneFinal(c2s)')
           /\ h # "result_read" => NoneFinal(c2s)'
           /\ h = "column_read" => ColumnsAhead(0)' /\ op' = "columns" /\ result'.column
           /\ h = "row_read" => RowsAhead(0)' /\ op' = "row",
         ~ ready' =>
           /\ h = "handshake_server_read" =>
                /\ c2s' = <<>>
                /\ \/ (Silent /\ packet_number = 0)'
                   \/ OneAhead(0, {"greeting", "refusal", "err"}, 0)'
           /\ h = "handshake_result_read" =>
                \/ Silent' /\ (c2s' = <<>> \/ Login(c2s)')
                \/ c2s' = <<>> /\ OneAhead(0, {"ok", "eof", "err"}, 0)'
  PROVE  ReplyInOrder' /\ Requests' /\ HandshakeInOrder'
<1>1. /\ stack' # <<>> /\ Head(stack') \in {"packet_read", "read"}
      /\ \A g : stack' # <<g>>
      /\ stack' # <<"read", "field_read">>
  BY ReadingClasses
<1>2. /\ stack' \in Reading("handshake_server_read") <=> h = "handshake_server_read"
      /\ stack' \in Reading("handshake_result_read") <=> h = "handshake_result_read"
      /\ stack' \in Reading("result_read") <=> h = "result_read"
      /\ stack' \in Reading("column_read") <=> h = "column_read"
      /\ stack' \in Reading("row_read") <=> h = "row_read"
  BY ReadingClasses
<1>3. /\ stack' \in ReaderStates("column_read") <=> h = "column_read"
      /\ stack' \in ReaderStates("row_read") <=> h = "row_read"
      /\ stack' \in ReaderStates("result_read") <=> h = "result_read"
      /\ stack' \in CommandStates <=> h = "result_read"
  BY ReadingClasses
<1>4. /\ ~ Top({"write"})' /\ ~ Top({"command_write"})' /\ ~ Top({"handshake_client_write"})'
      /\ stack' # <<"write", "packet_read", "result_read">>
      /\ stack' # <<"write", "command_write">>
      /\ stack' # <<"connecting", "packet_read", "handshake_server_read">>
  <2>1. /\ Head(<<"write", "packet_read", "result_read">>) = "write"
        /\ Head(<<"write", "command_write">>) = "write"
        /\ Head(<<"connecting", "packet_read", "handshake_server_read">>) = "connecting"
    OBVIOUS
  <2> QED BY <1>1, <2>1 DEF Top
<1>5. ReplyInOrder'
  BY <1>1, <1>2, <1>3 DEF ReplyInOrder, Complaining
<1>6. Requests'
  <2>1. /\ stack' # <<"write">> /\ stack' # <<"result_read">>
    BY <1>1
  <2> QED BY <1>2, <1>3, <1>4, <2>1 DEF Requests
<1>7. HandshakeInOrder'
  <2>1. /\ stack' # <<"handshake_server_read">> /\ stack' # <<"handshake_result_read">>
    BY <1>1
  <2> QED BY <1>2, <1>4, <2>1 DEF HandshakeInOrder
<1> QED BY <1>5, <1>6, <1>7

(* What is to hold when something is written next.                         *)
LEMMA WriterNext ==
  ASSUME SessionInvariant', stack' \in Writers, stack' # <<>>, pc' = "loop",
         ready' =>
           /\ ~ result'.skip /\ NoneFinal(c2s)'
           /\ stack' \in CommandStates =>
                op' # "row" /\ command'.name = op' /\ result'.columns = 0
           /\ stack' = <<"command_write">> =>
                Silent' /\ (command'.left < Chunks(command'.name) => packet_number' = 1)
           /\ Top({"write"})' => s2c' = <<>> /\ packet_number' = 1 /\ Asked(buf)'
           /\ stack' = <<"write">> => op' = "noreply" /\ NoneFinal(buf)'
           /\ stack' = <<"write", "command_write">> =>
                command'.left < Chunks(command'.name) /\ NoneFinal(buf)'
           /\ stack' = <<"write", "packet_read", "result_read">> => op' # "noreply",
         ~ ready' =>
           /\ Top({"handshake_client_write"})' => Silent' /\ c2s' = <<>>
           /\ Top({"write"})' => s2c' = <<>> /\ c2s' = <<>> /\ Login(buf)'
  PROVE  ReplyInOrder' /\ Requests' /\ HandshakeInOrder'
<1>1. /\ \A h \in Parsers : /\ stack' # <<h>> /\ stack' \notin Reading(h)
                            /\ stack' \notin ReaderStates(h)
      /\ stack' # <<"read", "field_read">>
      /\ stack' \in CommandStates
           <=> stack' \in {<<"command_write">>, <<"write">>, <<"write", "command_write">>,
                           <<"write", "packet_read", "result_read">>}
  BY WriterClasses
<1>2. /\ {"result_read", "column_read", "row_read", "field_read"} \subseteq Parsers
      /\ {"handshake_server_read", "handshake_result_read"} \subseteq Parsers
  BY DEF Parsers
<1>3. /\ Top({"command_write"})' => stack' = <<"command_write">>
      /\ stack' # <<"connecting", "packet_read", "handshake_server_read">>
  BY DEF Top, Writers
<1>4. ReplyInOrder'
  BY <1>1, <1>2 DEF ReplyInOrder, Complaining
<1>5. Requests'
  <2>1. NoneFinal(c2s)' => Asked(c2s)'
    BY DEF NoneFinal, Asked
  <2>2. ready' /\ Top({"write"})' /\ stack' # <<"write", "packet_read", "result_read">>
          => NoneFinal(buf)'
    <3>1. ASSUME ready', Top({"write"})' PROVE stack' \in CommandStates
      <4>1. stack' \notin HandshakeStates
        BY <3>1, WriterClasses DEF SessionInvariant, StackTellsReady
      <4> QED BY <3>1, <4>1, WriterClasses DEF Writers, Top
    <3> QED BY <1>1, <3>1 DEF Top
  <2> QED BY <1>1, <1>2, <1>3, <2>1, <2>2 DEF Requests
<1>6. HandshakeInOrder'
  BY <1>1, <1>2, <1>3 DEF HandshakeInOrder
<1> QED BY <1>4, <1>5, <1>6

(* The pieces of a command that are sent, and those that are left.         *)
LEMMA SendPieces ==
  ASSUME buf \in Seq(Units), c2s \in Seq(Units), NEW n \in 1..Len(buf),
         Asked(buf), NoneFinal(c2s), command' = command,
         buf' = SubSeq(buf, n + 1, Len(buf)),
         c2s' = c2s \o SubSeq(buf, 1, n) \/ c2s' = c2s
  PROVE  /\ Asked(buf)' /\ Asked(c2s)'
         /\ NoneFinal(buf) => NoneFinal(buf)' /\ NoneFinal(c2s)'
         /\ n # Len(buf) => NoneFinal(c2s)'
         /\ n = Len(buf) => buf' = <<>>
<1> DEFINE a == SubSeq(buf, 1, n)
           b == SubSeq(buf, n + 1, Len(buf))
<1>1. /\ a \in Seq(Units) /\ b \in Seq(Units)
      /\ Len(buf) \in Nat /\ Len(a) = n /\ Len(b) = Len(buf) - n
      /\ \A i \in 1..n : a[i] = buf[i]
      /\ \A i \in 1..(Len(buf) - n) : b[i] = buf[n + i]
  <2>1. /\ a \in Seq(Units) /\ b \in Seq(Units) /\ Len(a) = n /\ Len(b) = Len(buf) - n
        /\ \A i \in DOMAIN a : a[i] = buf[i]
        /\ \A i \in DOMAIN b : b[i] = buf[n + i]
    BY CutKinds
  <2>2. DOMAIN a = 1..Len(a) /\ DOMAIN b = 1..Len(b) /\ Len(buf) \in Nat
    BY <2>1, LenProperties
  <2> QED BY <2>1, <2>2
<1> HIDE DEF a, b
<1>2. \A i \in 1..Len(buf) :
        Final(buf[i]) => i = Len(buf) /\ buf[i].k = command.k /\ buf[i].kind = command.name
  BY DEF Asked
<1>3. /\ \A i \in 1..Len(b) :
           Final(b[i]) => i = Len(b) /\ b[i].k = command.k /\ b[i].kind = command.name
      /\ NoneFinal(buf) => \A i \in 1..Len(b) : ~ Final(b[i])
  <2>1. \A i \in 1..Len(b) : n + i \in 1..Len(buf) /\ b[i] = buf[n + i]
    BY <1>1
  <2>2. \A i \in 1..Len(b) : n + i = Len(buf) => i = Len(b)
    <3>1. \A N \in Nat, m \in Nat : m = N - n => \A i \in 1..m : n + i = N => i = m
      OBVIOUS
    <3>2. Len(b) \in Nat /\ Len(b) = Len(buf) - n
      BY <1>1, LenProperties
    <3> QED BY <1>1, <3>1, <3>2
  <2> QED BY <1>2, <2>1, <2>2 DEF NoneFinal
<1>4. /\ \A i \in 1..n : Final(a[i]) => /\ i = Len(buf) /\ a[i].k = command.k
                                        /\ a[i].kind = command.name
      /\ NoneFinal(buf) => \A i \in 1..n : ~ Final(a[i])
  <2>1. \A i \in 1..n : i \in 1..Len(buf) /\ a[i] = buf[i]
    BY <1>1
  <2> QED BY <1>2, <2>1 DEF NoneFinal
<1>5. Len(c2s) \in Nat /\ \A i \in 1..Len(c2s) : ~ Final(c2s[i])
  BY LenProperties DEF NoneFinal
<1>6. buf' = b /\ (c2s' = c2s \o a \/ c2s' = c2s)
  BY DEF a, b
<1>7. Asked(buf)' /\ (NoneFinal(buf) => NoneFinal(buf)')
  BY <1>3, <1>6 DEF Asked, NoneFinal
<1>8. n = Len(buf) => buf' = <<>>
  <2>1. n = Len(buf) => Len(b) = 0
    BY <1>1
  <2> QED BY <1>1, <1>6, <2>1, EmptySeq
<1>9. CASE c2s' = c2s
  BY <1>5, <1>7, <1>8, <1>9 DEF Asked, NoneFinal
<1>10. CASE c2s' = c2s \o a
  <2> DEFINE t == c2s \o a
  <2>1. /\ Len(t) = Len(c2s) + n
        /\ \A i \in 1..(Len(c2s) + n) : t[i] = IF i <= Len(c2s) THEN c2s[i] ELSE a[i - Len(c2s)]
    BY <1>1, ConcatProperties
  <2> HIDE DEF t
  <2>2. \A i \in 1..Len(t) :
          Final(t[i]) => /\ n = Len(buf) /\ i = Len(t) /\ t[i].k = command.k
                         /\ t[i].kind = command.name /\ ~ NoneFinal(buf)
    <3> SUFFICES ASSUME NEW i \in 1..Len(t), Final(t[i])
                 PROVE  /\ n = Len(buf) /\ i = Len(t) /\ t[i].k = command.k
                        /\ t[i].kind = command.name /\ ~ NoneFinal(buf)
      OBVIOUS
    <3>1. i > Len(c2s) /\ t[i] = a[i - Len(c2s)] /\ i - Len(c2s) \in 1..n
      BY <1>5, <2>1
    <3>2. /\ i - Len(c2s) = Len(buf) /\ t[i].k = command.k /\ t[i].kind = command.name
          /\ ~ NoneFinal(buf)
      BY <1>4, <3>1
    <3>3. n = Len(buf) /\ i = Len(t)
      <4>1. \A N \in Nat, L \in Nat :
              n <= N /\ i - L = N /\ i - L \in 1..n => n = N /\ i = L + n
        OBVIOUS
      <4>2. n <= Len(buf)
        BY <1>1
      <4> QED BY <1>1, <1>5, <2>1, <3>1, <3>2, <4>1, <4>2
    <3> QED BY <3>2, <3>3
  <2>3. c2s' = t
    BY <1>10 DEF t
  <2> QED BY <1>7, <1>8, <2>2, <2>3 DEF Asked, NoneFinal
<1> QED BY <1>6, <1>9, <1>10

(* What drizzle_state_write finds below it.                                *)
LEMMA BelowWrite ==
  ASSUME stack \in {<<"write">>, <<"write", "command_write">>,
                    <<"write", "packet_read", "result_read">>,
                    <<"write", "packet_read", "handshake_result_read">>}
  PROVE  /\ stack \in Writers /\ stack # <<>> /\ Top({"write"}) /\ ~ Top({"field_read"})
         /\ stack = <<"write">> => Tail(stack) = <<>>
         /\ stack = <<"write", "command_write">> => Tail(stack) = <<"command_write">>
         /\ stack = <<"write", "packet_read", "result_read">>
              => Tail(stack) \in Reading("result_read")
         /\ stack = <<"write", "packet_read", "handshake_result_read">>
              => Tail(stack) \in Reading("handshake_result_read")
         /\ stack \in CommandStates
              <=> stack # <<"write", "packet_read", "handshake_result_read">>
         /\ stack \in HandshakeStates
              <=> stack = <<"write", "packet_read", "handshake_result_read">>
         /\ Tail(stack) # <<>> => Head(Tail(stack)) # "field_read"
         /\ Tail(stack) # stack
<1>1. stack \in Writers /\ stack # <<>> /\ Top({"write"}) /\ ~ Top({"field_read"})
  BY DEF Writers, Top
<1>2. /\ stack = <<"write">> => Tail(stack) = <<>>
      /\ stack = <<"write", "command_write">> => Tail(stack) = <<"command_write">>
      /\ stack = <<"write", "packet_read", "result_read">>
           => Tail(stack) = <<"packet_read", "result_read">>
      /\ stack = <<"write", "packet_read", "handshake_result_read">>
           => Tail(stack) = <<"packet_read", "handshake_result_read">>
  <2>1. /\ Tail(<<"write">>) = <<>> /\ Tail(<<"write", "command_write">>) = <<"command_write">>
        /\ \A h : Tail(<<"write", "packet_read", h>>) = <<"packet_read", h>>
    OBVIOUS
  <2> QED BY <2>1
<1>3. /\ <<"packet_read", "result_read">> \in Reading("result_read")
      /\ <<"packet_read", "handshake_result_read">> \in Reading("handshake_result_read")
  BY DEF Reading
<1>4. (Tail(stack) # <<>> => Head(Tail(stack)) # "field_read") /\ Tail(stack) # stack
  BY <1>2
<1>5. /\ stack \in CommandStates
           <=> stack # <<"write", "packet_read", "handshake_result_read">>
      /\ stack \in HandshakeStates
           <=> stack = <<"write", "packet_read", "handshake_result_read">>
  <2>1. <<"handshake_client_write", "write", "packet_read", "handshake_result_read">> # stack
    OBVIOUS
  <2> QED BY <1>1, <2>1, WriterClasses
<1> QED BY <1>1, <1>2, <1>3, <1>4, <1>5

(* drizzle_state_write: what is sent is taken off the buffer, and the      *)
(* state below goes on when nothing is left in it.                         *)
LEMMA WritePackets ==
  ASSUME Sound, StackInvariant', SessionInvariant', drizzle_state_write
  PROVE  PacketInvariant'
<1> USE DEF Sound
<1>1. /\ pc = "loop" /\ ~ Closing
      /\ stack \in {<<"write">>, <<"write", "command_write">>,
                    <<"write", "packet_read", "result_read">>,
                    <<"write", "packet_read", "handshake_result_read">>}
      /\ buf \in Seq(Units) /\ c2s \in Seq(Units)
  BY Shapes DEF drizzle_state_write, Running, StackInvariant, WellFormedStack, Closing,
     TypeOK, ConnectionTypeOK, PeerTypeOK
<1>2. UNCHANGED <<packet_size, result, command, op, inConnect, stage>>
  BY DEF drizzle_state_write, Others, cmdVars, callVars, appVars
<1>3. /\ stack \in Writers /\ stack # <<>> /\ Top({"write"}) /\ ~ Top({"field_read"})
      /\ stack = <<"write">> => Tail(stack) = <<>>
      /\ stack = <<"write", "command_write">> => Tail(stack) = <<"command_write">>
      /\ stack = <<"write", "packet_read", "result_read">>
           => Tail(stack) \in Reading("result_read")
      /\ stack = <<"write", "packet_read", "handshake_result_read">>
           => Tail(stack) \in Reading("handshake_result_read")
      /\ stack \in CommandStates
           <=> stack # <<"write", "packet_read", "handshake_result_read">>
      /\ stack \in HandshakeStates
           <=> stack = <<"write", "packet_read", "handshake_result_read">>
      /\ Tail(stack) # <<>> => Head(Tail(stack)) # "field_read"
      /\ Tail(stack) # stack
  BY <1>1, BelowWrite
<1>4. /\ sock = "connected"
      /\ ready <=> stack # <<"write", "packet_read", "handshake_result_read">>
      /\ ~ (ready /\ inConnect)
  <2>1. ready <=> stack # <<"write", "packet_read", "handshake_result_read">>
    BY <1>3 DEF SessionInvariant, StackTellsReady
  <2>2. sock = "connected"
    BY <1>3, <2>1 DEF SessionInvariant, CleanApart, Clean
  <2> QED BY <1>3, <2>1, <2>2 DEF PacketInvariant, CallsMatch
<1>5. CASE WriteWouldBlock
  BY <1>1, <1>2, <1>3, <1>5, WaitPackets DEF WriteWouldBlock
<1>6. CASE WriteFails
  <2>1. UNCHANGED <<stack, sock, c2s, ready>> /\ pc' = "stop" /\ rc' \in Lost
    BY <1>6 DEF WriteFails, Return, ioVars, conVars
  <2>2. (Connecting' => Connecting) /\ ~ Top({"field_read"})'
    BY <1>3, <2>1 DEF Connecting, Top
  <2>3. CallsMatch'
    BY <1>1, <1>2, <1>4, <2>1, <2>2, CallsGoOn DEF PacketInvariant
  <2> QED BY <2>1, <2>3, Vacuous DEF PacketInvariant, Closing, Resumable, Lost
<1>7. ASSUME UNCHANGED <<sock, ready, packet_number, s2c>>, pc' = "loop",
             \/ stack' = Tail(stack) /\ buf' = <<>>
             \/ stack' = stack,
             ready => /\ Asked(buf)' /\ Asked(c2s)' /\ (stack' = stack => NoneFinal(c2s)')
                      /\ NoneFinal(buf) => NoneFinal(buf)' /\ NoneFinal(c2s)',
             ~ ready => stack' = Tail(stack) /\ (c2s' = <<>> \/ Login(c2s)')
      PROVE  PacketInvariant'
  <2>1. CallsMatch'
    <3>1. Connecting' => Connecting
      BY <1>1, <1>4, <1>7, ConnectingGoesOn
    <3>2. ~ Top({"field_read"})'
      BY <1>3, <1>7 DEF Top
    <3>3. sock' # "connected" => c2s' = <<>>
      BY <1>4, <1>7
    <3>4. ~ (ready' /\ inConnect)
      BY <1>4, <1>7
    <3> QED BY <1>1, <1>2, <1>7, <3>1, <3>2, <3>3, <3>4, CallsGoOn DEF PacketInvariant
  <2>2. stack' = Tail(stack) => Silent' /\ s2c = <<>>
    <3>1. ready => s2c = <<>>
      BY <1>1, <1>3 DEF PacketInvariant, Requests
    <3>2. ~ ready => s2c = <<>>
      BY <1>1, <1>3, <1>4 DEF PacketInvariant, HandshakeInOrder
    <3>3. s2c = <<>>
      BY <3>1, <3>2
    <3>4. stack' = Tail(stack) => buf' = <<>> /\ s2c' = <<>>
      BY <1>3, <1>7, <3>3
    <3> QED BY <3>3, <3>4 DEF Silent
  <2>3. ASSUME ready
        PROVE  /\ ~ result.skip /\ s2c = <<>> /\ packet_number = 1
               /\ op # "row" /\ command.name = op /\ result.columns = 0
               /\ stack = <<"write">> => op = "noreply" /\ NoneFinal(buf)
               /\ stack = <<"write", "command_write">> =>
                    command.left < Chunks(command.name) /\ NoneFinal(buf)
               /\ stack = <<"write", "packet_read", "result_read">> => op # "noreply"
    <3>1. ~ result.skip
      BY <1>1, <2>3 DEF PacketInvariant, ReplyInOrder
    <3>2. /\ s2c = <<>> /\ packet_number = 1
          /\ stack = <<"write">> => op = "noreply" /\ NoneFinal(buf)
          /\ stack = <<"write", "command_write">> =>
               command.left < Chunks(command.name) /\ NoneFinal(buf)
          /\ stack = <<"write", "packet_read", "result_read">> => op # "noreply"
      BY <1>1, <1>3, <2>3 DEF PacketInvariant, Requests
    <3>3. stack # <<"result_read">>
      BY <1>3 DEF Top
    <3>4. op # "row" /\ command.name = op /\ result.columns = 0
      BY <1>1, <1>3, <1>4, <2>3, <3>3 DEF PacketInvariant, Requests
    <3> QED BY <3>1, <3>2, <3>4
  <2>4. CASE stack' = stack
    <3>1. /\ ~ Top({"handshake_client_write"})' /\ Top({"write"})'
      BY <1>3, <2>4 DEF Top
    <3>2. ready
      BY <1>3, <1>7, <2>4 DEF Top
    <3>3. ready' /\ stack' # <<"command_write">>
      BY <1>1, <1>7, <2>4, <3>2
    <3>4. ReplyInOrder' /\ Requests' /\ HandshakeInOrder'
      BY <1>2, <1>3, <1>7, <2>3, <2>4, <3>1, <3>2, <3>3, WriterNext
    <3> QED BY <2>1, <3>4 DEF PacketInvariant
  <2>5. CASE stack' = Tail(stack) /\ stack = <<"write">>
    <3>1. stack' = <<>> /\ ready /\ ready'
      BY <1>3, <1>4, <1>7, <2>5
    <3>2. op \in Commands /\ op # "query" /\ ~ inConnect
      BY <1>4, <2>3, <2>5, <3>1 DEF Commands
    <3>3. Between'
      <4>1. /\ pc' = "loop" /\ ~ inConnect' /\ op' \in Commands /\ op' # "query"
            /\ Silent'
        BY <1>2, <1>7, <2>2, <2>5, <3>2
      <4>2. After'
        BY <4>1 DEF After, Commands
      <4> QED BY <4>1, <4>2 DEF Between, Succeeding, Complaining
    <3>4. NoneFinal(c2s)'
      BY <1>7, <2>3, <2>5, <3>1
    <3>5. ReplyInOrder' /\ Requests' /\ HandshakeInOrder'
      BY <1>2, <1>7, <2>3, <3>1, <3>3, <3>4, AtRest
    <3> QED BY <2>1, <3>5 DEF PacketInvariant
  <2>6. CASE stack' = Tail(stack) /\ stack = <<"write", "command_write">>
    <3>1. stack' = <<"command_write">> /\ ready /\ ready'
      BY <1>3, <1>4, <1>7, <2>6
    <3>2. /\ stack' \in Writers /\ stack' # <<>>
          /\ ~ Top({"handshake_client_write"})' /\ ~ Top({"write"})'
          /\ stack' # <<"write">> /\ stack' # <<"write", "command_write">>
          /\ stack' # <<"write", "packet_read", "result_read">>
      BY <3>1 DEF Writers, Top
    <3>3. NoneFinal(c2s)'
      BY <1>7, <2>3, <2>6, <3>1
    <3>4. ReplyInOrder' /\ Requests' /\ HandshakeInOrder'
      BY <1>2, <1>7, <2>2, <2>3, <2>6, <3>1, <3>2, <3>3, WriterNext
    <3> QED BY <2>1, <3>4 DEF PacketInvariant
  <2>7. CASE stack' = Tail(stack) /\ stack = <<"write", "packet_read", "result_read">>
    <3>1. stack' \in Reading("result_read") /\ ready /\ ready'
      BY <1>3, <1>4, <1>7, <2>7
    <3>2. "result_read" \in Parsers \ {"field_read"}
      BY DEF Parsers
    <3>3. (Silent /\ packet_number = 1)'
      BY <1>7, <2>2, <2>3, <2>7, <3>1
    <3>4. ReplyInOrder' /\ Requests' /\ HandshakeInOrder'
      BY <1>2, <1>7, <2>3, <2>7, <3>1, <3>2, <3>3, ReaderNext
    <3> QED BY <2>1, <3>4 DEF PacketInvariant
  <2>8. CASE stack' = Tail(stack)
             /\ stack = <<"write", "packet_read", "handshake_result_read">>
    <3>1. stack' \in Reading("handshake_result_read") /\ ~ ready /\ ~ ready'
      BY <1>3, <1>4, <1>7, <2>8
    <3>2. /\ "handshake_result_read" \in Parsers \ {"field_read"}
          /\ "handshake_result_read" # "handshake_server_read"
      BY DEF Parsers
    <3>3. Silent' /\ (c2s' = <<>> \/ Login(c2s)')
      BY <1>7, <2>2, <2>8, <3>1
    <3>4. ReplyInOrder' /\ Requests' /\ HandshakeInOrder'
      BY <1>7, <3>1, <3>2, <3>3, ReaderNext
    <3> QED BY <2>1, <3>4 DEF PacketInvariant
  <2> QED BY <1>1, <1>7, <2>4, <2>5, <2>6, <2>7, <2>8
<1>8. ready => /\ Asked(buf) /\ Asked(c2s)
               /\ stack \notin Reading("result_read") /\ NoneFinal(c2s)
  <2>1. stack \notin Reading("result_read")
    BY <1>3, WriterClasses DEF Parsers
  <2> QED BY <1>1, <1>3, <2>1 DEF PacketInvariant, Requests
<1>9. ~ ready => s2c = <<>> /\ c2s = <<>> /\ Login(buf)
  BY <1>1, <1>3, <1>4 DEF PacketInvariant, HandshakeInOrder
<1>10. CASE buf = <<>> /\ Pop /\ Continue /\ UNCHANGED <<ioVars, conVars, pollVars, buf>>
  <2>1. /\ UNCHANGED <<sock, ready, packet_number, s2c, c2s, buf>> /\ pc' = "loop"
        /\ stack' = Tail(stack) /\ buf' = <<>>
    BY <1>1, <1>10 DEF Pop, Continue, ioVars, conVars
  <2>2. ready => /\ Asked(buf)' /\ Asked(c2s)' /\ NoneFinal(c2s)' /\ NoneFinal(buf)'
    BY <1>8, <1>10, <1>2, <2>1 DEF Asked, NoneFinal
  <2>3. ready
    BY <1>9, <1>10 DEF Login
  <2> QED BY <1>7, <2>1, <2>2, <2>3
<1>11. CASE WriteSome
  <2>1. PICK n \in 1..Len(buf) :
          /\ Sent(n)
          /\ c2s' = c2s \o SubSeq(buf, 1, n) \/ c2s' = c2s
    BY <1>11 DEF WriteSome
  <2>2. UNCHANGED <<sock, ready, packet_number, s2c>> /\ pc' = "loop"
    BY <1>1, <1>11 DEF WriteSome, Continue, conVars
  <2>3. /\ buf' = SubSeq(buf, n + 1, Len(buf))
        /\ n = Len(buf) => stack' = Tail(stack)
        /\ n # Len(buf) => stack' = stack
    BY <2>1 DEF Sent, Pop
  <2>4. CASE ready
    <3>1. /\ Asked(buf)' /\ Asked(c2s)'
          /\ NoneFinal(buf) => NoneFinal(buf)' /\ NoneFinal(c2s)'
          /\ n # Len(buf) => NoneFinal(c2s)'
          /\ n = Len(buf) => buf' = <<>>
      BY <1>1, <1>2, <1>8, <2>1, <2>3, <2>4, SendPieces
    <3>3. stack' = stack => NoneFinal(c2s)'
      BY <1>3, <2>3, <3>1
    <3> QED BY <1>7, <2>2, <2>3, <2>4, <3>1, <3>3
  <2>5. CASE ~ ready
    <3>1. /\ s2c = <<>> /\ c2s = <<>> /\ Login(buf)
      BY <1>9, <2>5
    <3>2. n = Len(buf) /\ Len(SubSeq(buf, n + 1, Len(buf))) = 0
      <4>1. n = Len(buf)
        BY <3>1 DEF Login
      <4>2. Len(SubSeq(buf, n + 1, Len(buf))) = Len(buf) - n
        BY <1>1, CutKinds
      <4> QED BY <1>1, <4>1, <4>2
    <3>3. buf' = <<>>
      BY <1>1, <2>3, <3>2, CutKinds, EmptySeq
    <3>4. c2s' = <<>> \/ c2s' = buf
      <4>1. SubSeq(buf, 1, n) = buf
        BY <1>1, <3>2, SubSeqFull
      <4>2. <<>> \o buf = buf
        BY <1>1, Together
      <4> QED BY <2>1, <3>1, <4>1, <4>2
    <3>5. c2s' = <<>> \/ Login(c2s)'
      BY <2>2, <3>1, <3>4 DEF Login
    <3> QED BY <1>7, <2>2, <2>3, <2>5, <3>2, <3>3, <3>5
  <2> QED BY <2>4, <2>5
<1> QED BY <1>5, <1>6, <1>10, <1>11 DEF drizzle_state_write

----------------------------------------------------------------------------
(* The handshake.                                                          *)

(* drizzle_state_handshake_server_read: the greeting is all that the       *)
(* server has said.                                                        *)
LEMMA GreetingPackets ==
  ASSUME Sound, StackInvariant', SessionInvariant', drizzle_state_handshake_server_read
  PROVE  PacketInvariant'
<1> USE DEF Sound
<1>1. /\ pc = "loop" /\ stack = <<"handshake_server_read">> /\ Quiet /\ ~ Closing
      /\ Head(stack) = "handshake_server_read" /\ stack # <<>> /\ Tail(stack) = <<>>
  <2>1. pc = "loop" /\ stack = <<"handshake_server_read">> /\ Quiet /\ ~ Closing
    BY Shapes DEF drizzle_state_handshake_server_read, Running, Parsers, StackInvariant,
       WellFormedStack, Closing
  <2> QED BY <2>1
<1>2. /\ packet_size \in {0, 1} /\ (packet_size = 1 => buf # <<>>)
      /\ buf \in Seq(Units) /\ Len(buf) \in Nat
  BY <1>1, LenProperties DEF ParserHasPacket, Top, StackInvariant, TypeOK, ConnectionTypeOK
<1>3. ~ Short
  BY <1>2, EmptySeq DEF Short
<1>4. GreetingIsError \/ GreetingRejected \/ GreetingAccepted
  BY <1>3 DEF drizzle_state_handshake_server_read, Parse
<1>5. /\ UNCHANGED <<sock, s2c, c2s, op, inConnect, stage, result>>
      /\ UNCHANGED <<ready, packet_number>>
  BY <1>1, <1>3 DEF drizzle_state_handshake_server_read, Parse, Quiet, ioVars, callVars, appVars,
     cmdVars, conVars, GreetingIsError, GreetingRejected, GreetingAccepted
<1>6. /\ stack \in ConnectStates /\ Connecting /\ ~ ready
  BY <1>1 DEF ConnectStates, Connecting, SessionInvariant, StackTellsReady
<1>7. ASSUME pc' \in {"loop", "stop"}, stack' # <<>>, Head(stack') # "field_read"
      PROVE  CallsMatch'
  <2>1. ~ Top({"field_read"})' /\ (sock # "connected" => c2s = <<>>)
    BY <1>7 DEF Top, PacketInvariant, CallsMatch
  <2> QED BY <1>1, <1>5, <1>6, <1>7, <2>1, CallsGoOn DEF PacketInvariant
<1>8. CASE sock # "connected"
  <2>1. \/ stack' = stack /\ pc' = "stop"
        \/ GreetingAccepted
    BY <1>4 DEF GreetingIsError, GreetingRejected, Return
  <2>2. ~ GreetingAccepted
    <3>1. GreetingAccepted => buf # <<>>
      BY <1>2 DEF GreetingAccepted
    <3> QED BY <1>8, <3>1 DEF SessionInvariant, CleanApart, Clean
  <2>3. CallsMatch'
    BY <1>1, <1>7, <2>1, <2>2
  <2> QED BY <1>5, <1>8, <2>3, Vacuous DEF PacketInvariant
<1>9. CASE sock = "connected"
  <2>1. /\ c2s = <<>>
        /\ packet_size = 1 => OneAhead(1, {"greeting", "refusal", "err"}, 0)
        /\ packet_size # 1 => Silent
    BY <1>1, <1>6, <1>9 DEF PacketInvariant, HandshakeInOrder
  <2>2. ASSUME packet_size = 1, buf' = Tail(buf) PROVE Silent'
    <3>1. Said \in Seq(Units) /\ Said' = Tail(Said)
      BY <1>2, <1>5, <2>2, SaidTyped
    <3>2. Tail(Said) = <<>>
      BY <2>1, <2>2, <3>1, OneBody DEF OneAhead
    <3> QED BY <3>1, <3>2, NowSaid
  <2>3. CASE GreetingIsError
    <3>1. stack' = stack /\ pc' = "stop" /\ packet_size' = 0 /\ Silent'
      <4>1. CASE packet_size = 1
        BY <2>2, <2>3, <4>1 DEF GreetingIsError, Consume, Return
      <4>2. CASE packet_size # 1
        BY <1>2, <1>5, <2>1, <2>3, <4>2 DEF GreetingIsError, Return, dataVars, Silent
      <4> QED BY <4>1, <4>2
    <3>2. CallsMatch'
      BY <1>1, <1>7, <3>1
    <3>3. /\ stack' = <<"handshake_server_read">>
          /\ "handshake_server_read" \in Parsers
          /\ \A h : stack' \notin Reading(h)
          /\ stack' # <<"handshake_result_read">>
          /\ stack' # <<"connecting", "packet_read", "handshake_server_read">>
      <4>1. "handshake_server_read" \in Parsers
        BY DEF Parsers
      <4>2. /\ <<"handshake_server_read">> # <<"handshake_result_read">>
            /\ <<"handshake_server_read">>
                 # <<"connecting", "packet_read", "handshake_server_read">>
        OBVIOUS
      <4> QED BY <1>1, <3>1, <4>1, <4>2, AloneClasses
    <3>4. ~ Top({"write"})' /\ ~ Top({"handshake_client_write"})'
      BY <1>1, <3>1 DEF Top
    <3>5. HandshakeInOrder'
      BY <1>5, <2>1, <3>1, <3>3, <3>4 DEF HandshakeInOrder
    <3> QED BY <1>5, <1>6, <3>2, <3>5 DEF PacketInvariant, ReplyInOrder, Requests
  <2>4. CASE GreetingRejected
    <3>1. /\ stack' = stack /\ pc' = "stop"
          /\ rc' \in {"UNEXPECTED_DATA", "BAD_HANDSHAKE_PACKET"}
      BY <2>4 DEF GreetingRejected, Return
    <3>2. CallsMatch'
      BY <1>1, <1>7, <3>1
    <3> QED BY <3>1, <3>2, Vacuous DEF PacketInvariant, Closing, Resumable
  <2>5. CASE GreetingAccepted
    <3>1. <<"handshake_client_write", "write", "packet_read", "handshake_result_read">> \o <<>>
          = <<"handshake_client_write", "write", "packet_read", "handshake_result_read">>
      BY OnEmpty DEF Handlers
    <3>2. /\ stack' = <<"handshake_client_write", "write", "packet_read",
                        "handshake_result_read">>
          /\ pc' = "loop" /\ buf' = Tail(buf) /\ packet_size = 1
      BY <1>1, <2>5, <3>1 DEF GreetingAccepted, Replace, Continue, Consume
    <3>3. Silent'
      BY <2>2, <3>2
    <3>4. /\ stack' \in Writers /\ stack' # <<>> /\ Head(stack') = "handshake_client_write"
      BY <3>2 DEF Writers
    <3>5. CallsMatch'
      BY <1>7, <3>2, <3>4
    <3>6. ~ Top({"write"})'
      BY <3>4 DEF Top
    <3>7. ReplyInOrder' /\ Requests' /\ HandshakeInOrder'
      BY <1>5, <1>6, <2>1, <3>2, <3>3, <3>4, <3>6, WriterNext
    <3> QED BY <3>5, <3>7 DEF PacketInvariant
  <2> QED BY <1>4, <2>3, <2>4, <2>5
<1> QED BY <1>8, <1>9

(* drizzle_state_handshake_client_write.                                   *)
LEMMA ClientWritePackets ==
  ASSUME Sound, StackInvariant', SessionInvariant', drizzle_state_handshake_client_write
  PROVE  PacketInvariant'
<1> USE DEF Sound
<1>1. /\ pc = "loop" /\ Quiet /\ ~ Closing
      /\ stack = <<"handshake_client_write", "write", "packet_read", "handshake_result_read">>
  BY Shapes DEF drizzle_state_handshake_client_write, Running, StackInvariant, WellFormedStack,
     Closing
<1>2. /\ Head(stack) = "handshake_client_write" /\ stack # <<>>
      /\ Tail(stack) = <<"write", "packet_read", "handshake_result_read">>
  BY <1>1
<1> DEFINE u == Unit("whole", "auth", packet_number, 0, 0)
<1>3. /\ UNCHANGED <<ready, sock, s2c, c2s, result, op, inConnect, stage>>
      /\ buf' = Append(buf, u) /\ packet_number' = (packet_number + 1) % PacketMod
      /\ stack' = <<"write", "packet_read", "handshake_result_read">> /\ pc' = "loop"
  BY <1>1, <1>2 DEF drizzle_state_handshake_client_write, Pop, Continue, Quiet, ioVars, cmdVars,
     callVars, appVars
<1>4. stack \in HandshakeStates /\ ~ ready /\ sock = "connected" /\ Connecting
  BY <1>1 DEF HandshakeStates, SessionInvariant, StackTellsReady, CleanApart, Connecting
<1>5. Silent /\ c2s = <<>>
  BY <1>1, <1>2, <1>4 DEF PacketInvariant, HandshakeInOrder, Top
<1>6. /\ u \in Units /\ u.part = "whole" /\ u.kind = "auth" /\ u.seq = packet_number
  <2>1. packet_number \in 0..(PacketMod - 1)
    BY DEF StackInvariant, TypeOK, ConnectionTypeOK
  <2> QED BY <2>1 DEF Unit, Units, ClientKinds
<1> HIDE DEF u
<1>7. Login(buf)'
  <2>1. buf' = Append(<<>>, u)
    BY <1>3, <1>5 DEF Silent
  <2>2. Append(<<>>, u) = <<u>>
    OBVIOUS
  <2>3. Len(<<u>>) = 1 /\ <<u>>[1] = u
    OBVIOUS
  <2> QED BY <1>3, <1>6, <2>1, <2>2, <2>3 DEF Login
<1>8. stack' \in Writers /\ stack' # <<>> /\ Head(stack') = "write"
  BY <1>3 DEF Writers
<1>9. CallsMatch'
  <2>1. ~ Top({"field_read"})'
    BY <1>8 DEF Top
  <2> QED BY <1>1, <1>3, <1>4, <2>1, CallsGoOn DEF PacketInvariant
<1>10. ReplyInOrder' /\ Requests' /\ HandshakeInOrder'
  <2>1. ~ Top({"handshake_client_write"})'
    BY <1>8 DEF Top
  <2> QED BY <1>3, <1>4, <1>5, <1>7, <1>8, <2>1, WriterNext DEF Silent
<1> QED BY <1>9, <1>10 DEF PacketInvariant

(* drizzle_state_handshake_result_read: nothing follows the server's       *)
(* answer to the client's.                                                 *)
LEMMA HandshakeResultPackets ==
  ASSUME Sound, StackInvariant', SessionInvariant', drizzle_state_handshake_result_read
  PROVE  PacketInvariant'
<1> USE DEF Sound
<1>1. /\ pc = "loop" /\ stack = <<"handshake_result_read">> /\ Quiet /\ ~ Closing
  BY Shapes DEF drizzle_state_handshake_result_read, Running, StackInvariant, WellFormedStack,
     Parsers, Closing
<1>2. Head(stack) = "handshake_result_read" /\ stack # <<>> /\ Tail(stack) = <<>>
  BY <1>1
<1>3. packet_size = 1 /\ buf # <<>> /\ buf \in Seq(Units)
  BY <1>2 DEF ParserHasPacket, Top, StackInvariant, TypeOK, ConnectionTypeOK, Parsers
<1>4. ~ Short
  BY <1>3, EmptySeq DEF Short
<1>5. /\ UNCHANGED <<sock, s2c, c2s, op, inConnect, stage>>
      /\ buf' = Tail(buf) /\ stack' = <<>> /\ result' = Free(NewResult)
      /\ \/ pc' = "loop"
         \/ pc' = "stop" /\ rc' \in {"HANDSHAKE_FAILED", "AUTH_FAILED"}
  BY <1>1, <1>2, <1>4 DEF drizzle_state_handshake_result_read, Consume, Pop, Return, Continue,
     Quiet, ioVars, callVars, appVars
<1>6. /\ stack \in HandshakeStates /\ sock = "connected" /\ ~ ready /\ Connecting
  BY <1>1 DEF HandshakeStates, ReaderStates, SessionInvariant, CleanApart, StackTellsReady,
     Connecting
<1>7. c2s = <<>> /\ OneAhead(1, {"ok", "eof", "err"}, 0)
  BY <1>1, <1>6 DEF PacketInvariant, HandshakeInOrder
<1>8. Silent'
  <2>1. Said \in Seq(Units) /\ Said' = Tail(Said)
    BY <1>3, <1>5, SaidTyped
  <2>2. Tail(Said) = <<>>
    BY <1>7, <2>1, OneBody DEF OneAhead
  <2> QED BY <2>1, <2>2, NowSaid
<1>9. inConnect /\ op \in Asks /\ stage = "done"
  BY <1>1, <1>6 DEF PacketInvariant, CallsMatch, InCall
<1>10. CallsMatch'
  <2>1. ~ Top({"field_read"})'
    BY <1>5 DEF Top
  <2> QED BY <1>1, <1>5, <1>6, <1>9, <2>1, CallsGoOn DEF PacketInvariant
<1>11. CASE pc' = "loop"
  <2>1. Between'
    BY <1>5, <1>8, <1>9, <1>11 DEF Between, Succeeding, Complaining, After, Asks, Commands
  <2>2. ~ result'.skip
    BY <1>5 DEF Free, NewResult, EmptyResult
  <2>3. NoneFinal(c2s)'
    <3>1. Len(c2s') = 0
      BY <1>5, <1>7
    <3> QED BY <3>1 DEF NoneFinal
  <2> QED BY <1>5, <1>10, <1>11, <2>1, <2>2, <2>3, AtRest DEF PacketInvariant
<1>12. CASE pc' = "stop" /\ rc' \in {"HANDSHAKE_FAILED", "AUTH_FAILED"}
  BY <1>10, <1>12, Vacuous DEF PacketInvariant, Closing, Resumable
<1> QED BY <1>5, <1>11, <1>12

----------------------------------------------------------------------------
(* A command.                                                              *)

(* The pieces of a command that are copied to the buffer.                  *)
LEMMA CopiedPieces ==
  ASSUME StackInvariant, NEW m \in 1..command.left
  PROVE  /\ Len(Copied(m)) = m /\ m \in Nat
         /\ command.left \in Nat /\ Chunks(command.name) \in Nat
         /\ \A i \in 1..m :
              /\ Copied(m)[i].k = command.k /\ Copied(m)[i].kind = command.name
              /\ Final(Copied(m)[i]) =>
                   i = m /\ m = command.left /\ command.name \in {"query", "init_db"}
<1>1. /\ command.left \in Nat /\ command.left <= Chunks(command.name)
      /\ Chunks(command.name) \in Nat
  BY ProtocolAssumption DEF ProtocolAssumption, StackInvariant, TypeOK, CommandTypeOK, CommandLeft,
     Chunks
<1> DEFINE sent == Chunks(command.name) - command.left
           piece(i) == Unit("whole", command.name, 0, command.k, sent + i)
<1>2. /\ Len(Copied(m)) = m /\ m \in Nat
      /\ \A i \in 1..m : Copied(m)[i] = piece(i)
  <2>1. m \in Nat
    BY <1>1
  <2> QED BY <2>1 DEF Copied
<1>3. ASSUME NEW i \in 1..m
      PROVE  /\ piece(i).k = command.k /\ piece(i).kind = command.name
             /\ Final(piece(i)) =>
                  i = m /\ m = command.left /\ command.name \in {"query", "init_db"}
  <2>1. /\ piece(i).k = command.k /\ piece(i).kind = command.name
        /\ piece(i).n = sent + i
    BY DEF Unit
  <2>2. sent + i >= Chunks(command.name) => i = m /\ m = command.left
    <3>1. \A C \in Nat, L \in Nat : m <= L /\ L <= C /\ (C - L) + i >= C => i = m /\ m = L
      BY <1>2
    <3>2. m <= command.left
      BY <1>1
    <3> QED BY <1>1, <3>1, <3>2
  <2> HIDE DEF piece, sent
  <2> QED BY <2>1, <2>2 DEF Final
<1> HIDE DEF piece, sent
<1> QED BY <1>1, <1>2, <1>3

(* drizzle_state_command_write: nothing is in the buffer, and what is      *)
(* copied there is the next of the command.                                *)
LEMMA CommandWritePackets ==
  ASSUME Sound, StackInvariant', SessionInvariant', drizzle_state_command_write
  PROVE  PacketInvariant'
<1> USE DEF Sound
<1>1. /\ pc = "loop" /\ stack = <<"command_write">> /\ Quiet /\ ~ Closing
      /\ UNCHANGED <<ready, packet_size, result>> /\ pc' = "loop"
  BY CommandWriteEffect DEF Closing
<1>2. /\ Tail(stack) = <<>> /\ stack # <<>> /\ Head(stack) = "command_write"
      /\ Top({"command_write"}) /\ stack # <<"result_read">> /\ stack \in Writers
  <2>1. /\ Tail(stack) = <<>> /\ stack # <<>> /\ Head(stack) = "command_write"
        /\ stack # <<"result_read">>
    BY <1>1
  <2> QED BY <1>1, <2>1 DEF Top, Writers
<1>3. stack \in CommandStates /\ ready /\ sock = "connected"
  BY <1>1 DEF CommandStates, SessionInvariant, StackTellsReady, CleanApart, Clean
<1>4. UNCHANGED <<sock, s2c, c2s, op, inConnect, stage>>
  BY <1>1 DEF Quiet, ioVars, callVars, appVars
<1>5. /\ Silent /\ (command.left < Chunks(command.name) => packet_number = 1)
      /\ op # "row" /\ command.name = op /\ result.columns = 0 /\ NoneFinal(c2s)
      /\ ~ result.skip
  <2>1. Silent /\ (command.left < Chunks(command.name) => packet_number = 1)
    BY <1>1, <1>2, <1>3 DEF PacketInvariant, Requests
  <2>2. op # "row" /\ command.name = op /\ result.columns = 0
    BY <1>1, <1>2, <1>3 DEF PacketInvariant, Requests
  <2>3. stack \notin Reading("result_read")
    BY <1>2, WriterClasses DEF Parsers
  <2>4. NoneFinal(c2s)
    BY <1>1, <1>3, <2>3 DEF PacketInvariant, Requests
  <2>5. ~ result.skip
    BY <1>1, <1>3 DEF PacketInvariant, ReplyInOrder
  <2> QED BY <2>1, <2>2, <2>4, <2>5
<1>6. CopyCommand
  <2>1. ~ FlushFirst
    BY <1>5 DEF FlushFirst, Silent
  <2> QED BY <2>1 DEF drizzle_state_command_write
<1>7. PICK m \in 1..command.left :
        /\ IF command.left = Chunks(command.name)
           THEN packet_number' = 1 /\ buf' = buf \o Copied(m)
           ELSE m = command.left /\ buf' = Copied(m) /\ UNCHANGED packet_number
        /\ command' = [command EXCEPT !.left = @ - m]
        /\ IF m = command.left THEN Replace(<<"write">> \o Reply) ELSE Push(<<"write">>)
  BY <1>6 DEF CopyCommand
<1>8. /\ command \in [k : Nat, name : Commands, left : Nat]
      /\ command.left <= Chunks(command.name)
  BY DEF StackInvariant, TypeOK, CommandTypeOK, CommandLeft
<1>9. /\ Len(Copied(m)) = m /\ m \in Nat
      /\ command.left \in Nat /\ Chunks(command.name) \in Nat
      /\ \A i \in 1..m :
           /\ Copied(m)[i].k = command.k /\ Copied(m)[i].kind = command.name
           /\ Final(Copied(m)[i]) =>
                i = m /\ m = command.left /\ command.name \in {"query", "init_db"}
  BY CopiedPieces
<1>10. packet_number' = 1 /\ buf' = Copied(m)
  <2>1. CASE command.left = Chunks(command.name)
    <3>1. Copied(m) \in Seq(Units)
      <4>1. /\ command.name \in ClientKinds /\ command.k \in Nat
            /\ 0 \in 0..(PacketMod - 1)
        BY <1>8, ConfigAssumption DEF ConfigAssumption, ClientKinds
      <4>2. \A i \in 1..m : Unit("whole", command.name, 0, command.k,
                                 Chunks(command.name) - command.left + i) \in Units
        <5>1. \A i \in 1..m : Chunks(command.name) - command.left + i \in Nat
          BY <1>8, <1>9
        <5> QED BY <4>1, <5>1 DEF Unit, Units
      <4> QED BY <1>9, <4>2, IsASeq DEF Copied
    <3>2. <<>> \o Copied(m) = Copied(m)
      BY <3>1, Together
    <3> QED BY <1>5, <1>7, <2>1, <3>2 DEF Silent
  <2>2. CASE command.left # Chunks(command.name)
    BY <1>5, <1>7, <1>8, <1>9, <2>2
  <2> QED BY <2>1, <2>2
<1>11. /\ command'.k = command.k /\ command'.name = command.name
       /\ command'.left = command.left - m
  BY <1>7, <1>8
<1>12. /\ Asked(buf)'
       /\ command.name \notin {"query", "init_db"} \/ m # command.left => NoneFinal(buf)'
  BY <1>9, <1>10, <1>11 DEF Asked, NoneFinal
<1>13. /\ "write" \in Handlers /\ "command_write" \in Handlers
       /\ "packet_read" \in Handlers /\ "result_read" \in Handlers
  BY DEF Handlers
<1>14. /\ m = command.left /\ op = "noreply" => stack' = <<"write">>
       /\ m = command.left /\ op # "noreply"
            => stack' = <<"write", "packet_read", "result_read">>
       /\ m # command.left => stack' = <<"write", "command_write">>
  <2>1. /\ <<"write">> \o <<"command_write">> = <<"write", "command_write">>
        /\ <<"write">> \o <<"packet_read", "result_read">>
             = <<"write", "packet_read", "result_read">>
    BY <1>13, Extensions
  <2>2. /\ <<"write">> \o <<>> = <<"write">>
        /\ <<"write", "packet_read", "result_read">> \o <<>>
             = <<"write", "packet_read", "result_read">>
    BY <1>13, OnEmpty
  <2>3. m = command.left => stack' = (<<"write">> \o Reply) \o <<>>
    BY <1>2, <1>7 DEF Replace
  <2>4. m # command.left => stack' = <<"write">> \o <<"command_write">>
    BY <1>1, <1>7 DEF Push
  <2> QED BY <2>1, <2>2, <2>3, <2>4 DEF Reply
<1>15. /\ stack' \in Writers /\ stack' # <<>> /\ Head(stack') = "write"
       /\ stack' # <<"command_write">>
  BY <1>14 DEF Writers
<1>16. CallsMatch'
  <2>1. ~ Top({"field_read"})'
    BY <1>15 DEF Top
  <2>2. Connecting' => Connecting
    BY <1>1, <1>3, <1>4, ConnectingGoesOn
  <2>3. ~ inConnect
    BY <1>2, <1>3 DEF PacketInvariant, CallsMatch
  <2> QED BY <1>1, <1>3, <1>4, <2>1, <2>2, <2>3, CallsGoOn DEF PacketInvariant
<1>17. ReplyInOrder' /\ Requests' /\ HandshakeInOrder'
  <2>1. NoneFinal(c2s)' /\ s2c' = <<>>
    BY <1>4, <1>5 DEF NoneFinal, Silent
  <2>2. stack' = <<"write">> => op' = "noreply" /\ NoneFinal(buf)'
    <3>1. <<"write">> # <<"write", "packet_read", "result_read">>
          /\ <<"write">> # <<"write", "command_write">>
      OBVIOUS
    <3>2. "noreply" \notin {"query", "init_db"}
      OBVIOUS
    <3> QED BY <1>4, <1>5, <1>12, <1>14, <3>1, <3>2
  <2>3. stack' = <<"write", "command_write">> =>
          command'.left < Chunks(command'.name) /\ NoneFinal(buf)'
    <3>1. /\ <<"write", "command_write">> # <<"write", "packet_read", "result_read">>
          /\ <<"write">> # <<"write", "command_write">>
      OBVIOUS
    <3>2. command.left - m < Chunks(command.name)
      <4>1. \A C \in Nat, L \in Nat : L <= C /\ m \in 1..L => L - m < C
        BY <1>9
      <4> QED BY <1>8, <1>9, <4>1
    <3> QED BY <1>11, <1>12, <1>14, <3>1, <3>2
  <2>4. stack' = <<"write", "packet_read", "result_read">> => op' # "noreply"
    <3>1. /\ <<"write", "command_write">> # <<"write", "packet_read", "result_read">>
          /\ <<"write">> # <<"write", "packet_read", "result_read">>
      OBVIOUS
    <3> QED BY <1>4, <1>14, <3>1
  <2>5. ~ Top({"handshake_client_write"})' /\ ready'
    BY <1>1, <1>3, <1>15 DEF Top
  <2> QED BY <1>1, <1>4, <1>5, <1>10, <1>11, <1>12, <1>15, <2>1, <2>2, <2>3, <2>4, <2>5, WriterNext
<1> QED BY <1>16, <1>17 DEF PacketInvariant

----------------------------------------------------------------------------
(* A reply.                                                                *)

(* A parser of a reply that runs has its packet, on an authenticated       *)
(* connection, and one unit less is left when it has consumed it.          *)
LEMMA AtWork ==
  ASSUME Sound, pc = "loop", NEW h \in {"result_read", "column_read", "row_read"},
         stack = <<h>>
  PROVE  /\ ~ Short /\ buf # <<>> /\ Tail(stack) = <<>> /\ stack # <<>> /\ Head(stack) = h
         /\ sock = "connected" /\ ready /\ ~ inConnect /\ ~ Connecting /\ ~ Closing
         /\ Said \in Seq(Units) /\ Head(Said) = Body
         /\ ~ Silent
         /\ buf' = Tail(buf) /\ s2c' = s2c => Said' = Tail(Said)
         /\ ~ result.skip /\ NoneFinal(c2s)
<1> USE DEF Sound
<1>1. ~ Short /\ buf # <<>> /\ Tail(stack) = <<>> /\ stack # <<>> /\ Head(stack) = h
  BY Parsed
<1>2. /\ h \in Parsers /\ h \notin {"handshake_server_read", "handshake_result_read"}
      /\ "result_read" \in Parsers
  BY DEF Parsers
<1>3. /\ stack \notin ConnectStates /\ stack \notin HandshakeStates
      /\ stack \notin Reading("result_read")
  BY <1>2, AloneClasses
<1>4. sock = "connected" /\ ~ Closing
  BY <1>1 DEF SessionInvariant, CleanApart, Clean, Closing
<1>5. ready
  BY <1>3, <1>4 DEF SessionInvariant, StackTellsReady
<1>6. ~ inConnect /\ ~ Connecting
  BY <1>1, <1>3, <1>5 DEF PacketInvariant, CallsMatch, Connecting
<1>7. Said \in Seq(Units) /\ Head(Said) = Body /\ ~ Silent
      /\ (buf' = Tail(buf) /\ s2c' = s2c => Said' = Tail(Said))
  BY <1>1, SaidTyped DEF Body, Silent
<1>8. ~ result.skip
  BY <1>4, <1>5 DEF PacketInvariant, ReplyInOrder
<1>9. NoneFinal(c2s)
  BY <1>3, <1>4, <1>5 DEF PacketInvariant, Requests
<1> QED BY <1>1, <1>4, <1>5, <1>6, <1>7, <1>8, <1>9

(* Silence is kept by what is not said.                                    *)
LEMMA Hushed ==
  ASSUME StackInvariant, StackInvariant', Said' = Tail(Said), Tail(Said) = <<>>
  PROVE  Silent'
BY NowSaid

(* drizzle_state_result_read: an answer with columns is followed by them,  *)
(* another by nothing.                                                     *)
LEMMA ResultReadPackets ==
  ASSUME Sound, StackInvariant', SessionInvariant', drizzle_state_result_read
  PROVE  PacketInvariant'
<1> USE DEF Sound
<1>1. pc = "loop" /\ stack = <<"result_read">> /\ Quiet
  BY Shapes DEF drizzle_state_result_read, Running, StackInvariant, WellFormedStack, Parsers
<1>2. /\ ~ Short /\ buf # <<>> /\ Tail(stack) = <<>> /\ stack # <<>>
      /\ ready /\ ~ inConnect /\ ~ Connecting /\ ~ Closing /\ sock = "connected"
      /\ Said \in Seq(Units) /\ Head(Said) = Body
      /\ buf' = Tail(buf) /\ s2c' = s2c => Said' = Tail(Said)
      /\ ~ result.skip /\ NoneFinal(c2s)
  BY <1>1, AtWork
<1>3. /\ UNCHANGED <<ready, packet_number, sock, s2c, c2s, command, op, inConnect, stage>>
      /\ buf' = Tail(buf) /\ stack' = <<>> /\ result' = Filled(result)
      /\ IF Body.kind = "err" THEN pc' = "stop" /\ rc' = "ERROR_CODE" ELSE pc' = "loop"
  BY <1>1, <1>2 DEF drizzle_state_result_read, Parse, Consume, Pop, Return, Continue, conVars,
     Quiet, ioVars, callVars, appVars
<1>4. Said' = Tail(Said)
  BY <1>2, <1>3
<1>5. op # "noreply" /\ op \in Asks \cup {"columns", "row", "fields"}
      /\ (op \in Asks <=> stage = "done") /\ (op = "columns" <=> stage = "columns")
  <2>1. stack \in CommandStates /\ stack \in ReaderStates("result_read")
    BY <1>1 DEF CommandStates, ReaderStates
  <2> QED BY <1>1, <1>2, <2>1 DEF PacketInvariant, CallsMatch, Requests
<1>6. /\ op = "row" => OneAhead(1, {"err"}, command.k)
      /\ op # "row" => /\ ReplyAhead(1) /\ command.name = op /\ result.columns = 0
  <2>1. stack \in CommandStates
    BY <1>1 DEF CommandStates, ReaderStates
  <2> QED BY <1>1, <1>2, <2>1 DEF PacketInvariant, ReplyInOrder, Requests
<1>7. /\ op = "row" => Body.kind = "err" /\ Tail(Said) = <<>>
      /\ op # "row" =>
           /\ Body.kind \in {"ok", "err", "count"}
           /\ Body.kind = "count" => /\ op = "query" /\ Body.n > 0
                                     /\ ColumnsLeft(Tail(Said), packet_number, 0, command.k)
           /\ Body.kind # "count" => Tail(Said) = <<>>
  <2>1. CASE op = "row"
    BY <1>2, <1>6, <2>1, OneBody DEF OneAhead
  <2>2. CASE op # "row"
    BY <1>2, <1>6, <2>2, ReplyBody DEF ReplyAhead
  <2> QED BY <2>1, <2>2
<1>8. result \in Results /\ Body.n \in Nat
  BY <1>1, Parsed DEF StackInvariant, TypeOK, CommandTypeOK
<1>9. /\ Body.kind # "count" => result' = result
      /\ Body.kind = "count" => result'.columns = Body.n
      /\ ~ result'.skip /\ result'.buffered = result.buffered
      /\ result'.row_current = result.row_current
  BY <1>2, <1>3, <1>7, <1>8 DEF Filled, Results
<1>10. Body.kind # "count" => Silent'
  <2>1. Body.kind # "count" => Tail(Said) = <<>>
    BY <1>7
  <2> QED BY <1>4, <2>1, Hushed
<1>11. op # "row" => op \in Commands /\ stage = "done"
  <2>1. op = command.name => op \in Commands
    BY DEF StackInvariant, TypeOK, CommandTypeOK
  <2> QED BY <1>5, <1>6, <2>1 DEF Asks
<1>12. CallsMatch'
  <2>1. ~ Top({"field_read"})' /\ ~ Connecting'
    <3>1. ~ Top({"field_read"})'
      BY <1>3 DEF Top
    <3>2. ~ Connecting'
      BY <1>3, ConnectClasses DEF Connecting
    <3> QED BY <3>1, <3>2
  <2>2. stage = "columns" => result'.columns = result.columns
    BY <1>5, <1>9, <1>7, <1>11
  <2> QED BY <1>1, <1>2, <1>3, <1>9, <2>1, <2>2, CallsGoOn DEF PacketInvariant
<1>13. Between'
  <2>1. CASE Body.kind = "err"
    BY <1>3, <1>10, <2>1 DEF Between, Succeeding, Complaining
  <2>2. CASE Body.kind # "err"
    <3>1. op \in Commands /\ op # "row" /\ op # "columns" /\ op # "fields"
      BY <1>7, <1>11, <2>2 DEF Commands
    <3>2. Body.kind = "count" => ColumnsAhead(0)'
      BY <1>3, <1>4, <1>7, <3>1 DEF ColumnsAhead
    <3>3. ~ inConnect' /\ op' = op
      BY <1>2, <1>3
    <3>4. IF op' = "query" /\ result'.columns > 0 THEN ColumnsAhead(0)' ELSE Silent'
      BY <1>6, <1>7, <1>8, <1>9, <1>10, <3>1, <3>2, <3>3
    <3>5. After'
      BY <3>1, <3>3, <3>4 DEF After
    <3> QED BY <1>3, <2>2, <3>5 DEF Between, Succeeding, Complaining
  <2> QED BY <2>1, <2>2
<1>14. NoneFinal(c2s)'
  BY <1>2, <1>3 DEF NoneFinal
<1>15. ReplyInOrder' /\ Requests' /\ HandshakeInOrder'
  BY <1>3, <1>9, <1>13, <1>14, AtRest
<1> QED BY <1>12, <1>15 DEF PacketInvariant

(* drizzle_state_column_read: the column or the EOF packet is followed by  *)
(* what column tells.                                                      *)
LEMMA ColumnReadPackets ==
  ASSUME Sound, StackInvariant', SessionInvariant', drizzle_state_column_read
  PROVE  PacketInvariant'
<1> USE DEF Sound
<1>1. pc = "loop" /\ stack = <<"column_read">> /\ Quiet
  BY Shapes DEF drizzle_state_column_read, Running, StackInvariant, WellFormedStack, Parsers
<1>2. /\ ~ Short /\ buf # <<>> /\ Tail(stack) = <<>> /\ stack # <<>>
      /\ ready /\ ~ inConnect /\ ~ Connecting /\ ~ Closing /\ sock = "connected"
      /\ Said \in Seq(Units) /\ Head(Said) = Body
      /\ buf' = Tail(buf) /\ s2c' = s2c => Said' = Tail(Said)
      /\ ~ result.skip /\ NoneFinal(c2s)
  BY <1>1, AtWork
<1>3. /\ UNCHANGED <<ready, packet_number, sock, s2c, c2s, command, op, inConnect, stage, rc>>
      /\ buf' = Tail(buf) /\ stack' = <<>> /\ pc' = "loop"
      /\ result' = IF Body.kind = "eof"
                   THEN [result EXCEPT !.column = FALSE]
                   ELSE [result EXCEPT !.column = @ \/ ~ result.skip,
                                       !.column_current = @ + 1]
  BY <1>1, <1>2 DEF drizzle_state_column_read, Parse, Consume, Pop, Return, Continue, conVars,
     Quiet, ioVars, callVars, appVars
<1>4. Said' = Tail(Said)
  BY <1>2, <1>3
<1>5. op = "columns" /\ ColumnsAhead(1)
  <2>1. stack \in ReaderStates("column_read")
    BY <1>1 DEF ReaderStates
  <2> QED BY <1>1, <1>2, <2>1 DEF PacketInvariant, ReplyInOrder
<1>6. /\ Body.kind = "eof" => RowsLeft(Tail(Said), packet_number, 0, command.k)
      /\ Body.kind # "eof" => ColumnsLeft(Tail(Said), packet_number, 0, command.k)
  BY <1>2, <1>5, ColumnsBody DEF ColumnsAhead
<1>7. result \in Results
  BY DEF StackInvariant, TypeOK, CommandTypeOK
<1>8. /\ result'.column = (Body.kind # "eof")
      /\ ~ result'.skip /\ result'.buffered = result.buffered
      /\ result'.columns = result.columns
  BY <1>2, <1>3, <1>7 DEF Results
<1>9. CallsMatch'
  <2>1. ~ Top({"field_read"})'
    BY <1>3 DEF Top
  <2>2. ~ Connecting'
    BY <1>3, ConnectClasses DEF Connecting
  <2> QED BY <1>1, <1>2, <1>3, <1>8, <2>1, <2>2, CallsGoOn DEF PacketInvariant
<1>10. Between'
  <2>1. IF result'.column THEN ColumnsAhead(0)' ELSE RowsAhead(0)'
    BY <1>3, <1>4, <1>6, <1>8 DEF ColumnsAhead, RowsAhead
  <2>2. After'
    BY <1>2, <1>3, <1>5, <2>1 DEF After, Commands
  <2> QED BY <1>3, <2>2 DEF Between, Succeeding, Complaining
<1>11. NoneFinal(c2s)'
  BY <1>2, <1>3 DEF NoneFinal
<1>12. ReplyInOrder' /\ Requests' /\ HandshakeInOrder'
  BY <1>3, <1>8, <1>10, <1>11, AtRest
<1> QED BY <1>9, <1>12 DEF PacketInvariant

(* drizzle_state_row_read: a row is left for drizzle_state_field_read, an  *)
(* error for drizzle_state_result_read.                                    *)
LEMMA RowReadPackets ==
  ASSUME Sound, StackInvariant', SessionInvariant', drizzle_state_row_read
  PROVE  PacketInvariant'
<1> USE DEF Sound
<1>1. pc = "loop" /\ stack = <<"row_read">> /\ Quiet
  BY Shapes DEF drizzle_state_row_read, Running, StackInvariant, WellFormedStack, Parsers
<1>2. /\ ~ Short /\ buf # <<>> /\ Tail(stack) = <<>> /\ stack # <<>>
      /\ ready /\ ~ inConnect /\ ~ Connecting /\ ~ Closing /\ sock = "connected"
      /\ Said \in Seq(Units) /\ Head(Said) = Body
      /\ buf' = Tail(buf) /\ s2c' = s2c => Said' = Tail(Said)
      /\ ~ result.skip /\ NoneFinal(c2s)
  BY <1>1, AtWork
<1>3. <<"result_read">> \o <<>> = <<"result_read">>
  BY OnEmpty DEF Handlers
<1>4. /\ UNCHANGED <<ready, packet_number, sock, s2c, c2s, command, op, inConnect, stage, rc>>
      /\ pc' = "loop"
      /\ \/ /\ Body.kind = "eof" /\ buf' = Tail(buf) /\ stack' = <<>>
            /\ result' = [result EXCEPT !.row_current = 0]
         \/ /\ Body.kind = "err" /\ stack' = <<"result_read">>
            /\ UNCHANGED <<buf, packet_size, result>>
         \/ /\ Body.kind \notin {"eof", "err"} /\ stack' = <<>>
            /\ result' = [result EXCEPT !.row_current = @ + 1]
            /\ UNCHANGED <<buf, packet_size>>
  <2>1. /\ pc' = "loop"
        /\ CASE Body.kind = "eof" ->
                  /\ Consume /\ Pop
                  /\ result' = [result EXCEPT !.row_current = 0]
             [] Body.kind = "err" ->
                  /\ Replace(<<"result_read">>)
                  /\ UNCHANGED <<dataVars, result>>
             [] OTHER ->
                  /\ Pop
                  /\ result' = [result EXCEPT !.row_current = @ + 1]
                  /\ UNCHANGED dataVars
    BY <1>1, <1>2 DEF drizzle_state_row_read, Parse, Continue
  <2>2. UNCHANGED <<ready, packet_number, sock, s2c, c2s, command, op, inConnect, stage, rc>>
    BY <1>1, <1>2 DEF drizzle_state_row_read, Parse, Continue, conVars,
       Quiet, ioVars, callVars, appVars
  <2> QED BY <1>2, <1>3, <2>1, <2>2 DEF Consume, Pop, Replace, dataVars
<1>5. op = "row" /\ RowsAhead(1)
  <2>1. stack \in ReaderStates("row_read")
    BY <1>1 DEF ReaderStates
  <2> QED BY <1>1, <1>2, <2>1 DEF PacketInvariant, ReplyInOrder
<1>6. /\ Body.kind \in {"row", "eof", "err"}
      /\ Body.kind = "row" => Len(Said) > 2
      /\ Body.kind # "row" => Tail(Said) = <<>>
      /\ Body.kind = "err" => OneLeft(Said, packet_number, 1, {"err"}, command.k)
  BY <1>2, <1>5, RowsBody DEF RowsAhead
<1>7. result \in Results /\ packet_size = 1
  <2>1. Top({"row_read"}) /\ "row_read" \in Parsers \ {"field_read", "handshake_server_read"}
    BY <1>1 DEF Top, Parsers
  <2> QED BY <2>1 DEF StackInvariant, TypeOK, CommandTypeOK, ParserHasPacket, Top
<1>8. /\ ~ result'.skip /\ result'.buffered = result.buffered
      /\ result'.columns = result.columns
      /\ Body.kind = "eof" => result'.row_current = 0
      /\ Body.kind = "row" => result'.row_current # 0
  BY <1>2, <1>4, <1>7 DEF Results
<1>9. CallsMatch'
  <2>1. ~ Top({"field_read"})'
    BY <1>4 DEF Top
  <2>2. ~ Connecting'
    <3>1. "result_read" \in Parsers
      BY DEF Parsers
    <3> QED BY <1>4, <3>1, ConnectClasses, AloneClasses DEF Connecting
  <2> QED BY <1>1, <1>2, <1>4, <1>8, <2>1, <2>2, CallsGoOn DEF PacketInvariant
<1>10. NoneFinal(c2s)'
  BY <1>2, <1>4 DEF NoneFinal
<1>11. CASE Body.kind = "err"
  <2>1. stack' = <<"result_read">> /\ UNCHANGED <<buf, result>>
    BY <1>4, <1>11
  <2>2. Said' = Said
    BY <1>4, <2>1 DEF Said
  <2>3. OneAhead(1, {"err"}, command.k)'
    BY <1>4, <1>6, <1>11, <2>2 DEF OneAhead
  <2>4. "result_read" \in Parsers
    BY DEF Parsers
  <2>5. ReplyInOrder' /\ Requests' /\ HandshakeInOrder'
    BY <1>2, <1>4, <1>5, <1>8, <1>10, <2>1, <2>3, <2>4, ParserNext
  <2> QED BY <1>9, <2>5 DEF PacketInvariant
<1>12. CASE Body.kind # "err"
  <2>1. stack' = <<>>
    BY <1>4, <1>12
  <2>2. IF result'.row_current = 0 THEN Silent' ELSE FieldsAhead'
    <3>1. CASE Body.kind = "eof"
      <4>1. Said' = Tail(Said) /\ Tail(Said) = <<>>
        BY <1>2, <1>4, <1>6, <3>1
      <4> QED BY <1>8, <3>1, <4>1, Hushed
    <3>2. CASE Body.kind = "row"
      <4>1. UNCHANGED <<buf, packet_size>>
        BY <1>4, <3>2
      <4>2. Said' = Said
        BY <1>4, <4>1 DEF Said
      <4> QED BY <1>2, <1>4, <1>5, <1>6, <1>7, <1>8, <3>2, <4>1, <4>2 DEF FieldsAhead, RowsAhead
    <3> QED BY <1>6, <1>12, <3>1, <3>2
  <2>3. After'
    BY <1>2, <1>4, <1>5, <2>2 DEF After, Commands
  <2>4. Between'
    BY <1>4, <2>3 DEF Between, Succeeding, Complaining
  <2>5. ReplyInOrder' /\ Requests' /\ HandshakeInOrder'
    BY <1>4, <1>8, <1>10, <2>1, <2>4, AtRest
  <2> QED BY <1>9, <2>5 DEF PacketInvariant
<1> QED BY <1>11, <1>12

(* drizzle_state_field_read: a row is followed by rows, or by the packet   *)
(* behind them.                                                            *)
LEMMA FieldReadPackets ==
  ASSUME Sound, StackInvariant', SessionInvariant', drizzle_state_field_read
  PROVE  PacketInvariant'
<1> USE DEF Sound
<1>1. /\ pc = "loop" /\ stack = <<"field_read">> /\ Quiet /\ ~ Closing
      /\ UNCHANGED <<ready, packet_number, result, command, rc>> /\ pc' = "loop"
  BY Shapes DEF drizzle_state_field_read, Running, StackInvariant, WellFormedStack, Parsers,
     Continue, conVars, cmdVars, Closing
<1>2. /\ stack # <<>> /\ Head(stack) = "field_read" /\ Tail(stack) = <<>>
      /\ Top({"field_read"})
  BY <1>1 DEF Top
<1>3. UNCHANGED <<sock, s2c, c2s, op, inConnect, stage>>
  BY <1>1 DEF Quiet, ioVars, callVars, appVars
<1>4. op = "fields" /\ stack \notin CommandStates /\ ~ Connecting
      /\ (sock # "connected" => c2s = <<>>)
  <2>1. "field_read" \in Parsers
    BY DEF Parsers
  <2>2. stack \notin CommandStates /\ stack \notin ConnectStates /\ stack \notin HandshakeStates
    BY <1>1, <2>1, AloneClasses
  <2> QED BY <1>2, <2>2 DEF PacketInvariant, CallsMatch, Connecting
<1>5. <<"read">> \o <<"field_read">> = <<"read", "field_read">>
  BY Extensions DEF Handlers
<1>6. /\ buf = <<>> => stack' = <<"read", "field_read">> /\ buf' = buf
      /\ buf # <<>> => stack' = <<>> /\ buf' = Tail(buf)
  BY <1>1, <1>2, <1>5 DEF drizzle_state_field_read, Push, Pop, Consume, dataVars
<1>7. ~ (ready /\ inConnect)
  BY <1>2 DEF PacketInvariant, CallsMatch
<1>8. CallsMatch'
  <2>1. ~ Top({"field_read"})'
    BY <1>6 DEF Top
  <2>2. ~ Connecting'
    <3>1. <<"read", "field_read">> \notin ConnectStates
          /\ <<"read", "field_read">> \notin HandshakeStates
      BY DEF ConnectStates, HandshakeStates, ReaderStates
    <3> QED BY <1>6, <3>1, ConnectClasses DEF Connecting
  <2> QED BY <1>1, <1>3, <1>4, <1>7, <2>1, <2>2, CallsGoOn DEF PacketInvariant
<1>9. CASE sock # "connected"
  BY <1>3, <1>8, <1>9, Vacuous DEF PacketInvariant
<1>10. CASE sock = "connected"
  <2>1. ready
    BY <1>1, <1>4, <1>10 DEF SessionInvariant, StackTellsReady, Connecting
  <2>2. FieldsAhead /\ result.row_current # 0 /\ ~ result.skip
    BY <1>1, <2>1 DEF PacketInvariant, ReplyInOrder
  <2>3. Said \in Seq(Units) /\ buf # <<>> /\ Said' = Tail(Said) /\ stack' = <<>>
    BY <1>3, <1>6, <2>2, SaidTyped DEF FieldsAhead
  <2>4. RowsLeft(Said, packet_number, 1, command.k) /\ Len(Said) > 2
    BY <2>2 DEF FieldsAhead, RowsAhead
  <2>5. RowsLeft(Tail(Said), packet_number, 0, command.k)
    <3>1. Head(Said).kind = "row"
      <4>1. Tail(Said) # <<>>
        <5>1. /\ Len(Said) \in Nat /\ Said # <<>>
              /\ (Tail(Said) = <<>> <=> Len(Said) < 2)
          <6>1. Len(Said) \in Nat /\ Said # <<>>
            BY <2>3, SaidTyped, LenProperties
          <6> QED BY <2>3, <6>1, Behind
        <5> QED BY <2>4, <5>1
      <4> QED BY <2>3, <2>4, <4>1, RowsBody
    <3> QED BY <2>3, <2>4, <3>1, RowsBody
  <2>6. After'
    <3>1. RowsAhead(0)' /\ result'.row_current # 0
      BY <1>1, <2>2, <2>3, <2>5 DEF RowsAhead
    <3> QED BY <1>3, <1>4, <1>7, <2>1, <3>1 DEF After, Commands
  <2>7. Between'
    BY <1>1, <2>6 DEF Between, Succeeding, Complaining
  <2>8. NoneFinal(c2s)
    <3>1. stack \notin Reading("result_read")
      <4>1. "field_read" \in Parsers
        BY DEF Parsers
      <4> QED BY <1>1, <4>1, AloneClasses
    <3> QED BY <1>1, <2>1, <3>1 DEF PacketInvariant, Requests
  <2>9. NoneFinal(c2s)'
    BY <1>3, <2>8 DEF NoneFinal
  <2>10. ReplyInOrder' /\ Requests' /\ HandshakeInOrder'
    BY <1>1, <2>2, <2>3, <2>7, <2>9, AtRest
  <2> QED BY <1>8, <2>10 DEF PacketInvariant
<1> QED BY <1>9, <1>10

----------------------------------------------------------------------------
(* drizzle_state_loop.                                                     *)

(* What is ahead stays when nothing is said and nothing consumed.          *)
LEMMA StillAhead ==
  ASSUME UNCHANGED <<packet_number, packet_size, buf, s2c, command>>
  PROVE  /\ Silent' <=> Silent
         /\ \A taken, kinds, k : OneAhead(taken, kinds, k)' = OneAhead(taken, kinds, k)
         /\ \A taken : RowsAhead(taken)' = RowsAhead(taken)
         /\ \A taken : ColumnsAhead(taken)' = ColumnsAhead(taken)
         /\ \A taken : ReplyAhead(taken)' = ReplyAhead(taken)
         /\ FieldsAhead' = FieldsAhead
<1>1. (Silent' <=> Silent) /\ Said' = Said
  BY DEF Silent, Said
<1> QED BY <1>1 DEF OneAhead, RowsAhead, ColumnsAhead, ReplyAhead, FieldsAhead

(* The wait for an event, in the middle of a handler.                      *)
LEMMA DrizzleWaitPackets ==
  ASSUME Sound, StackInvariant', SessionInvariant', drizzle_wait
  PROVE  PacketInvariant'
<1> USE DEF Sound
<1>1. /\ pc = "wait" /\ stack # <<>> /\ ~ Closing
      /\ UNCHANGED <<packet_size, result, command, op, inConnect, stage>>
  BY DEF drizzle_wait, SessionInvariant, CodesMean, Closing, Others, cmdVars, callVars, appVars
<1>2. /\ UNCHANGED <<stack, sock, s2c, c2s, ready, packet_number, buf>>
      /\ \/ pc' = "loop"
         \/ /\ pc' \in {"leave", "stop"}
            /\ rc' \in {"NO_ACTIVE_CONNECTIONS", "TIMEOUT", "ERRNO"}
  <2>1. CASE \E r \in Reported(events) : SetRevents(r, watch) /\ pc' = "loop"
    BY <2>1 DEF SetRevents, conVars
  <2>2. CASE \E code \in {"NO_ACTIVE_CONNECTIONS", "TIMEOUT", "ERRNO"} : WaitFails(code)
    BY <2>2 DEF WaitFails, ioVars, conVars
  <2> QED BY <2>1, <2>2 DEF drizzle_wait
<1>3. /\ ~ Top({"field_read"})' /\ (Connecting' => Connecting)
      /\ (sock # "connected" => c2s = <<>>) /\ ~ (ready /\ inConnect)
  <2>1. ~ Top({"field_read"})
    BY <1>1 DEF PacketInvariant, CallsMatch
  <2> QED BY <1>1, <1>2, <2>1 DEF Top, Connecting, PacketInvariant, CallsMatch
<1>4. CallsMatch'
  BY <1>1, <1>2, <1>3, CallsGoOn DEF PacketInvariant
<1>5. ready => ~ result.skip
  BY <1>1 DEF PacketInvariant, ReplyInOrder
<1>6. ReplyInOrder' /\ Requests' /\ HandshakeInOrder'
  BY <1>1, <1>2, <1>5, Stays
<1> QED BY <1>4, <1>6 DEF PacketInvariant

(* The end of the loop after a code other than OK.                         *)
LEMMA StateLoopStopsPackets ==
  ASSUME Sound, StackInvariant', SessionInvariant', StateLoopStops
  PROVE  PacketInvariant'
<1> USE DEF Sound
<1>1. /\ pc = "stop" /\ pc' = "leave" /\ rc' = rc /\ rc # "OK"
      /\ UNCHANGED <<packet_size, result, command, op, inConnect, stage>>
  BY DEF StateLoopStops, StackInvariant, LoopOutcome, cmdVars, callVars, appVars
<1>2. ~ Top({"field_read"})
  BY <1>1 DEF PacketInvariant, CallsMatch
<1>3. CASE rc \notin Resumable
  <2>1. drizzle_close
    BY <1>3 DEF StateLoopStops, Resumable
  <2> QED BY <1>1, <1>2, <2>1, ClosePackets
<1>4. CASE rc \in Resumable
  <2>1. /\ UNCHANGED <<stack, sock, s2c, c2s, ready, packet_number, buf>>
        /\ ~ Closing /\ ~ Closing'
    BY <1>1, <1>4 DEF StateLoopStops, Resumable, ioVars, conVars, Closing
  <2>2. /\ ~ Top({"field_read"})' /\ (Connecting' => Connecting)
        /\ (sock # "connected" => c2s = <<>>)
        /\ (ready /\ inConnect => stack = <<>>)
    BY <1>2, <2>1 DEF Top, Connecting, PacketInvariant, CallsMatch
  <2>3. CallsMatch'
    BY <1>1, <2>1, <2>2, CallsGoOn DEF PacketInvariant
  <2>4. CASE sock # "connected"
    BY <2>1, <2>3, <2>4, Vacuous DEF PacketInvariant
  <2>5. CASE sock = "connected"
    <3>1. rc # "PAUSE"
      BY <1>1, <2>5 DEF SessionInvariant, CodesMean
    <3>2. CASE ready /\ rc = "ERROR_CODE"
      <4>1. stack = <<>> /\ Silent /\ ~ result.skip
        BY <1>1, <2>1, <3>2 DEF PacketInvariant, ReplyInOrder, Between, Complaining
      <4>2. Between'
        <5>1. Silent'
          BY <2>1, <4>1 DEF Silent
        <5> QED BY <1>1, <3>2, <5>1 DEF Between, Succeeding, Complaining
      <4>3. NoneFinal(c2s)'
        <5>1. stack \notin Reading("result_read")
          BY <4>1 DEF Reading
        <5>2. NoneFinal(c2s)
          BY <2>1, <3>2, <5>1 DEF PacketInvariant, Requests
        <5> QED BY <2>1, <5>2 DEF NoneFinal
      <4>4. stack' = <<>> /\ rc' # "NOT_READY" /\ ~ result'.skip
        BY <1>1, <2>1, <3>2, <4>1
      <4>5. ReplyInOrder' /\ Requests' /\ HandshakeInOrder'
        BY <4>2, <4>3, <4>4, AtRest
      <4> QED BY <2>3, <4>5 DEF PacketInvariant
    <3>3. CASE ~ (ready /\ rc = "ERROR_CODE")
      <4>1. stack # <<>>
        <5>1. CASE ready
          BY <1>1, <1>4, <3>1, <3>3, <5>1 DEF SessionInvariant, CodesMean, Resumable
        <5>2. CASE ~ ready
          BY <2>1, <2>5, <5>2, ConnectClasses DEF SessionInvariant, StackTellsReady
        <5> QED BY <5>1, <5>2
      <4>2. ready => rc = "IO_WAIT" /\ ~ result.skip
        BY <1>4, <2>1, <3>1, <3>3 DEF Resumable, PacketInvariant, ReplyInOrder
      <4>3. ReplyInOrder' /\ Requests' /\ HandshakeInOrder'
        BY <1>1, <2>1, <4>1, <4>2, Stays
      <4> QED BY <2>3, <4>3 DEF PacketInvariant
    <3> QED BY <3>2, <3>3
  <2> QED BY <2>4, <2>5
<1> QED BY <1>3, <1>4

(* Its end on an empty stack.                                              *)
LEMMA StateLoopEndsPackets ==
  ASSUME Sound, StackInvariant', SessionInvariant', StateLoopEnds
  PROVE  PacketInvariant'
<1> USE DEF Sound
<1>1. /\ stack = <<>> /\ pc = "loop" /\ pc' = "leave" /\ rc' = "OK"
      /\ UNCHANGED <<stack, sock, s2c, c2s, ready, packet_number, buf, packet_size, result,
                     command, op, inConnect, stage>>
  BY DEF StateLoopEnds, ioVars, conVars, dataVars, cmdVars, callVars, appVars
<1>2. ready /\ ~ Closing
  BY <1>1 DEF SessionInvariant, CodesMean, Closing
<1>3. After /\ ~ result.skip
  BY <1>1, <1>2 DEF PacketInvariant, ReplyInOrder, Between, Succeeding
<1>4. Between'
  <2>1. /\ Silent' <=> Silent
        /\ ColumnsAhead(0)' = ColumnsAhead(0) /\ RowsAhead(0)' = RowsAhead(0)
        /\ FieldsAhead' = FieldsAhead
    BY <1>1, StillAhead
  <2>2. After'
    BY <1>1, <1>3, <2>1 DEF After, Commands
  <2> QED BY <1>1, <2>2 DEF Between, Succeeding, Complaining
<1>5. NoneFinal(c2s)'
  <2>1. stack \notin Reading("result_read")
    BY <1>1 DEF Reading
  <2>2. NoneFinal(c2s)
    BY <1>2, <2>1 DEF PacketInvariant, Requests
  <2> QED BY <1>1, <2>2 DEF NoneFinal
<1>6. CallsMatch'
  <2>1. /\ ~ Top({"field_read"})' /\ (Connecting' => Connecting)
        /\ (sock # "connected" => c2s = <<>>)
    BY <1>1 DEF Top, Connecting, PacketInvariant, CallsMatch
  <2> QED BY <1>1, <2>1, CallsGoOn DEF PacketInvariant
<1>7. ReplyInOrder' /\ Requests' /\ HandshakeInOrder'
  BY <1>1, <1>3, <1>4, <1>5, AtRest
<1> QED BY <1>6, <1>7 DEF PacketInvariant

----------------------------------------------------------------------------
(* The API functions after the loop.                                       *)

(* On an authenticated connection the loop has come to an end of what the  *)
(* operation was to do, or waits in it.                                    *)
LEMMA Left ==
  ASSUME Sound, pc = "leave", ready
  PROVE  /\ rc \in {"OK", "ERROR_CODE", "IO_WAIT"}
         /\ rc = "OK" => stack = <<>> /\ After
         /\ rc = "ERROR_CODE" => stack = <<>> /\ Silent
         /\ rc = "IO_WAIT" => stack # <<>> /\ ~ inConnect
         /\ ~ result.skip
<1> USE DEF Sound
<1>1. ~ Closing
  BY DEF Closing
<1>2. rc \in {"OK", "ERROR_CODE", "NOT_READY", "IO_WAIT"} /\ rc # "NOT_READY"
  BY <1>1, LeaveCodes DEF Clean, PacketInvariant, ReplyInOrder
<1>3. rc = "OK" => stack = <<>>
  BY DEF StackInvariant, LoopOutcome
<1>4. rc = "ERROR_CODE" => stack = <<>>
  BY <1>1 DEF PacketInvariant, ReplyInOrder, Complaining
<1>5. stack = <<>> => Between
  BY <1>1 DEF PacketInvariant, ReplyInOrder
<1>6. rc = "IO_WAIT" => stack # <<>> /\ ~ inConnect
  BY DEF SessionInvariant, CodesMean, PacketInvariant, CallsMatch
<1>7. ~ result.skip
  BY <1>1 DEF PacketInvariant, ReplyInOrder
<1> QED BY <1>2, <1>3, <1>4, <1>5, <1>6, <1>7 DEF Between, Succeeding, Complaining

(* Who waits on it, waits in a command, a column or a row.                 *)
LEMMA Pending ==
  ASSUME Sound, pc \in {"leave", "again"}, ready, stack # <<>>
  PROVE  op \in Commands \cup {"columns", "row"}
<1> USE DEF Sound
<1>1. ~ Closing
  BY DEF Closing
<1>2. ~ Top({"field_read"}) /\ stack # <<"read", "field_read">>
  BY <1>1 DEF PacketInvariant, CallsMatch, ReplyInOrder
<1>3. stack \notin ConnectStates /\ stack \notin HandshakeStates
  BY DEF SessionInvariant, StackTellsReady
<1>4. stack # <<"field_read">>
  BY <1>2 DEF Top
<1>5. \/ stack \in CommandStates
      \/ stack \in ReaderStates("column_read") \/ stack \in ReaderStates("row_read")
  BY <1>2, <1>3, <1>4 DEF StackInvariant, WellFormedStack, StackStates
<1>6. CASE stack \in CommandStates
  <2>1. op = "row" \/ command.name = op
    BY <1>1, <1>6 DEF PacketInvariant, Requests
  <2> QED BY <2>1 DEF StackInvariant, TypeOK, CommandTypeOK
<1>7. CASE stack \in ReaderStates("column_read") \/ stack \in ReaderStates("row_read")
  BY <1>1, <1>7 DEF PacketInvariant, ReplyInOrder
<1> QED BY <1>5, <1>6, <1>7

(* Nothing is in the way to the server that it would answer, when the      *)
(* library waits for no answer.                                            *)
LEMMA NoneAsked ==
  ASSUME PacketInvariant, ready, ~ Closing, stack \notin Reading("result_read")
  PROVE  NoneFinal(c2s)
BY DEF PacketInvariant, Requests

(* An API function returns to the application.                             *)
LEMMA FinishPackets ==
  ASSUME Sound, StackInvariant', SessionInvariant', ApiOnly,
         NEW name, NEW code, NEW r, Finish(name, code, r),
         pc \in {"app", "again", "leave"},
         Connecting => stage' = "done" /\ name \in Asks,
         code = "IO_WAIT" =>
           /\ name \in Asks \cup {"columns", "row"}
           /\ name \in Asks <=> stage' = "done"
           /\ name = "columns" <=> stage' = "columns",
         stage' = "columns" => r.columns > 0,
         stage' = "rows" => r.buffered,
         name = "row" /\ code = "OK" /\ r.row_current = 0 => stage' = "done",
         ready => ~ r.skip,
         ready /\ code = "IO_WAIT" =>
           /\ stack # <<>> /\ name = op
           /\ op = "columns" => r.column = result.column
           /\ op # "row" /\ result.columns = 0 => r.columns = 0,
         ready /\ code # "IO_WAIT" =>
           /\ stack = <<>>
           /\ stage' = "done" => Silent
           /\ stage' = "columns" => ColumnsAhead(0)
           /\ stage' = "rows" => RowsAhead(0)
  PROVE  PacketInvariant'
<1> USE DEF Sound
<1>1. /\ op' = name /\ rc' = code /\ result' = r /\ inConnect' = FALSE
      /\ pc' = (IF code = "IO_WAIT" THEN "again" ELSE "app")
      /\ UNCHANGED <<stack, command, sock, s2c, c2s, ready, packet_number, buf, packet_size>>
  BY DEF Finish, ApiOnly, ioVars, conVars, dataVars
<1>2. ~ Closing /\ ~ Closing' /\ ~ Top({"field_read"})'
  BY <1>1 DEF Closing, PacketInvariant, CallsMatch, Top
<1>3. CallsMatch'
  <2>1. sock' # "connected" => c2s' = <<>>
    BY <1>1 DEF PacketInvariant, CallsMatch
  <2>2. Connecting' => stage' = "done" /\ op' \in Asks
    BY <1>1 DEF Connecting
  <2>3. ~ InCall' /\ (pc' \notin {"app", "freed"} => code = "IO_WAIT")
    BY <1>1 DEF InCall
  <2>4. op' = "fields" => pc' # "again"
    BY <1>1 DEF Asks, Commands
  <2> QED BY <1>1, <1>2, <2>1, <2>2, <2>3, <2>4 DEF CallsMatch
<1>4. CASE code = "IO_WAIT" /\ stack # <<>>
  <2>1. name # "fields" /\ pc' # "app" /\ pc' \notin {"stop", "leave"}
    BY <1>1, <1>4 DEF Asks, Commands
  <2>2. ReplyInOrder' /\ Requests' /\ HandshakeInOrder'
    BY <1>1, <1>2, <1>4, <2>1, Stays
  <2> QED BY <1>3, <2>2 DEF PacketInvariant
<1>5. CASE ready /\ code # "IO_WAIT"
  <2>1. /\ Silent' <=> Silent
        /\ ColumnsAhead(0)' = ColumnsAhead(0) /\ RowsAhead(0)' = RowsAhead(0)
    BY <1>1, StillAhead
  <2>2. Between'
    BY <1>1, <1>5, <2>1 DEF Between, Succeeding, Complaining
  <2>3. NoneFinal(c2s)'
    <3>1. NoneFinal(c2s)
      BY <1>2, <1>5, NoneAsked DEF Reading
    <3> QED BY <1>1, <3>1 DEF NoneFinal
  <2>4. ReplyInOrder' /\ Requests' /\ HandshakeInOrder'
    BY <1>1, <1>5, <2>2, <2>3, AtRest
  <2> QED BY <1>3, <2>4 DEF PacketInvariant
<1>6. CASE ~ ready /\ stack # <<>>
  <2>1. ReplyInOrder' /\ Requests' /\ HandshakeInOrder'
    BY <1>1, <1>2, <1>6, Stays
  <2> QED BY <1>3, <2>1 DEF PacketInvariant
<1>7. CASE ~ ready /\ stack = <<>>
  <2>1. ReplyInOrder' /\ Requests' /\ HandshakeInOrder'
    BY <1>1, <1>7, AtRest
  <2> QED BY <1>3, <2>1 DEF PacketInvariant
<1> QED BY <1>4, <1>5, <1>6, <1>7

(* An API function runs drizzle_state_loop, or waits, with the states that *)
(* are on the stack.                                                       *)
LEMMA ResumePackets ==
  ASSUME Sound, StackInvariant', SessionInvariant', ApiOnly,
         pc \in {"app", "again", "leave"}, pc' \in {"loop", "wait"}, UNCHANGED <<stack, command>>,
         stack # <<>>,
         op' \in Asks \cup {"columns", "row"}, op' \in Asks <=> stage' = "done",
         op' = "columns" <=> stage' = "columns",
         op' = "connect" => inConnect', inConnect' => op' \in Asks, ~ (ready /\ inConnect'),
         Connecting => inConnect',
         stage' = "columns" => result'.columns > 0, stage' = "rows" => result'.buffered,
         ready => /\ op' = op /\ result'.skip = result.skip
                  /\ op = "columns" /\ result.column => result'.column
                  /\ op # "row" /\ result.columns = 0 => result'.columns = 0
  PROVE  PacketInvariant'
<1> USE DEF Sound
<1>1. UNCHANGED <<sock, s2c, c2s, ready, packet_number, buf, packet_size>>
  BY DEF ApiOnly, ioVars, conVars, dataVars
<1>2. ~ Closing /\ ~ Top({"field_read"})'
  BY DEF Closing, PacketInvariant, CallsMatch, Top
<1>3. CallsMatch'
  <2>1. InCall' /\ pc' \notin {"app", "again", "freed"}
    BY DEF InCall
  <2>2. sock' # "connected" => c2s' = <<>>
    BY <1>1 DEF PacketInvariant, CallsMatch
  <2>3. Connecting' => stage' = "done" /\ inConnect'
    BY DEF Connecting
  <2> QED BY <1>1, <1>2, <2>1, <2>2, <2>3 DEF CallsMatch
<1>4. op' # "fields" /\ (ready => ~ result.skip)
  BY <1>2 DEF Asks, Commands, PacketInvariant, ReplyInOrder
<1>5. ReplyInOrder' /\ Requests' /\ HandshakeInOrder'
  BY <1>1, <1>2, <1>4, Stays
<1> QED BY <1>3, <1>5 DEF PacketInvariant

(* A command starts when nothing is left to be read.                       *)
LEMMA CommandStarts ==
  ASSUME Sound, StackInvariant', SessionInvariant', ApiOnly,
         pc \in {"app", "again", "leave"}, pc' = "loop", ready, stack = <<>>, Silent,
         stage' = "done", NEW name \in Commands, op' = name, EnterCommand(name)
  PROVE  PacketInvariant'
<1> USE DEF Sound
<1>1. UNCHANGED <<sock, s2c, c2s, ready, packet_number, buf, packet_size>>
  BY DEF ApiOnly, ioVars, conVars, dataVars
<1>2. /\ stack' = <<"command_write">> /\ inConnect' = FALSE
      /\ command' = [k |-> commands + 1, name |-> name, left |-> Chunks(name)]
      /\ result' \in {EmptyResult, NewResult}
  <2>1. <<"command_write">> \o <<>> = <<"command_write">>
    BY OnEmpty DEF Handlers
  <2> QED BY <2>1 DEF EnterCommand, Push
<1>3. /\ command'.name = name /\ command'.left = Chunks(name)
      /\ result'.columns = 0 /\ ~ result'.skip
  BY <1>2 DEF EmptyResult, NewResult
<1>4. /\ stack' \in Writers /\ stack' # <<>> /\ Head(stack') = "command_write"
      /\ stack' # <<"write">> /\ stack' # <<"write", "command_write">>
      /\ stack' # <<"write", "packet_read", "result_read">>
      /\ ~ Top({"write"})' /\ ~ Top({"field_read"})'
  BY <1>2 DEF Writers, Top
<1>5. name # "row" /\ name # "connect" /\ name # "columns" /\ name # "fields" /\ name \in Asks
  BY DEF Commands, Asks
<1>6. CallsMatch'
  <2>1. ~ Connecting'
    <3>1. stack' \notin ConnectStates /\ stack' \notin HandshakeStates
      BY <1>2, <1>4, WriterClasses
    <3> QED BY <3>1 DEF Connecting
  <2>2. sock' # "connected" => c2s' = <<>>
    BY <1>1 DEF PacketInvariant, CallsMatch
  <2>3. pc' \notin {"app", "again", "freed"}
    OBVIOUS
  <2> QED BY <1>2, <1>4, <1>5, <2>1, <2>2, <2>3 DEF CallsMatch, InCall
<1>7. NoneFinal(c2s)'
  <2>1. ~ Closing /\ stack \notin Reading("result_read")
    BY DEF Closing, Reading
  <2>2. NoneFinal(c2s)
    BY <2>1, NoneAsked
  <2> QED BY <1>1, <2>2 DEF NoneFinal
<1>8. Silent' /\ ready'
  BY <1>1 DEF Silent
<1>9. command'.left < Chunks(command'.name) => packet_number' = 1
  <2>1. Chunks(name) \in Nat
    BY ProtocolAssumption DEF ProtocolAssumption, Chunks
  <2> QED BY <1>3, <2>1
<1>10. ReplyInOrder' /\ Requests' /\ HandshakeInOrder'
  BY <1>3, <1>4, <1>5, <1>7, <1>8, <1>9, WriterNext
<1> QED BY <1>6, <1>10 DEF PacketInvariant

(* Connecting starts, or goes on.                                          *)
LEMMA ConnectStarts ==
  ASSUME Sound, StackInvariant', SessionInvariant', ApiOnly,
         pc \in {"app", "again"}, pc' = "loop", ~ ready, stage = "done", UNCHANGED stage,
         op' \in Asks, EnterConnect
  PROVE  PacketInvariant'
<1> USE DEF Sound
<1>1. UNCHANGED <<sock, s2c, c2s, ready, packet_number, buf, packet_size>>
  BY DEF ApiOnly, ioVars, conVars, dataVars
<1>2. UNCHANGED <<result, command>> /\ inConnect' = TRUE
  BY DEF EnterConnect, cmdVars
<1>3. op' \notin {"columns", "row", "fields"}
  BY DEF Asks, Commands
<1>4. CASE stack # <<>>
  <2>1. UNCHANGED stack
    BY <1>4 DEF EnterConnect
  <2> QED BY <1>2, <1>3, <1>4, <2>1, ResumePackets
<1>5. CASE stack = <<>>
  <2>1. stack' = <<"addrinfo", "connect", "packet_read", "handshake_server_read">>
    <3>1. <<"addrinfo", "connect", "packet_read", "handshake_server_read">> \o <<>>
          = <<"addrinfo", "connect", "packet_read", "handshake_server_read">>
      BY OnEmpty DEF Handlers
    <3> QED BY <1>5, <3>1 DEF EnterConnect, Push
  <2>2. stack' # <<>> /\ Head(stack') = "addrinfo" /\ ~ Top({"field_read"})'
    BY <2>1 DEF Top
  <2>3. sock' # "connected" => c2s' = <<>>
    BY <1>1 DEF PacketInvariant, CallsMatch
  <2>4. CallsMatch'
    BY <1>1, <1>2, <1>3, <2>2, <2>3 DEF CallsMatch, InCall
  <2>5. ReplyInOrder' /\ Requests' /\ HandshakeInOrder'
    BY <1>1, <2>2, Unbegun
  <2> QED BY <2>4, <2>5 DEF PacketInvariant
<1> QED BY <1>4, <1>5

(* A reader of the reply starts on what is ahead of it, or goes on.        *)
LEMMA ReaderStarts ==
  ASSUME Sound, StackInvariant', SessionInvariant', ApiOnly,
         pc \in {"app", "again", "leave"}, pc' = "loop", UNCHANGED <<stage, inConnect>>,
         ~ inConnect, ~ Connecting,
         NEW h \in {"column_read", "row_read"},
         op' = (IF h = "column_read" THEN "columns" ELSE "row"),
         stage = (IF h = "column_read" THEN "columns" ELSE "rows"),
         NEW r \in Results, EnterReader(h, r), h = "column_read" => r.column,
         r.skip = result.skip, r.columns = result.columns, r.buffered = result.buffered,
         ready /\ stack # <<>> => op' = op,
         ready /\ stack = <<>> => IF h = "column_read" THEN ColumnsAhead(0) ELSE RowsAhead(0)
  PROVE  PacketInvariant'
<1> USE DEF Sound
<1>1. UNCHANGED <<sock, s2c, c2s, ready, packet_number, buf, packet_size>>
  BY DEF ApiOnly, ioVars, conVars, dataVars
<1>2. UNCHANGED command
  BY DEF EnterReader
<1>3. result \in Results
  BY DEF StackInvariant, TypeOK, CommandTypeOK
<1>4. /\ result'.skip = result.skip /\ result'.columns = result.columns
      /\ result'.buffered = result.buffered /\ (h = "column_read" => result'.column)
  BY <1>3 DEF EnterReader, Results
<1>5. /\ stage = "columns" => result'.columns > 0
      /\ stage = "rows" => result'.buffered
  BY <1>4 DEF PacketInvariant, CallsMatch
<1>6. op' \notin Asks /\ op' \in {"columns", "row"} /\ (op' = "columns" <=> stage' = "columns")
      /\ stage' # "done" /\ op' # "fields" /\ op' # "connect"
  BY DEF Asks, Commands
<1>7. CASE stack # <<>>
  <2>1. UNCHANGED stack
    BY <1>7 DEF EnterReader
  <2>2. op' = "columns" => h = "column_read"
    OBVIOUS
  <2> QED BY <1>1, <1>2, <1>4, <1>5, <1>6, <1>7, <2>1, <2>2, ResumePackets
<1>8. CASE stack = <<>>
  <2>1. stack' = <<"packet_read", h>>
    <3>1. <<"packet_read", h>> \o <<>> = <<"packet_read", h>>
      BY OnEmpty DEF Handlers
    <3> QED BY <1>8, <3>1 DEF EnterReader, Push
  <2>2. h \in Parsers \ {"field_read"} /\ stack' \in Reading(h)
        /\ h \notin {"result_read", "handshake_server_read", "handshake_result_read"}
    BY <2>1 DEF Parsers, Reading
  <2>3. stack' # <<>> /\ ~ Top({"field_read"})' /\ ~ Connecting'
    <3>1. Head(stack') = "packet_read" /\ stack' # <<>>
      BY <2>1
    <3>2. stack' \notin ConnectStates /\ stack' \notin HandshakeStates
      BY <2>2, ReadingClasses
    <3> QED BY <3>1, <3>2 DEF Top, Connecting
  <2>4. CallsMatch'
    <3>1. sock' # "connected" => c2s' = <<>>
      BY <1>1 DEF PacketInvariant, CallsMatch
    <3>2. pc' \notin {"app", "again", "freed"}
      OBVIOUS
    <3> QED BY <1>5, <1>6, <2>3, <3>1, <3>2 DEF CallsMatch
  <2>5. CASE ~ ready
    <3>1. sock # "connected"
      <4>1. ~ Closing
        BY DEF Closing
      <4> QED BY <2>5, <4>1 DEF SessionInvariant, StackTellsReady, Connecting
    <3> QED BY <1>1, <2>4, <3>1, Vacuous DEF PacketInvariant
  <2>6. CASE ready
    <3>1. ~ Closing /\ stack \notin Reading("result_read")
      BY <1>8 DEF Closing, Reading
    <3>2. ~ result'.skip /\ NoneFinal(c2s)'
      <4>1. NoneFinal(c2s) /\ ~ result.skip
        BY <2>6, <3>1, NoneAsked DEF PacketInvariant, ReplyInOrder
      <4> QED BY <1>1, <1>4, <4>1 DEF NoneFinal
    <3>3. Asked(c2s)'
      BY <3>2 DEF NoneFinal, Asked
    <3>4. h = "column_read" => ColumnsAhead(0)' /\ op' = "columns" /\ result'.column
      <4>1. h = "column_read" => ColumnsAhead(0)
        BY <1>8, <2>6
      <4>2. ColumnsAhead(0)' = ColumnsAhead(0)
        BY <1>1, <1>2, StillAhead
      <4> QED BY <1>4, <4>1, <4>2
    <3>5. h = "row_read" => RowsAhead(0)' /\ op' = "row"
      <4>1. h = "row_read" => RowsAhead(0)
        BY <1>8, <2>6
      <4>2. RowsAhead(0)' = RowsAhead(0)
        BY <1>1, <1>2, StillAhead
      <4> QED BY <4>1, <4>2
    <3>6. ReplyInOrder' /\ Requests' /\ HandshakeInOrder'
      BY <1>1, <2>2, <2>6, <3>2, <3>3, <3>4, <3>5, ReaderNext
    <3> QED BY <2>4, <3>6 DEF PacketInvariant
  <2> QED BY <2>5, <2>6
<1> QED BY <1>7, <1>8

(* A call in progress on a socket that is not being connected is made on   *)
(* an authenticated connection, or on none.                                *)
LEMMA Apart ==
  ASSUME Sound, pc \in {"app", "again", "leave"}
  PROVE  /\ pc = "leave" /\ ~ inConnect => ~ Connecting
         /\ stage # "done" => ~ Connecting
         /\ ~ Connecting => ready \/ sock # "connected"
         /\ pc \in {"app", "again"} => ~ inConnect
         /\ ~ Closing /\ ~ Top({"field_read"})
BY DEF Sound, SessionInvariant, StackTellsReady, Closing, Connecting, PacketInvariant,
   CallsMatch, InCall

LEMMA ConnectReturnsPackets ==
  ASSUME Sound, StackInvariant', SessionInvariant', ConnectReturns
  PROVE  PacketInvariant'
<1> USE DEF Sound
<1>1. /\ pc = "leave" /\ inConnect /\ ApiOnly /\ op \in Asks /\ stage = "done"
      /\ (rc = "OK" => ready)
  <2>1. pc = "leave" /\ inConnect /\ ApiOnly
    BY DEF ConnectReturns
  <2> QED BY <2>1, LeaveCodes DEF PacketInvariant, CallsMatch
<1>2. op \notin {"columns", "row", "fields"}
  BY <1>1 DEF Asks, Commands
<1>3. ready => /\ rc \in {"OK", "ERROR_CODE"} /\ stack = <<>> /\ Silent /\ ~ result.skip
  BY <1>1, Left DEF After
<1>4. CASE rc = "IO_WAIT" /\ pc' = "wait" /\ UNCHANGED <<stack, cmdVars, callVars, appVars>>
  <2>1. stack # <<>> /\ ~ ready
    BY <1>1, <1>3, <1>4 DEF SessionInvariant, CodesMean
  <2>2. UNCHANGED <<result, command, op, inConnect, stage>>
    BY <1>4 DEF cmdVars, callVars, appVars
  <2> QED BY <1>1, <1>2, <1>4, <2>1, <2>2, ResumePackets
<1>5. CASE rc = "OK" /\ op \in Commands /\ pc' = "loop" /\ EnterCommand(op)
           /\ UNCHANGED <<op, stage>>
  BY <1>1, <1>3, <1>5, CommandStarts
<1>6. CASE ~ (rc = "OK" /\ op \in Commands) /\ Finish(op, rc, result)
  <2>1. stage' = "done"
    <3>1. stage' = StageAfter(op, rc, result)
      BY <1>6 DEF Finish
    <3>2. rc = "OK" => op = "connect"
      BY <1>1, <1>6 DEF Asks
    <3> QED BY <1>1, <1>2, <3>1, <3>2 DEF StageAfter, Asks, Commands
  <2>2. ready /\ rc = "IO_WAIT" => FALSE
    BY <1>3
  <2> QED BY <1>1, <1>2, <1>3, <1>6, <2>1, <2>2, FinishPackets
<1> QED BY <1>4, <1>5, <1>6 DEF ConnectReturns

LEMMA CommandReturnsPackets ==
  ASSUME Sound, StackInvariant', SessionInvariant', CommandReturns
  PROVE  PacketInvariant'
<1> USE DEF Sound
<1> DEFINE code == IF rc = "PAUSE" THEN "OK" ELSE rc
           left == IF code \in {"OK", "IO_WAIT", "ERROR_CODE"} THEN result ELSE EmptyResult
           r == IF op = "init_db" THEN Free(left) ELSE left
<1>1. /\ pc = "leave" /\ ~ inConnect /\ ApiOnly /\ op \in Commands /\ Finish(op, code, r)
  BY DEF CommandReturns
<1>2. /\ op \notin {"columns", "row", "fields", "connect", "skip"} /\ op \in Asks /\ stage = "done"
      /\ ~ Connecting
  BY <1>1, Apart DEF Asks, Commands, PacketInvariant, CallsMatch
<1>3. ready => /\ code = rc /\ left = result
               /\ rc \in {"OK", "ERROR_CODE", "IO_WAIT"}
               /\ rc = "OK" => stack = <<>> /\ After
               /\ rc = "ERROR_CODE" => stack = <<>> /\ Silent
               /\ rc = "IO_WAIT" => stack # <<>>
               /\ ~ result.skip
  BY <1>1, Left
<1>4. /\ r = left \/ (op = "init_db" /\ r = [EmptyResult EXCEPT !.at = "freed"])
  BY DEF Free
<1>5. /\ ready => r = result \/ op = "init_db"
      /\ ready => ~ r.skip
      /\ ready /\ op # "row" /\ result.columns = 0 => r.columns = 0
  <2>1. /\ ~ [EmptyResult EXCEPT !.at = "freed"].skip
        /\ [EmptyResult EXCEPT !.at = "freed"].columns = 0
    BY DEF EmptyResult
  <2> HIDE DEF code, left, r
  <2> QED BY <1>3, <1>4, <2>1
<1> HIDE DEF left, r
<1>6. stage' = IF op = "query" /\ code = "OK" /\ r.columns > 0 THEN "columns" ELSE "done"
  <2>1. stage' = StageAfter(op, code, r)
    BY <1>1 DEF Finish
  <2> QED BY <1>2, <2>1 DEF StageAfter
<1>7. ready /\ code # "IO_WAIT" =>
        /\ stack = <<>>
        /\ stage' = "done" => Silent
        /\ stage' = "columns" => ColumnsAhead(0)
        /\ stage' = "rows" => RowsAhead(0)
  <2> SUFFICES ASSUME ready, code # "IO_WAIT"
               PROVE  /\ stack = <<>>
                      /\ stage' = "done" => Silent
                      /\ stage' = "columns" => ColumnsAhead(0)
                      /\ stage' = "rows" => RowsAhead(0)
    OBVIOUS
  <2>1. CASE rc = "ERROR_CODE"
    BY <1>3, <1>6, <2>1
  <2>2. CASE rc = "OK"
    <3>1. IF op = "query" /\ result.columns > 0 THEN ColumnsAhead(0) ELSE Silent
      BY <1>1, <1>3, <2>2 DEF After
    <3> QED BY <1>3, <1>5, <1>6, <2>2, <3>1
  <2> QED BY <1>3, <2>1, <2>2
<1>8. stage' # "rows" /\ (stage' = "columns" => r.columns > 0)
      /\ (code = "IO_WAIT" => stage' = "done") /\ op # "row"
  BY <1>2, <1>6
<1>9. ready /\ code = "IO_WAIT" => stack # <<>>
  BY <1>3
<1> HIDE DEF code
<1> QED BY <1>1, <1>2, <1>5, <1>7, <1>8, <1>9, FinishPackets

LEMMA QuitReturnsPackets ==
  ASSUME Sound, StackInvariant', SessionInvariant', QuitReturns
  PROVE  PacketInvariant'
<1> USE DEF Sound
<1>1. /\ pc = "leave" /\ op = "quit" /\ drizzle_close /\ pc' = "freed"
      /\ UNCHANGED <<op, inConnect, stage>>
  BY DEF QuitReturns, callVars, appVars
<1>2. sock' = "invalid" /\ ~ ready' /\ (stack' = <<>> \/ stack' = stack)
  BY <1>1, CloseCleans DEF SessionInvariant, Clean
<1>3. c2s' = <<>>
  BY <1>1 DEF drizzle_close, Hangup, ioVars, PacketInvariant, CallsMatch
<1>4. ~ Top({"field_read"})' /\ stage = "done"
  BY <1>1, <1>2, Apart DEF Top, PacketInvariant, CallsMatch, Asks, Commands
<1>5. CallsMatch'
  BY <1>1, <1>2, <1>3, <1>4 DEF CallsMatch, InCall
<1> QED BY <1>2, <1>5, Vacuous DEF PacketInvariant

LEMMA ColumnsReturnPackets ==
  ASSUME Sound, StackInvariant', SessionInvariant', ColumnsReturn
  PROVE  PacketInvariant'
<1> USE DEF Sound
<1>1. pc = "leave" /\ op = "columns" /\ ApiOnly
  BY DEF ColumnsReturn
<1>2. stage = "columns" /\ ~ inConnect /\ op \notin Asks /\ ~ Connecting
  BY <1>1, Apart DEF PacketInvariant, CallsMatch, Asks, Commands
<1>3. result \in Results /\ result.columns > 0
  BY <1>2 DEF StackInvariant, TypeOK, CommandTypeOK, PacketInvariant, CallsMatch
<1>4. ready => /\ rc \in {"OK", "ERROR_CODE", "IO_WAIT"}
               /\ rc = "OK" => /\ stack = <<>>
                               /\ IF result.column THEN ColumnsAhead(0) ELSE RowsAhead(0)
               /\ rc = "ERROR_CODE" => stack = <<>> /\ Silent
               /\ rc = "IO_WAIT" => stack # <<>>
               /\ ~ result.skip
  BY <1>1, Left DEF After
<1>5. rc = "OK" => ready
  BY <1>1, LeaveCodes
<1>6. CASE rc = "OK" /\ result.column /\ EnterColumn /\ Start(op) /\ UNCHANGED <<inConnect, stage>>
  <2> DEFINE r == [result EXCEPT !.column = TRUE]
  <2>1. /\ r \in Results /\ r.column /\ r.skip = result.skip /\ r.columns = result.columns
        /\ r.buffered = result.buffered
    BY <1>3 DEF Results
  <2>2. EnterReader("column_read", r) /\ op' = "columns" /\ pc' = "loop"
    BY <1>1, <1>6 DEF EnterColumn, Start
  <2> HIDE DEF r
  <2> QED BY <1>1, <1>2, <1>4, <1>5, <1>6, <2>1, <2>2, ReaderStarts
<1>7. CASE ~ (rc = "OK" /\ result.column)
           /\ Finish(op, rc, IF rc = "OK"
                             THEN [result EXCEPT !.column_current = 0, !.buffered = TRUE]
                             ELSE result)
  <2> DEFINE r == IF rc = "OK" THEN [result EXCEPT !.column_current = 0, !.buffered = TRUE]
                  ELSE result
  <2>1. /\ r.skip = result.skip /\ r.columns = result.columns /\ r.column = result.column
        /\ rc = "OK" => r.buffered
    BY <1>3 DEF Results
  <2>2. Finish(op, rc, r)
    BY <1>7
  <2> HIDE DEF r
  <2>3. stage' = IF rc = "IO_WAIT" THEN "columns" ELSE IF rc = "OK" THEN "rows" ELSE "done"
    <3>1. stage' = StageAfter(op, rc, r)
      BY <2>2 DEF Finish
    <3> QED BY <1>1, <1>2, <3>1 DEF StageAfter
  <2>4. ready /\ rc # "IO_WAIT" =>
          /\ stack = <<>>
          /\ stage' = "done" => Silent
          /\ stage' = "columns" => ColumnsAhead(0)
          /\ stage' = "rows" => RowsAhead(0)
    BY <1>4, <1>7, <2>3
  <2>5. /\ op # "row" /\ (stage' = "columns" => r.columns > 0) /\ (stage' = "rows" => r.buffered)
        /\ rc = "IO_WAIT" => stage' = "columns"
        /\ stage' = "columns" => rc = "IO_WAIT"
    BY <1>1, <1>3, <2>1, <2>3
  <2> QED BY <1>1, <1>2, <1>4, <2>1, <2>2, <2>4, <2>5, FinishPackets
<1> QED BY <1>6, <1>7 DEF ColumnsReturn

LEMMA RowReturnsPackets ==
  ASSUME Sound, StackInvariant', SessionInvariant', RowReturns
  PROVE  PacketInvariant'
<1> USE DEF Sound
<1>1. pc = "leave" /\ op \in {"row", "fields"} /\ ApiOnly
  BY DEF RowReturns
<1>2. stage = "rows" /\ ~ inConnect /\ op \notin Asks /\ ~ Connecting
  <2>1. op \notin Asks /\ op # "columns"
    BY <1>1 DEF Asks, Commands
  <2>2. stage \in {"columns", "rows", "done"}
    BY DEF StackInvariant, TypeOK, CallTypeOK
  <2>3. stage = "rows" /\ ~ inConnect
    BY <1>1, <2>1, <2>2 DEF PacketInvariant, CallsMatch
  <2> QED BY <1>1, <2>1, <2>3, Apart
<1>3. result \in Results /\ result.buffered
  BY <1>2 DEF StackInvariant, TypeOK, CommandTypeOK, PacketInvariant, CallsMatch
<1>4. ready => /\ rc \in {"OK", "ERROR_CODE", "IO_WAIT"}
               /\ rc = "OK" /\ op = "row" =>
                    stack = <<>> /\ IF result.row_current = 0 THEN Silent ELSE FieldsAhead
               /\ rc = "OK" /\ op = "fields" =>
                    stack = <<>> /\ RowsAhead(0) /\ result.row_current # 0
               /\ rc = "ERROR_CODE" => stack = <<>> /\ Silent
               /\ rc = "IO_WAIT" => stack # <<>>
               /\ ~ result.skip
  BY <1>1, Left DEF After
<1>5. rc = "OK" => ready
  BY <1>1, LeaveCodes
<1>6. CASE /\ op = "row" /\ rc = "OK" /\ result.row_current # 0 /\ Push(<<"field_read">>)
           /\ Start("fields") /\ UNCHANGED <<inConnect, stage, cmdVars>>
  <2>1. /\ UNCHANGED <<sock, s2c, c2s, ready, packet_number, buf, packet_size, command, result>>
        /\ pc' = "loop" /\ op' = "fields"
    BY <1>1, <1>6 DEF ApiOnly, ioVars, conVars, dataVars, cmdVars, Start
  <2>2. stack = <<>> /\ FieldsAhead /\ ready
    BY <1>4, <1>5, <1>6
  <2>3. stack' = <<"field_read">>
    BY <1>6, <2>2, OnEmpty DEF Push, Handlers
  <2>4. "field_read" \in Parsers
    BY DEF Parsers
  <2>5. ~ Connecting'
    BY <2>3, <2>4, AloneClasses DEF Connecting
  <2>6. CallsMatch'
    <3>1. sock' # "connected" => c2s' = <<>>
      BY <2>1 DEF PacketInvariant, CallsMatch
    <3>2. pc' \notin {"app", "again", "freed"} /\ op' \notin Asks
      BY <2>1 DEF Asks, Commands
    <3> QED BY <1>2, <1>3, <1>6, <2>1, <2>2, <2>5, <3>1, <3>2 DEF CallsMatch
  <2>7. FieldsAhead' /\ ~ result'.skip /\ result'.row_current # 0
    BY <1>4, <1>6, <2>1, <2>2, StillAhead
  <2>8. NoneFinal(c2s)'
    <3>1. ~ Closing /\ stack \notin Reading("result_read")
      BY <1>1, <2>2 DEF Closing, Reading
    <3>2. NoneFinal(c2s)
      BY <2>2, <3>1, NoneAsked
    <3> QED BY <2>1, <3>2 DEF NoneFinal
  <2>9. ReplyInOrder' /\ Requests' /\ HandshakeInOrder'
    BY <2>1, <2>2, <2>3, <2>4, <2>7, <2>8, ParserNext
  <2> QED BY <2>6, <2>9 DEF PacketInvariant
<1>7. CASE /\ ~ (op = "row" /\ rc = "OK" /\ result.row_current # 0)
           /\ Finish("row", rc, result)
  <2>1. stage' = IF rc = "IO_WAIT" \/ (rc = "OK" /\ result.row_current # 0) \/ rc = "NOT_READY"
                 THEN "rows" ELSE "done"
    <3>1. stage' = StageAfter("row", rc, result)
      BY <1>7 DEF Finish
    <3> QED BY <1>2, <3>1 DEF StageAfter
  <2>2. ready /\ rc # "IO_WAIT" =>
          /\ stack = <<>>
          /\ stage' = "done" => Silent
          /\ stage' = "columns" => ColumnsAhead(0)
          /\ stage' = "rows" => RowsAhead(0)
    BY <1>1, <1>4, <1>7, <2>1
  <2>3. ready /\ rc = "IO_WAIT" => stack # <<>> /\ op = "row"
    <3>1. ready /\ rc = "IO_WAIT" => stack # <<>>
      BY <1>4
    <3>2. op = "fields" => op \notin Commands \cup {"columns", "row"}
      BY DEF Commands
    <3> QED BY <1>1, <3>1, <3>2, Pending
  <2>4. "row" \notin Asks /\ "row" # "columns"
    BY DEF Asks, Commands
  <2>5. /\ stage' # "columns" /\ (rc = "IO_WAIT" => stage' = "rows")
        /\ (rc = "OK" /\ result.row_current = 0 => stage' = "done")
    BY <2>1
  <2>6. ready => ~ result.skip
    BY <1>4
  <2> QED BY <1>1, <1>2, <1>3, <1>7, <2>2, <2>3, <2>4, <2>5, <2>6, FinishPackets
<1> QED BY <1>6, <1>7 DEF RowReturns

LEMMA ReturnsPackets ==
  ASSUME Sound, StackInvariant', SessionInvariant',
         \/ ConnectReturns \/ CommandReturns \/ QuitReturns
         \/ ColumnsReturn \/ SkipReturns \/ RowReturns
  PROVE  PacketInvariant'
<1>1. ~ SkipReturns
  BY DEF SkipReturns, Sound, PacketInvariant, CallsMatch, Asks, Commands
<1> QED BY <1>1, ConnectReturnsPackets, CommandReturnsPackets, QuitReturnsPackets,
           ColumnsReturnPackets, RowReturnsPackets

----------------------------------------------------------------------------
(* The calls of the application.                                           *)

(* On an authenticated connection a call that is in progress has left its  *)
(* states on the stack, and no call finds those of another.                *)
LEMMA Idle ==
  ASSUME Sound, pc \in {"app", "again"}, ready
  PROVE  /\ pc = "again" <=> stack # <<>>
         /\ pc = "app" => /\ stage = "done" => Silent
                          /\ stage = "columns" => ColumnsAhead(0)
                          /\ stage = "rows" => RowsAhead(0)
         /\ ~ result.skip /\ ~ Connecting
<1> USE DEF Sound
<1>1. ~ Closing
  BY DEF Closing
<1>2. stack = <<>> => Between
  BY <1>1 DEF PacketInvariant, ReplyInOrder
<1>3. pc = "app" => stack = <<>>
  BY <1>1 DEF PacketInvariant, ReplyInOrder
<1>4. ~ result.skip
  BY <1>1 DEF PacketInvariant, ReplyInOrder
<1>5. ~ Connecting
  BY DEF SessionInvariant, StackTellsReady, Connecting
<1> QED BY <1>2, <1>3, <1>4, <1>5 DEF Between, Succeeding, Complaining

LEMMA CallConnectPackets ==
  ASSUME Sound, Disciplined, StackInvariant', SessionInvariant', CallConnect
  PROVE  PacketInvariant'
<1> USE DEF Sound
<1>1. /\ pc \in {"app", "again"} /\ ApiOnly
      /\ (pc = "app" => stage = "done") /\ (pc = "again" => op = "connect")
  BY DEF CallConnect, May, AppRuns
<1>2. stage = "done"
  BY <1>1 DEF PacketInvariant, CallsMatch, Asks
<1>3. CASE ready /\ Finish("connect", "OK", result)
  <2>1. pc = "app"
    <3>1. "connect" \notin Commands \cup {"columns", "row"}
      BY DEF Commands
    <3> QED BY <1>1, <1>3, <3>1, Idle, Pending
  <2>2. stack = <<>> /\ Silent /\ ~ result.skip /\ ~ Connecting
    BY <1>2, <1>3, <2>1, Idle
  <2>3. stage' = "done"
    <3>1. stage' = StageAfter("connect", "OK", result)
      BY <1>3 DEF Finish
    <3> QED BY <1>2, <3>1 DEF StageAfter
  <2> QED BY <1>1, <1>3, <2>2, <2>3, FinishPackets
<1>4. CASE ~ ready /\ EnterConnect /\ Start("connect") /\ UNCHANGED stage
  BY <1>1, <1>2, <1>4, ConnectStarts DEF Start, Asks
<1> QED BY <1>3, <1>4 DEF CallConnect

LEMMA CallCommandPackets ==
  ASSUME Sound, Disciplined, StackInvariant', SessionInvariant',
         NEW name \in Commands, CallCommand(name)
  PROVE  PacketInvariant'
<1> USE DEF Sound
<1>1. /\ pc \in {"app", "again"} /\ ApiOnly /\ op' = name /\ pc' = "loop" /\ UNCHANGED stage
      /\ (pc = "app" => stage = "done") /\ (pc = "again" => op = name)
  BY DEF CallCommand, May, AppRuns, Start
<1>2. name \in Asks /\ name \notin {"columns", "row", "connect"}
  BY DEF Asks, Commands
<1>3. stage = "done"
  BY <1>1, <1>2 DEF PacketInvariant, CallsMatch
<1>4. CASE ready /\ stack = <<>>
  <2>1. Silent /\ EnterCommand(name)
    BY <1>1, <1>3, <1>4, Idle DEF CallCommand
  <2> QED BY <1>1, <1>3, <1>4, <2>1, CommandStarts
<1>5. CASE ready /\ stack # <<>>
  <2>1. pc = "again" /\ ~ Connecting
    BY <1>1, <1>5, Idle
  <2>2. UNCHANGED <<command, result, stack>> /\ inConnect' = FALSE
    BY <1>5 DEF CallCommand, EnterCommand
  <2> QED BY <1>1, <1>2, <1>3, <1>5, <2>1, <2>2, ResumePackets
<1>6. CASE ~ ready
  <2>1. EnterConnect
    BY <1>6 DEF CallCommand
  <2> QED BY <1>1, <1>2, <1>3, <1>6, <2>1, ConnectStarts
<1> QED BY <1>4, <1>5, <1>6

LEMMA CallColumnsPackets ==
  ASSUME Sound, Disciplined, StackInvariant', SessionInvariant', CallColumns
  PROVE  PacketInvariant'
<1> USE DEF Sound
<1>1. /\ pc \in {"app", "again"} /\ ApiOnly
      /\ (pc = "app" => stage = "columns") /\ (pc = "again" => op = "columns")
  BY DEF CallColumns, May, AppRuns
<1>2. stage = "columns"
  BY <1>1 DEF PacketInvariant, CallsMatch
<1>3. result.columns > 0 /\ result \in Results /\ ~ inConnect /\ ~ Connecting
  BY <1>1, <1>2, Apart DEF StackInvariant, TypeOK, CommandTypeOK, PacketInvariant, CallsMatch
<1>4. result.columns # 0
  BY <1>3
<1>5. EnterColumn /\ op' = "columns" /\ pc' = "loop" /\ UNCHANGED <<inConnect, stage>>
  BY <1>4 DEF CallColumns, Start
<1> DEFINE r == [result EXCEPT !.column = TRUE]
<1>6. /\ r \in Results /\ r.column /\ r.skip = result.skip /\ r.columns = result.columns
      /\ r.buffered = result.buffered
  BY <1>3 DEF Results
<1>7. EnterReader("column_read", r)
  BY <1>5 DEF EnterColumn
<1> HIDE DEF r
<1>8. /\ ready /\ stack # <<>> => op' = op
      /\ ready /\ stack = <<>> => ColumnsAhead(0)
  BY <1>1, <1>2, <1>5, Idle
<1> QED BY <1>1, <1>2, <1>3, <1>5, <1>6, <1>7, <1>8, ReaderStarts

LEMMA CallRowPackets ==
  ASSUME Sound, Disciplined, StackInvariant', SessionInvariant', CallRow
  PROVE  PacketInvariant'
<1> USE DEF Sound
<1>1. /\ pc \in {"app", "again"} /\ ApiOnly
      /\ (pc = "app" => stage = "rows") /\ (pc = "again" => op = "row")
  BY DEF CallRow, May, AppRuns
<1>2. stage = "rows"
  <2>1. "row" \notin Asks
    BY DEF Asks, Commands
  <2>2. stage \in {"columns", "rows", "done"}
    BY DEF StackInvariant, TypeOK, CallTypeOK
  <2> QED BY <1>1, <2>1, <2>2 DEF PacketInvariant, CallsMatch
<1>3. result.buffered /\ result \in Results /\ ~ inConnect /\ ~ Connecting
  BY <1>1, <1>2, Apart DEF StackInvariant, TypeOK, CommandTypeOK, PacketInvariant, CallsMatch
<1>4. /\ EnterReader("row_read", result) /\ op' = "row" /\ pc' = "loop"
      /\ UNCHANGED <<inConnect, stage>>
  BY <1>3 DEF CallRow, EnterRow, Start
<1>5. /\ ready /\ stack # <<>> => op' = op
      /\ ready /\ stack = <<>> => RowsAhead(0)
  BY <1>1, <1>2, <1>4, Idle
<1> QED BY <1>1, <1>2, <1>3, <1>4, <1>5, ReaderStarts

(* drizzle_result_free, between two replies.                               *)
LEMMA FreePackets ==
  ASSUME Sound, Disciplined, StackInvariant', SessionInvariant', CallResultFree
  PROVE  PacketInvariant'
<1> USE DEF Sound
<1>1. /\ pc = "app" /\ stage = "done" /\ result' = Free(result)
      /\ UNCHANGED <<stack, sock, s2c, c2s, ready, packet_number, buf, packet_size, command,
                     pc, rc, op, inConnect, stage>>
  BY DEF CallResultFree, ApiOnly, ioVars, conVars, dataVars, callVars, appVars
<1>2. ~ result.skip => ~ result'.skip
  BY <1>1 DEF Free, EmptyResult
<1>3. CallsMatch'
  <2>1. ~ Top({"field_read"})' /\ (Connecting' <=> Connecting) /\ ~ InCall'
    BY <1>1, Apart DEF Top, Connecting, InCall
  <2> QED BY <1>1, <2>1 DEF PacketInvariant, CallsMatch, InCall
<1>4. CASE ready
  <2>1. stack = <<>> /\ Silent /\ ~ result.skip /\ ~ Closing
    BY <1>1, <1>4, Idle, Apart
  <2>2. NoneFinal(c2s)
    BY <1>4, <2>1, NoneAsked DEF Reading
  <2>3. Silent' /\ NoneFinal(c2s)'
    BY <1>1, <2>1, <2>2 DEF Silent, NoneFinal
  <2>4. Between'
    BY <1>1, <2>3 DEF Between, Succeeding, Complaining
  <2>5. ReplyInOrder' /\ Requests' /\ HandshakeInOrder'
    BY <1>1, <1>2, <2>1, <2>3, <2>4, AtRest
  <2> QED BY <1>3, <2>5 DEF PacketInvariant
<1>5. CASE ~ ready /\ stack # <<>>
  <2>1. ~ Closing
    BY <1>1, Apart
  <2>2. ReplyInOrder' /\ Requests' /\ HandshakeInOrder'
    BY <1>1, <1>5, <2>1, Stays
  <2> QED BY <1>3, <2>2 DEF PacketInvariant
<1>6. CASE ~ ready /\ stack = <<>>
  <2>1. ReplyInOrder' /\ Requests' /\ HandshakeInOrder'
    BY <1>1, <1>6, AtRest
  <2> QED BY <1>3, <2>1 DEF PacketInvariant
<1> QED BY <1>4, <1>5, <1>6

(* drizzle_close.                                                          *)
LEMMA CallClosePackets ==
  ASSUME Sound, StackInvariant', SessionInvariant', CallClose
  PROVE  PacketInvariant'
<1> USE DEF Sound
<1>1. /\ drizzle_close /\ sock # "invalid" /\ pc' = "app" /\ op' = "close" /\ stage' = "done"
      /\ UNCHANGED inConnect /\ pc \in {"app", "again"}
  BY DEF CallClose, AppRuns
<1>2. stack' = <<>> /\ sock' = "invalid" /\ c2s' = <<>> /\ ~ ready'
  BY <1>1 DEF drizzle_close, Hangup, Reset
<1>3. ~ Connecting' /\ ~ Top({"field_read"})'
  BY <1>2, ConnectClasses DEF Connecting, Top
<1>4. CallsMatch'
  BY <1>1, <1>2, <1>3, Apart DEF CallsMatch, InCall
<1> QED BY <1>2, <1>4, Vacuous DEF PacketInvariant

LEMMA AppPackets ==
  ASSUME Sound, Disciplined, "skip" \notin ApiCalls, StackInvariant', SessionInvariant',
         Call \/ CallResultFree \/ CallClose
  PROVE  PacketInvariant'
<1>1. ~ CallSkip
  BY DEF CallSkip, May
<1> QED BY <1>1, CallConnectPackets, CallCommandPackets, CallColumnsPackets, CallRowPackets,
           FreePackets, CallClosePackets DEF Call

----------------------------------------------------------------------------
(* What the steps of the others leave alone.                               *)

Still == UNCHANGED <<stack, ready, packet_number, packet_size, buf, command, result,
                     pc, rc, op, inConnect, stage>>

LEMMA StillCalling ==
  ASSUME CallsMatch, Still, sock' # "connected" => c2s' = <<>>
  PROVE  CallsMatch'
<1>1. /\ Top({"field_read"})' = Top({"field_read"}) /\ (Connecting' <=> Connecting)
      /\ (InCall' <=> InCall)
  BY DEF Still, Top, Connecting, InCall
<1> QED BY <1>1 DEF Still, CallsMatch

LEMMA StillInOrder ==
  ASSUME ReplyInOrder, Still, UNCHANGED s2c
  PROVE  ReplyInOrder'
<1>1. /\ Silent' <=> Silent
      /\ \A taken, kinds, k : OneAhead(taken, kinds, k)' = OneAhead(taken, kinds, k)
      /\ \A taken : RowsAhead(taken)' = RowsAhead(taken)
      /\ \A taken : ColumnsAhead(taken)' = ColumnsAhead(taken)
      /\ \A taken : ReplyAhead(taken)' = ReplyAhead(taken)
      /\ FieldsAhead' = FieldsAhead
  BY StillAhead DEF Still
<1>2. (Closing' <=> Closing) /\ (Complaining' <=> Complaining) /\ (Succeeding' <=> Succeeding)
  BY DEF Still, Closing, Complaining, Succeeding
<1>3. After => After'
  BY <1>1 DEF Still, After
<1>4. Between => Between'
  BY <1>1, <1>2, <1>3 DEF Still, Between
<1> QED BY <1>1, <1>2, <1>4 DEF Still, ReplyInOrder

LEMMA StillRequesting ==
  ASSUME Requests, Still, ~ Top({"write"}) \/ UNCHANGED s2c, Silent' \/ ~ Top({"command_write"}),
         ready /\ ~ Closing =>
           /\ Asked(c2s)'
           /\ \/ NoneFinal(c2s)'
              \/ stack \in Reading("result_read") /\ Silent' /\ packet_number = 1
  PROVE  Requests'
<1>1. /\ Top({"write"})' = Top({"write"})
      /\ Top({"command_write"})' = Top({"command_write"})
      /\ (Closing' <=> Closing)
  BY DEF Still, Top, Closing
<1>2. Asked(buf)' = Asked(buf) /\ NoneFinal(buf)' = NoneFinal(buf)
  BY DEF Still, Asked, NoneFinal
<1> QED BY <1>1, <1>2 DEF Still, Requests

LEMMA StillShakingHands ==
  ASSUME HandshakeInOrder, Still, UNCHANGED <<sock, s2c, c2s>>
  PROVE  HandshakeInOrder'
<1>1. /\ Silent' <=> Silent
      /\ \A taken, kinds, k : OneAhead(taken, kinds, k)' = OneAhead(taken, kinds, k)
  BY StillAhead DEF Still
<1>2. /\ Top({"write"})' = Top({"write"})
      /\ Top({"handshake_client_write"})' = Top({"handshake_client_write"})
      /\ (Closing' <=> Closing)
  BY DEF Still, Top, Closing
<1>3. Login(buf)' = Login(buf) /\ Login(c2s)' = Login(c2s)
  BY DEF Still, Login
<1> QED BY <1>1, <1>2, <1>3 DEF Still, HandshakeInOrder

LEMMA NothingMoves ==
  ASSUME PacketInvariant, Still, UNCHANGED <<sock, s2c, c2s>>
  PROVE  PacketInvariant'
<1>1. CallsMatch'
  BY StillCalling DEF PacketInvariant, CallsMatch
<1>2. ReplyInOrder'
  BY StillInOrder DEF PacketInvariant
<1>3. Requests'
  <2>1. /\ Asked(c2s)' = Asked(c2s) /\ NoneFinal(c2s)' = NoneFinal(c2s)
        /\ (Silent' <=> Silent)
    BY DEF Still, Asked, NoneFinal, Silent
  <2>2. CASE ready /\ ~ Closing
    <3>1. Silent' \/ ~ Top({"command_write"})
      BY <2>1, <2>2 DEF PacketInvariant, Requests
    <3> QED BY <2>1, <2>2, <3>1, StillRequesting DEF PacketInvariant, Requests
  <2>3. CASE ~ (ready /\ ~ Closing)
    BY <2>3 DEF Still, Requests, Closing
  <2> QED BY <2>2, <2>3
<1>4. HandshakeInOrder'
  BY StillShakingHands DEF PacketInvariant
<1> QED BY <1>1, <1>2, <1>3, <1>4 DEF PacketInvariant

(* drizzle_wait and the event loop between two calls.                      *)
LEMMA LoopPackets ==
  ASSUME Sound, StackInvariant', SessionInvariant', LoopNext
  PROVE  PacketInvariant'
<1> USE DEF Sound
<1>1. /\ pc \in {"app", "again"}
      /\ UNCHANGED <<packet_size, command, result, pc, rc, op, inConnect, stage>>
      /\ (\E r, w : SetRevents(r, w)) \/ drizzle_close
  <2>1. CASE AppWait
    BY <2>1 DEF AppWait, AroundCalls, cmdVars, callVars, appVars
  <2>2. CASE AppEventLoop
    BY <2>2 DEF AppEventLoop, AppRuns, AroundCalls, cmdVars, callVars, appVars
  <2>3. CASE AppLoopStale
    BY <2>3 DEF AppLoopStale, AppRuns, AroundCalls, cmdVars, callVars, appVars
  <2> QED BY <2>1, <2>2, <2>3 DEF LoopNext
<1>2. CASE \E r, w : SetRevents(r, w)
  <2>1. Still /\ UNCHANGED <<sock, s2c, c2s>>
    BY <1>1, <1>2 DEF SetRevents, conVars, Still
  <2> QED BY <2>1, NothingMoves
<1>3. CASE drizzle_close
  <2>1. sock' = "invalid" /\ ~ ready' /\ (stack' = <<>> \/ stack' = stack)
    BY <1>3, CloseCleans DEF SessionInvariant, Clean
  <2>2. c2s' = <<>>
    BY <1>3 DEF drizzle_close, Hangup, ioVars, PacketInvariant, CallsMatch
  <2>3. ~ Top({"field_read"})' /\ (Connecting' => Connecting)
    BY <1>1, <2>1, Apart, ConnectClasses DEF Top, Connecting
  <2>4. CallsMatch'
    BY <1>1, <2>1, <2>2, <2>3 DEF CallsMatch, InCall, PacketInvariant
  <2> QED BY <2>1, <2>4, Vacuous DEF PacketInvariant
<1> QED BY <1>1, <1>2, <1>3

----------------------------------------------------------------------------
(* The peer.                                                               *)

LEMMA PeerStill ==
  ASSUME Library
  PROVE  Still /\ (Closing' <=> Closing)
BY DEF Library, Still, conVars, dataVars, cmdVars, callVars, appVars, Closing

(* The kernel connects: nothing was said yet.                              *)
LEMMA KernelPackets ==
  ASSUME Sound, StackInvariant', SessionInvariant', KernelConnects
  PROVE  PacketInvariant'
<1> USE DEF Sound
<1>1. /\ Library /\ UNCHANGED <<s2c, c2s, stack>> /\ sock # "connected" /\ Clean /\ s2c = <<>>
      /\ stack = <<"connecting", "packet_read", "handshake_server_read">>
  BY KernelEffect DEF KernelConnects
<1>2. Still
  BY <1>1, PeerStill
<1>3. c2s' = <<>>
  BY <1>1 DEF PacketInvariant, CallsMatch
<1>4. CallsMatch'
  BY <1>2, <1>3, StillCalling DEF PacketInvariant
<1>5. Silent' /\ packet_number' = 0 /\ ~ ready'
  BY <1>1, <1>2 DEF Still, Clean, Silent
<1>6. ReplyInOrder' /\ Requests' /\ HandshakeInOrder'
  BY <1>1, <1>3, <1>5, Fresh
<1> QED BY <1>4, <1>6 DEF PacketInvariant

(* Before the client is authenticated there are no replies.                *)
LEMMA NoReplies ==
  ASSUME ~ ready'
  PROVE  ReplyInOrder' /\ Requests'
BY DEF ReplyInOrder, Requests

(* The server greets a client that waits for it, or is on its way to.      *)
LEMMA ServerGreetsPackets ==
  ASSUME Sound, StackInvariant', SessionInvariant', ServerGreets
  PROVE  PacketInvariant'
<1> USE DEF Sound
<1>1. /\ server = "greet" /\ Library /\ UNCHANGED <<sock, c2s>> /\ sock = "connected"
      /\ buf = <<>> /\ s2c = <<>> /\ ~ ready
      /\ stack # <<"handshake_server_read">> /\ stack \notin HandshakeStates
  BY DEF ServerGreets, SessionInvariant, CleanApart, RepliesFollow, GreetingFirst
<1>2. Still /\ (Closing' <=> Closing)
  BY <1>1, PeerStill
<1>3. PICK kind \in {"greeting", "err", "refusal"} : s2c' = s2c \o Stream(<<kind>>, 0, 0, 0)
  BY DEF ServerGreets, Say
<1> DEFINE t == Stream(<<kind>>, 0, 0, 0)
<1>4. t \in Seq(Units) /\ OneLeft(t, 0, 0, {"greeting", "refusal", "err"}, 0)
  <2>1. kind \in ServerKinds /\ 0 \in 0..(PacketMod - 1)
    BY ConfigAssumption DEF ServerKinds, ConfigAssumption
  <2> QED BY <2>1, OneSaid
<1>5. s2c' = <<>> \o t
  BY <1>1, <1>3
<1> HIDE DEF t
<1>6. Said' = t
  <2>1. s2c' = t
    BY <1>4, <1>5, Together
  <2>2. buf' = <<>>
    BY <1>1, <1>2 DEF Still
  <2>3. Said' = <<>> \o t
    BY <2>1, <2>2 DEF Said
  <2> QED BY <1>4, <2>3, Together
<1>7. CallsMatch'
  BY <1>1, <1>2, StillCalling DEF PacketInvariant
<1>8. ReplyInOrder' /\ Requests'
  BY <1>1, <1>2, NoReplies DEF Still
<1>9. HandshakeInOrder'
  <2> SUFFICES ASSUME ~ Closing PROVE HandshakeInOrder'
    BY <1>2 DEF HandshakeInOrder
  <2>1. stack \in ConnectStates
    BY <1>1 DEF SessionInvariant, StackTellsReady
  <2>2. stack \notin Reading("handshake_result_read") /\ stack # <<"handshake_result_read">>
    BY <1>1 DEF Reading, HandshakeStates, ReaderStates
  <2>3. ~ Top({"write"}) /\ ~ Top({"handshake_client_write"})
    BY <2>1 DEF ConnectStates, Top
  <2>4. stack \in Reading("handshake_server_read")
                  \cup {<<"connecting", "packet_read", "handshake_server_read">>}
        => c2s = <<>> /\ packet_number = 0
    <3>1. Said = <<>>
      BY <1>1, SaidTyped DEF Silent
    <3>2. ~ OneAhead(0, {"greeting", "refusal", "err"}, 0)
      BY <3>1 DEF OneAhead, OneLeft, Framed
    <3> QED BY <1>1, <3>2 DEF PacketInvariant, HandshakeInOrder
  <2>5. packet_number = 0 => OneAhead(0, {"greeting", "refusal", "err"}, 0)'
    BY <1>2, <1>4, <1>6 DEF OneAhead, Still
  <2>6. /\ stack' = stack /\ c2s' = c2s
        /\ ~ Top({"write"})' /\ ~ Top({"handshake_client_write"})'
    BY <1>1, <1>2, <2>3 DEF Still, Top
  <2> QED BY <1>1, <2>2, <2>4, <2>5, <2>6 DEF HandshakeInOrder
<1> QED BY <1>7, <1>8, <1>9 DEF PacketInvariant

(* Before the client is authenticated it writes its answer to the greeting *)
(* and nothing else, and reads the result.                                 *)
LEMMA LoginFirst ==
  ASSUME Sound, Still, ~ ready, ~ Closing, sock = "connected", c2s # <<>>,
         stack \in Reading("handshake_result_read") /\ Silent /\ Login(c2s) =>
           \/ Silent' /\ c2s' = <<>>
           \/ c2s' = <<>> /\ OneAhead(0, {"ok", "eof", "err"}, 0)'
  PROVE  HandshakeInOrder'
<1> USE DEF Sound
<1>1. /\ stack \notin Reading("handshake_server_read")
                      \cup {<<"connecting", "packet_read", "handshake_server_read">>}
      /\ stack # <<"handshake_server_read">> /\ stack # <<"handshake_result_read">>
      /\ ~ Top({"handshake_client_write"}) /\ ~ Top({"write"})
      /\ stack \in Reading("handshake_result_read") => Silent /\ Login(c2s)
  BY DEF PacketInvariant, HandshakeInOrder
<1>2. /\ Top({"write"})' = Top({"write"})
      /\ Top({"handshake_client_write"})' = Top({"handshake_client_write"})
  BY DEF Still, Top
<1> QED BY <1>1, <1>2 DEF Still, HandshakeInOrder

(* The server takes the client's answer and says what it thinks of it.     *)
LEMMA ServerAuthenticatesPackets ==
  ASSUME Sound, StackInvariant', SessionInvariant', ServerAuthenticates
  PROVE  PacketInvariant'
<1> USE DEF Sound
<1>1. /\ server = "auth" /\ Library /\ UNCHANGED sock /\ sock = "connected"
      /\ ~ ready /\ c2s # <<>> /\ c2s' = Tail(c2s)
  BY DEF ServerAuthenticates, SessionInvariant, CleanApart, RepliesFollow
<1>2. Still /\ (Closing' <=> Closing)
  BY <1>1, PeerStill
<1>3. c2s \in Seq(Units) /\ Head(c2s) \in Units /\ Head(c2s) = c2s[1]
  <2>1. c2s \in Seq(Units)
    BY DEF StackInvariant, TypeOK, PeerTypeOK
  <2> QED BY <1>1, <2>1, HeadTailProperties
<1>4. CallsMatch'
  BY <1>1, <1>2, StillCalling DEF PacketInvariant
<1>5. ReplyInOrder' /\ Requests'
  BY <1>1, <1>2, NoReplies DEF Still
<1>6. HandshakeInOrder'
  <2> SUFFICES ASSUME ~ Closing PROVE HandshakeInOrder'
    BY <1>2 DEF HandshakeInOrder
  <2>1. ASSUME stack \in Reading("handshake_result_read"), Silent, Login(c2s)
        PROVE  c2s' = <<>> /\ OneAhead(0, {"ok", "eof", "err"}, 0)'
    <3>1. /\ c2s[1].kind = "auth" /\ packet_number = (c2s[1].seq + 1) % PacketMod
          /\ Len(c2s) = 1
      BY <2>1 DEF Login
    <3>2. c2s' = <<>>
      BY <1>1, <1>3, <3>1, Behind
    <3>3. \E kind \in {"ok", "err", "eof"} : s2c' = s2c \o Stream(<<kind>>, packet_number, 0, 0)
      BY <1>3, <3>1 DEF ServerAuthenticates, Say
    <3>4. PICK kind \in {"ok", "err", "eof"} :
            s2c' = s2c \o Stream(<<kind>>, packet_number, 0, 0)
      BY <3>3
    <3> DEFINE t == Stream(<<kind>>, packet_number, 0, 0)
    <3>5. t \in Seq(Units) /\ OneLeft(t, packet_number, 0, {"ok", "eof", "err"}, 0)
      <4>1. kind \in ServerKinds /\ packet_number \in 0..(PacketMod - 1)
        BY DEF ServerKinds, StackInvariant, TypeOK, ConnectionTypeOK
      <4> QED BY <4>1, OneSaid
    <3>6. s2c' = <<>> \o t
      BY <2>1, <3>4 DEF Silent
    <3> HIDE DEF t
    <3>7. Said' = t
      <4>1. s2c' = t
        BY <3>5, <3>6, Together
      <4>2. Said' = <<>> \o t
        BY <1>2, <2>1, <4>1 DEF Said, Silent, Still
      <4> QED BY <3>5, <4>2, Together
    <3>8. packet_number' = packet_number
      BY <1>2 DEF Still
    <3> QED BY <3>2, <3>5, <3>7, <3>8 DEF OneAhead
  <2> QED BY <1>1, <1>2, <2>1, LoginFirst
<1> QED BY <1>4, <1>5, <1>6 DEF PacketInvariant

(* The server hangs up.                                                    *)
LEMMA ServerFailsPackets ==
  ASSUME Sound, ~ ServerGoodbye, ServerFails
  PROVE  PacketInvariant'
<1>1. Library /\ UNCHANGED <<sock, s2c, c2s>>
  BY DEF ServerFails
<1> QED BY <1>1, PeerStill, NothingMoves DEF Sound

(* A piece of a command that is not the last is not answered.              *)
LEMMA FinalAnswered ==
  ASSUME ServerAnswers, Head(c2s) \in Units, ~ Final(Head(c2s))
  PROVE  UNCHANGED s2c
<1> DEFINE u == Head(c2s)
<1>1. u.n \in Nat /\ Chunks(u.kind) \in Nat
  BY ProtocolAssumption DEF Units, ProtocolAssumption, Chunks
<1>2. u.kind \in Commands /\ u.kind \notin {"quit", "noreply"} => u.n < Chunks(u.kind)
  BY <1>1 DEF Final, Commands
<1> QED BY <1>2 DEF ServerAnswers

(* The last one is, with one packet or with a result set.                  *)
LEMMA AnswerSaid ==
  ASSUME StackInvariant, ServerAnswers, c2s # <<>>,
         Head(c2s).k = command.k, Head(c2s).kind = command.name
  PROVE  \/ UNCHANGED s2c
         \/ \E t \in Seq(Units) :
              s2c' = s2c \o t /\ ReplyLeft(t, 1, 0, command.k, command.name)
<1> DEFINE k == command.k
<1>1. k \in Nat
  BY DEF StackInvariant, TypeOK, CommandTypeOK
<1>2. 1 \in 0..(PacketMod - 1)
  BY ConfigAssumption DEF ConfigAssumption
<1>3. \/ UNCHANGED s2c
      \/ \E kind \in {"ok", "err"} : s2c' = s2c \o Stream(<<kind>>, 1, k, 0)
      \/ /\ command.name = "query"
         /\ \E c \in 1..MaxColumns, r \in 0..MaxRows, last \in {"eof", "err"} :
              s2c' = s2c \o Stream(ResultSet(c, r, last), 1, k, c)
  BY DEF ServerAnswers, Say
<1> HIDE DEF k
<1>4. ASSUME NEW kind \in {"ok", "err"}, s2c' = s2c \o Stream(<<kind>>, 1, k, 0)
      PROVE  \E t \in Seq(Units) :
               s2c' = s2c \o t /\ ReplyLeft(t, 1, 0, k, command.name)
  <2>1. /\ Stream(<<kind>>, 1, k, 0) \in Seq(Units)
        /\ OneLeft(Stream(<<kind>>, 1, k, 0), 1, 0, {"ok", "err"}, k)
    <3>1. kind \in ServerKinds
      BY DEF ServerKinds
    <3> QED BY <1>1, <1>2, <3>1, OneSaid
  <2> QED BY <1>4, <2>1 DEF ReplyLeft
<1>5. ASSUME command.name = "query",
             NEW c \in 1..MaxColumns, NEW r \in 0..MaxRows, NEW last \in {"eof", "err"},
             s2c' = s2c \o Stream(ResultSet(c, r, last), 1, k, c)
      PROVE  \E t \in Seq(Units) :
               s2c' = s2c \o t /\ ReplyLeft(t, 1, 0, k, command.name)
  <2>1. c \in Nat \ {0} /\ r \in Nat /\ last \in Lasts
    BY ProtocolAssumption DEF ProtocolAssumption, Lasts
  <2>2. /\ Stream(ResultSet(c, r, last), 1, k, c) \in Seq(Units)
        /\ ReplyLeft(Stream(ResultSet(c, r, last), 1, k, c), 1, 0, k, "query")
    BY <1>1, <2>1, ResultSaid
  <2> QED BY <1>5, <2>2
<1> QED BY <1>3, <1>4, <1>5 DEF k

(* The server takes a piece of a command, and answers the last one, which  *)
(* is the last that was written and is of the command the client awaits    *)
(* the reply of.                                                           *)
LEMMA ServerAnswersPackets ==
  ASSUME Sound, StackInvariant', SessionInvariant', ServerAnswers
  PROVE  PacketInvariant'
<1> USE DEF Sound
<1>1. /\ server = "idle" /\ Library /\ UNCHANGED sock /\ sock = "connected"
      /\ c2s # <<>> /\ c2s' = Tail(c2s)
  BY DEF ServerAnswers, SessionInvariant, CleanApart
<1>2. Still /\ (Closing' <=> Closing)
  BY <1>1, PeerStill
<1>3. c2s \in Seq(Units) /\ Head(c2s) \in Units /\ Head(c2s) = c2s[1]
  <2>1. c2s \in Seq(Units)
    BY DEF StackInvariant, TypeOK, PeerTypeOK
  <2> QED BY <1>1, <2>1, HeadTailProperties
<1>4. CallsMatch'
  BY <1>1, <1>2, StillCalling DEF PacketInvariant
<1>5. CASE Closing
  BY <1>2, <1>4, <1>5, Vacuous DEF PacketInvariant
<1>6. CASE ~ ready /\ ~ Closing
  <2>1. ReplyInOrder' /\ Requests'
    BY <1>2, <1>6, NoReplies DEF Still
  <2>2. ASSUME Silent, Login(c2s)
        PROVE  Silent' /\ c2s' = <<>>
    <3>1. c2s[1].kind = "auth" /\ Len(c2s) = 1
      BY <2>2 DEF Login
    <3>2. ~ Final(Head(c2s))
      BY <1>3, <3>1 DEF Final
    <3>3. UNCHANGED s2c
      BY <1>3, <3>2, FinalAnswered
    <3>4. c2s' = <<>>
      BY <1>1, <1>3, <3>1, Behind
    <3> QED BY <1>2, <2>2, <3>3, <3>4 DEF Silent, Still
  <2>3. HandshakeInOrder'
    BY <1>1, <1>2, <1>6, <2>2, LoginFirst
  <2> QED BY <1>4, <2>1, <2>3 DEF PacketInvariant
<1>7. CASE ready /\ ~ Closing
  <2>1. HandshakeInOrder'
    BY <1>2, <1>7 DEF HandshakeInOrder, Still
  <2>2. /\ Asked(c2s)
        /\ NoneFinal(c2s) \/ (stack \in Reading("result_read") /\ Silent /\ packet_number = 1)
    BY <1>7 DEF PacketInvariant, Requests
  <2>3. /\ Len(c2s) \in Nat /\ Len(c2s) >= 1 /\ Len(Tail(c2s)) = Len(c2s) - 1
        /\ \A i \in 1..(Len(c2s) - 1) : Tail(c2s)[i] = c2s[i + 1]
        /\ Tail(c2s) = <<>> <=> Len(c2s) < 2
    BY <1>1, <1>3, Behind
  <2>4. CASE UNCHANGED s2c
    <3>1. ReplyInOrder'
      BY <1>2, <2>4, StillInOrder DEF PacketInvariant
    <3>2. \A i \in 1..Len(Tail(c2s)) :
            i + 1 \in 1..Len(c2s) /\ Tail(c2s)[i] = c2s[i + 1]
            /\ (i + 1 = Len(c2s) <=> i = Len(Tail(c2s)))
      BY <2>3
    <3>3. Asked(Tail(c2s)) /\ (NoneFinal(c2s) => NoneFinal(Tail(c2s)))
      BY <2>2, <3>2 DEF Asked, NoneFinal
    <3>4. Asked(c2s)' /\ (NoneFinal(c2s) => NoneFinal(c2s)') /\ (Silent' <=> Silent)
      BY <1>1, <1>2, <2>4, <3>3 DEF Asked, NoneFinal, Still, Silent
    <3>5. Silent' \/ ~ Top({"command_write"})
      BY <1>7, <3>4 DEF PacketInvariant, Requests
    <3>6. Requests'
      BY <1>2, <2>2, <2>4, <3>4, <3>5, StillRequesting DEF PacketInvariant
    <3> QED BY <1>4, <2>1, <3>1, <3>6 DEF PacketInvariant
  <2>5. CASE ~ UNCHANGED s2c
    <3>1. Final(Head(c2s))
      BY <1>3, <2>5, FinalAnswered
    <3>2. 1 \in 1..Len(c2s) /\ Final(c2s[1])
      BY <1>3, <2>3, <3>1
    <3>3. Head(c2s).k = command.k /\ Head(c2s).kind = command.name /\ Len(c2s) < 2
      <4>1. Head(c2s).k = command.k /\ Head(c2s).kind = command.name /\ 1 = Len(c2s)
        BY <1>3, <2>2, <3>2 DEF Asked
      <4>2. 1 = Len(c2s) => Len(c2s) < 2
        OBVIOUS
      <4> QED BY <4>1, <4>2
    <3>4. stack \in Reading("result_read") /\ Silent /\ packet_number = 1
      BY <2>2, <3>2 DEF NoneFinal
    <3>5. c2s' = <<>>
      BY <1>1, <2>3, <3>3
    <3>6. PICK t \in Seq(Units) :
            s2c' = s2c \o t /\ ReplyLeft(t, 1, 0, command.k, command.name)
      BY <1>1, <2>5, <3>3, AnswerSaid
    <3>7. Said' = t
      <4>1. s2c' = <<>> \o t
        BY <3>4, <3>6 DEF Silent
      <4>2. s2c' = t
        BY <3>6, <4>1, Together
      <4>3. Said' = <<>> \o t
        BY <1>2, <3>4, <4>2 DEF Said, Silent, Still
      <4> QED BY <3>6, <4>3, Together
    <3>8. ReplyAhead(0)'
      <4>1. UNCHANGED <<packet_number, command>>
        BY <1>2 DEF Still
      <4> QED BY <3>4, <3>6, <3>7, <4>1 DEF ReplyAhead
    <3>9. "result_read" \in Parsers \ {"field_read"}
      BY DEF Parsers
    <3>10. /\ stack # <<>> /\ Head(stack) \in {"packet_read", "read"}
           /\ \A h : stack # <<h>>
           /\ \A h : stack \in Reading(h) <=> h = "result_read"
           /\ \A h : stack \in ReaderStates(h) <=> h = "result_read"
           /\ stack # <<"read", "field_read">>
      BY <3>4, <3>9, ReadingClasses
    <3>11. ReplyInOrder'
      <4>1. /\ pc # "app" /\ ~ Complaining /\ (pc \in {"stop", "leave"} => rc # "NOT_READY")
            /\ ~ result.skip
        BY <1>7, <3>10 DEF PacketInvariant, ReplyInOrder
      <4>2. /\ pc' # "app" /\ ~ Complaining' /\ (pc' \in {"stop", "leave"} => rc' # "NOT_READY")
            /\ ~ result'.skip /\ stack' = stack
        BY <1>2, <4>1 DEF Still, Complaining
      <4> QED BY <3>8, <3>10, <4>2 DEF ReplyInOrder
    <3>12. NoneFinal(c2s)' /\ Asked(c2s)'
      <4>1. 1..Len(<<>>) = {}
        OBVIOUS
      <4> QED BY <3>5, <4>1 DEF NoneFinal, Asked
    <3>13. ~ Top({"write"}) /\ ~ Top({"command_write"})
      BY <3>10 DEF Top
    <3>14. Requests'
      BY <1>2, <3>12, <3>13, StillRequesting DEF PacketInvariant
    <3> QED BY <1>4, <2>1, <3>11, <3>14 DEF PacketInvariant
  <2> QED BY <2>4, <2>5
<1> QED BY <1>5, <1>6, <1>7

LEMMA PeerPackets ==
  ASSUME Sound, ~ ServerGoodbye, StackInvariant', SessionInvariant', PeerNext
  PROVE  PacketInvariant'
BY KernelPackets, ServerGreetsPackets, ServerAuthenticatesPackets, ServerAnswersPackets,
   ServerFailsPackets DEF PeerNext

----------------------------------------------------------------------------
(* The theorems.                                                           *)

(* A connection object is created with nothing of any conversation.        *)
LEMMA PacketStarts == Init => PacketInvariant
<1> SUFFICES ASSUME Init PROVE PacketInvariant
  OBVIOUS
<1>1. /\ stack = <<>> /\ sock = "invalid" /\ ready = FALSE /\ c2s = <<>>
      /\ pc = "app" /\ op = "close" /\ inConnect = FALSE /\ stage = "done"
  BY DEF Init
<1>2. ~ Connecting /\ ~ Top({"field_read"}) /\ ~ InCall
  BY <1>1, ConnectClasses DEF Connecting, Top, InCall
<1>3. CallsMatch
  BY <1>1, <1>2 DEF CallsMatch
<1>4. ReplyInOrder /\ Requests /\ HandshakeInOrder
  BY <1>1 DEF ReplyInOrder, Requests, HandshakeInOrder
<1> QED BY <1>3, <1>4 DEF PacketInvariant

(* Every step preserves the invariant: one lemma for each action.          *)
LEMMA PacketNext ==
  ASSUME OrderlyUse, Sound, StackInvariant', SessionInvariant', [Next]_vars
  PROVE  PacketInvariant'
<1> USE DEF OrderlyUse
<1>1. CASE Handler
  BY <1>1, AddrinfoPackets, ConnectPackets, ConnectingPackets, ReadPackets, WritePackets,
     PacketReadPackets, GreetingPackets, ClientWritePackets, HandshakeResultPackets,
     CommandWritePackets, ResultReadPackets, ColumnReadPackets, RowReadPackets,
     FieldReadPackets DEF Handler
<1>2. CASE drizzle_wait \/ StateLoopStops \/ StateLoopEnds
  BY <1>2, DrizzleWaitPackets, StateLoopStopsPackets, StateLoopEndsPackets
<1>3. CASE \/ ConnectReturns \/ CommandReturns \/ QuitReturns
           \/ ColumnsReturn \/ SkipReturns \/ RowReturns
  BY <1>3, ReturnsPackets
<1>4. CASE Call \/ CallResultFree \/ CallClose
  BY <1>4, AppPackets
<1>5. CASE LoopNext
  BY <1>5, LoopPackets
<1>6. CASE PeerNext
  BY <1>6, PeerPackets
<1>7. CASE AppRests \/ UNCHANGED vars
  <2>1. Still /\ UNCHANGED <<sock, s2c, c2s>>
    BY <1>7 DEF AppRests, vars, ioVars, conVars, dataVars, cmdVars, callVars, appVars, Still
  <2> QED BY <2>1, NothingMoves DEF Sound
<1> QED
  BY <1>1, <1>2, <1>3, <1>4, <1>5, <1>6, <1>7 DEF Next, LibraryNext, AppNext

(* When the application finishes a call and a reply before it starts the   *)
(* next, and reads the columns rather than skips them: what the server has *)
(* said and the library has not parsed is at any time the rest of one      *)
(* reply, to the command sent last, up to which the stack has come; the    *)
(* server is sent nothing while there is such a rest; and the handshake is *)
(* one greeting, one answer and one result.                                *)
THEOREM PacketIsInvariant ==
  ASSUME OrderlyUse
  PROVE  Spec => []PacketInvariant
<1>1. Init => PacketInvariant
  BY PacketStarts
<1>2. Sound /\ StackInvariant' /\ SessionInvariant' /\ [Next]_vars => PacketInvariant'
  BY PacketNext
<1>3. Spec => []SessionInvariant
  BY SessionIsInvariant DEF OrderlyUse
<1> QED BY <1>1, <1>2, <1>3, StackIsInvariant, PTL DEF Spec, Sound

(* What a reader of packets finds in front of it.                          *)
LEMMA AheadOfReader ==
  ASSUME Sound, NEW h \in Parsers \ {"field_read"}, stack \in Reading(h),
         pc = "loop", buf # <<>>
  PROVE  \E k : Framed(Said, packet_number, 0, k)
<1> USE DEF Sound
<1>1. ~ Closing /\ ~ Silent /\ sock = "connected"
  BY DEF Closing, Silent, SessionInvariant, CleanApart, Clean
<1>2. /\ stack \in ConnectStates <=> h = "handshake_server_read"
      /\ stack \in HandshakeStates <=> h = "handshake_result_read"
  BY ReadingClasses
<1>3. CASE ready
  <2>1. h \in {"result_read", "column_read", "row_read"}
    BY <1>2, <1>3 DEF Parsers, SessionInvariant, StackTellsReady
  <2>2. /\ h = "result_read" => ReplyAhead(0)
        /\ h = "column_read" => ColumnsAhead(0)
        /\ h = "row_read" => RowsAhead(0)
    BY <1>1, <1>3 DEF PacketInvariant, ReplyInOrder
  <2> QED BY <2>1, <2>2, AllFramed DEF ReplyAhead, ColumnsAhead, RowsAhead
<1>4. CASE ~ ready
  <2>1. h \in {"handshake_server_read", "handshake_result_read"}
    BY <1>1, <1>2, <1>4 DEF SessionInvariant, StackTellsReady
  <2>2. /\ h = "handshake_server_read" => OneAhead(0, {"greeting", "refusal", "err"}, 0)
        /\ h = "handshake_result_read" => OneAhead(0, {"ok", "eof", "err"}, 0)
    BY <1>1, <1>4 DEF PacketInvariant, HandshakeInOrder
  <2> QED BY <2>1, <2>2 DEF OneAhead, OneLeft
<1> QED BY <1>3, <1>4

(* drizzle_state_packet_read finds the header it expects in front of what  *)
(* has arrived: the numbers of both sides agree and nothing was left there *)
(* by an earlier packet.                                                   *)
THEOREM HeadersAlwaysAtHand ==
  ASSUME OrderlyUse
  PROVE  Spec => []HeaderAtHand
<1>1. StackInvariant /\ SessionInvariant /\ PacketInvariant => HeaderAtHand
  <2> SUFFICES ASSUME Sound, Running("packet_read"), buf # <<>>
               PROVE  Head(buf).part = "head" /\ Head(buf).seq = packet_number
    BY DEF Sound, HeaderAtHand
  <2>1. PICK h \in Parsers \ {"field_read"} : stack = <<"packet_read", h>>
    BY Shapes DEF Running, Sound, StackInvariant, WellFormedStack
  <2>2. stack \in Reading(h) /\ pc = "loop"
    BY <2>1 DEF Reading, Running
  <2>3. PICK k : Framed(Said, packet_number, 0, k)
    BY <2>2, AheadOfReader
  <2>4. Head(Said) = Head(buf) /\ Said \in Seq(Units) /\ Said # <<>>
    BY SaidTyped DEF Sound
  <2>5. Head(Said) = Said[1]
    BY <2>4, Behind
  <2> QED BY <2>3, <2>4, <2>5 DEF Framed
<1>2. Spec => []SessionInvariant
  BY SessionIsInvariant DEF OrderlyUse
<1> QED BY <1>1, <1>2, StackIsInvariant, PacketIsInvariant, PTL

(* What a parser finds in front of it.                                     *)
LEMMA AheadOfParser ==
  ASSUME Sound, NEW h \in Parsers, stack = <<h>>, pc = "loop",
         h = "handshake_server_read" => packet_size = 1
  PROVE  LET k == IF ready THEN command.k ELSE 0
         IN  /\ packet_size = 1 /\ buf # <<>>
             /\ Framed(Said, packet_number, 1, k)
             /\ Head(Said).kind \in Expected(h)
<1> USE DEF Sound
<1> DEFINE k == IF ready THEN command.k ELSE 0
<1>1. ~ Closing /\ Top({h}) /\ Said \in Seq(Units)
  BY SaidTyped DEF Closing, Top
<1>2. /\ \A g : stack = <<g>> <=> g = h
      /\ stack \in ConnectStates <=> h = "handshake_server_read"
      /\ stack \in HandshakeStates <=> h = "handshake_result_read"
  BY AloneClasses
<1>3. CASE h = "field_read"
  <2>1. ready
    BY <1>1, <1>3 DEF PacketInvariant, CallsMatch
  <2>2. FieldsAhead
    BY <1>1, <1>3, <2>1 DEF PacketInvariant, ReplyInOrder
  <2>3. RowsLeft(Said, packet_number, 1, command.k) /\ Len(Said) > 2
    BY <2>2 DEF FieldsAhead, RowsAhead
  <2>4. Head(Said).kind = "row"
    <3>1. Said # <<>>
      BY <2>3, AllFramed DEF Framed
    <3>2. Len(Said) \in Nat /\ Head(Said) = Said[1]
      BY <1>1, <3>1, Behind
    <3>3. 1 \in 1..Len(Said) /\ 1 <= Len(Said) - 2
      BY <2>3, <3>2
    <3> QED BY <2>3, <3>2, <3>3 DEF RowsLeft
  <2> QED BY <1>3, <2>1, <2>2, <2>3, <2>4, AllFramed DEF FieldsAhead, Expected
<1>4. CASE h # "field_read"
  <2>1. packet_size = 1 /\ buf # <<>>
    BY <1>1, <1>4 DEF StackInvariant, ParserHasPacket, Top
  <2>2. sock = "connected"
    BY <2>1 DEF SessionInvariant, CleanApart, Clean
  <2>3. CASE ready
    <3>1. h \in {"result_read", "column_read", "row_read"}
      BY <1>2, <1>4, <2>3 DEF Parsers, SessionInvariant, StackTellsReady
    <3>2. CASE h = "result_read"
      <4>1. IF op = "row" THEN OneLeft(Said, packet_number, 1, {"err"}, command.k)
                          ELSE ReplyLeft(Said, packet_number, 1, command.k, command.name)
        BY <1>1, <2>3, <3>2 DEF PacketInvariant, ReplyInOrder, OneAhead, ReplyAhead
      <4>2. Head(Said).kind \in {"ok", "count", "err"}
        BY <1>1, <4>1, OneBody, ReplyBody
      <4> QED BY <2>1, <2>3, <3>2, <4>1, <4>2, AllFramed DEF Expected
    <3>3. CASE h = "column_read"
      <4>1. ColumnsLeft(Said, packet_number, 1, command.k)
        BY <1>1, <2>3, <3>3 DEF PacketInvariant, ReplyInOrder, ColumnsAhead
      <4> QED BY <1>1, <2>1, <2>3, <3>3, <4>1, AllFramed, ColumnsBody DEF Expected
    <3>4. CASE h = "row_read"
      <4>1. RowsLeft(Said, packet_number, 1, command.k)
        BY <1>1, <2>3, <3>4 DEF PacketInvariant, ReplyInOrder, RowsAhead
      <4> QED BY <1>1, <2>1, <2>3, <3>4, <4>1, AllFramed, RowsBody DEF Expected
    <3> QED BY <3>1, <3>2, <3>3, <3>4
  <2>4. CASE ~ ready
    <3>1. h \in {"handshake_server_read", "handshake_result_read"}
      BY <1>1, <1>2, <2>2, <2>4 DEF SessionInvariant, StackTellsReady
    <3>2. OneLeft(Said, packet_number, 1, Expected(h), 0)
      BY <1>1, <2>1, <2>2, <2>4, <3>1
         DEF PacketInvariant, HandshakeInOrder, OneAhead, Expected
    <3> QED BY <1>1, <2>1, <2>4, <3>2, AllFramed, OneBody
  <2> QED BY <2>3, <2>4
<1> QED BY <1>3, <1>4

(* A parser finds the whole body of a packet it is meant for, that answers *)
(* the command sent last.                                                  *)
THEOREM PacketsAlwaysAtHand ==
  ASSUME OrderlyUse
  PROVE  Spec => []PacketAtHand
<1>1. StackInvariant /\ SessionInvariant /\ PacketInvariant => PacketAtHand
  <2> SUFFICES ASSUME Sound, NEW h \in Parsers, Running(h),
                      ~ (h = "handshake_server_read" /\ packet_size = 0)
               PROVE  /\ packet_size = 1 /\ buf # <<>>
                      /\ Head(buf).part = "body" /\ Head(buf).kind \in Expected(h)
                      /\ Head(buf).k = IF ready THEN command.k ELSE 0
    BY DEF Sound, PacketAtHand
  <2> DEFINE k == IF ready THEN command.k ELSE 0
  <2>1. stack = <<h>> /\ pc = "loop"
    BY Shapes DEF Running, Sound, StackInvariant, WellFormedStack, Parsers
  <2>2. h = "handshake_server_read" => packet_size = 1
    BY DEF Sound, StackInvariant, TypeOK, ConnectionTypeOK
  <2>3. /\ packet_size = 1 /\ buf # <<>>
        /\ Framed(Said, packet_number, 1, k)
        /\ Head(Said).kind \in Expected(h)
    BY <2>1, <2>2, AheadOfParser
  <2> HIDE DEF k
  <2>4. Head(Said) = Head(buf) /\ Said \in Seq(Units)
    BY <2>3, SaidTyped DEF Sound
  <2>5. Head(Said).part = "body" /\ Head(Said).k = k
    BY <2>3, <2>4, BodyFramed
  <2> QED BY <2>3, <2>4, <2>5 DEF k
<1>2. Spec => []SessionInvariant
  BY SessionIsInvariant DEF OrderlyUse
<1> QED BY <1>1, <1>2, StackIsInvariant, PacketIsInvariant, PTL

(* The application is told that a reply is at its end only when the        *)
(* library has read all of it.                                             *)
THEOREM RepliesAlwaysDrained ==
  ASSUME OrderlyUse
  PROVE  Spec => []DoneMeansDrained
<1>1. StackInvariant /\ SessionInvariant /\ PacketInvariant => DoneMeansDrained
  BY Idle DEF Sound, DoneMeansDrained, Silent
<1>2. Spec => []SessionInvariant
  BY SessionIsInvariant DEF OrderlyUse
<1> QED BY <1>1, <1>2, StackIsInvariant, PacketIsInvariant, PTL

(* drizzle_row_read returns 0 only when the reply has no more rows: with   *)
(* columns that were read, not skipped.                                    *)
THEOREM RowsEndAtTheirEnd ==
  ASSUME OrderlyUse
  PROVE  Spec => []EndOfRows
<1>1. StackInvariant /\ SessionInvariant /\ PacketInvariant => EndOfRows
  <2> SUFFICES ASSUME Sound, pc = "app", op = "row", rc = "OK", result.row_current = 0
               PROVE  \A s \in {buf, s2c} : \A i \in DOMAIN s : s[i].kind # "row"
    BY DEF Sound, EndOfRows
  <2>1. stage = "done"
    BY DEF Sound, PacketInvariant, CallsMatch
  <2>2. Silent
    <3>1. CASE ready
      BY <2>1, <3>1, Idle
    <3>2. CASE ~ ready
      <4>1. "row" \notin Asks
        BY DEF Asks, Commands
      <4>2. sock # "connected"
        BY <3>2, <4>1, Apart DEF Sound, PacketInvariant, CallsMatch
      <4> QED BY <4>2 DEF Sound, SessionInvariant, CleanApart, Clean, Silent
    <3> QED BY <3>1, <3>2
  <2>3. DOMAIN <<>> = {}
    OBVIOUS
  <2> QED BY <2>2, <2>3 DEF Silent
<1>2. Spec => []SessionInvariant
  BY SessionIsInvariant DEF OrderlyUse
<1> QED BY <1>1, <1>2, StackIsInvariant, PacketIsInvariant, PTL

----------------------------------------------------------------------------
(* The result of a call.                                                   *)

(* A handler that has not got through its work returns IO_WAIT or waits.   *)
LEMMA WaitHolds ==
  ASSUME ConfigAssumption, NEW ev, NEW rev, pc = "loop",
         WaitFor(ev, rev, Yield) \/ WaitFor(ev, rev, Block)
  PROVE  /\ pc' \in {"stop", "wait"}
         /\ pc' = "stop" /\ rc' = "IO_WAIT" =>
              NonBlocking \/ WaitFor(ev, rev, Yield)
<1>1. "IO_WAIT" \notin CallbackErrors
  BY DEF ConfigAssumption
<1>2. CASE WaitFor(ev, rev, Yield)
  BY <1>2 DEF WaitFor, Yield, Return
<1>3. CASE WaitFor(ev, rev, Block)
  BY <1>1, <1>3 DEF WaitFor, Block, Yield, Return
<1> QED BY <1>2, <1>3

(* What a handler leaves alone: the call, and that its result is there.    *)
Keeps ==
  /\ pc' \in {"loop", "stop", "wait"}
  /\ UNCHANGED <<op, inConnect>> /\ result'.at = result.at
  /\ pc' = "stop" /\ rc' = "IO_WAIT" => NonBlocking

LEMMA KeepsHeld ==
  ASSUME ResultHeld, pc = "loop", Keeps
  PROVE  ResultHeld'
BY DEF ResultHeld, Keeps, InCall

(* A handler of the handshake runs in drizzle_connect.                     *)
LEMMA ConnectingHeld ==
  ASSUME Sound, ResultHeld, Connecting, pc = "loop",
         pc' \in {"loop", "stop", "wait"}, UNCHANGED <<op, inConnect>>
  PROVE  ResultHeld'
<1>1. inConnect
  BY DEF Sound, PacketInvariant, CallsMatch, InCall
<1> QED BY <1>1 DEF ResultHeld, InCall

LEMMA AttemptHeld ==
  ASSUME Sound, ResultHeld,
         drizzle_state_addrinfo \/ drizzle_state_connect \/ drizzle_state_connecting
  PROVE  ResultHeld'
<1>1. pc = "loop" /\ Connecting
  <2>1. /\ pc = "loop" /\ stack \in StackStates /\ stack # <<>>
        /\ Head(stack) \in {"addrinfo", "connect", "connecting"}
    BY DEF drizzle_state_addrinfo, drizzle_state_connect, drizzle_state_connecting,
       Running, Sound, StackInvariant, WellFormedStack
  <2>2. stack \notin {<<"connect">>, <<"connecting">>}
    BY DEF Sound, SessionInvariant, StackTellsReady
  <2>3. stack \in {<<"addrinfo", "connect", "packet_read", "handshake_server_read">>,
                   <<"connect", "packet_read", "handshake_server_read">>,
                   <<"connecting", "packet_read", "handshake_server_read">>}
    BY <2>1, <2>2, Shapes
  <2> QED BY <2>1, <2>3 DEF ConnectStates, Connecting
<1>2. UNCHANGED <<op, inConnect>>
  BY DEF drizzle_state_addrinfo, drizzle_state_connect, drizzle_state_connecting,
     Others, callVars
<1>3. pc' \in {"loop", "stop", "wait"}
  <2>1. CASE drizzle_state_addrinfo
    BY <1>1, <2>1 DEF drizzle_state_addrinfo, Continue, Return
  <2>2. CASE drizzle_state_connect
    BY <1>1, <2>2 DEF drizzle_state_connect, ConnectUds, NoAddressLeft, ConnectFails,
       ConnectAtOnce, ConnectRefused, ConnectInProgress, Continue, Return
  <2>3. CASE drizzle_state_connecting
    BY <1>1, <2>3, ConfigAssumption, WaitHolds
       DEF drizzle_state_connecting, TryNextAddress, Continue, Return
  <2> QED BY <2>1, <2>2, <2>3
<1> QED BY <1>1, <1>2, <1>3, ConnectingHeld

LEMMA TransferHeld ==
  ASSUME Sound, ResultHeld,
         drizzle_state_read \/ drizzle_state_write \/ drizzle_state_packet_read
  PROVE  ResultHeld'
<1>1. pc = "loop"
  BY DEF drizzle_state_read, drizzle_state_write, drizzle_state_packet_read, Running
<1>2. UNCHANGED <<op, inConnect, result>>
  BY DEF drizzle_state_read, drizzle_state_write, drizzle_state_packet_read,
     Others, callVars, cmdVars
<1>3. /\ pc' \in {"loop", "stop", "wait"}
      /\ pc' = "stop" /\ rc' = "IO_WAIT" => NonBlocking
  <2>1. CASE drizzle_state_read
    <3>1. CASE ReadWaitsForPoll
      BY <1>1, <3>1, ConfigAssumption, WaitHolds DEF ReadWaitsForPoll
    <3>2. CASE ReadWouldBlock
      <4>1. WaitFor({"IN"}, revents \ {"IN"}, Block)
        BY <3>2 DEF ReadWouldBlock
      <4>2. "IO_WAIT" \notin CallbackErrors
        BY ConfigAssumption
      <4> QED BY <1>1, <4>1, <4>2 DEF WaitFor, Block, Yield, Return
    <3>3. CASE ReadSome \/ ReadRefused \/ ReadFails
      BY <1>1, <3>3 DEF ReadSome, ReadRefused, ReadFails, Lost, Continue, Return
    <3> QED BY <2>1, <3>1, <3>2, <3>3 DEF drizzle_state_read
  <2>2. CASE drizzle_state_write
    <3>1. CASE WriteWouldBlock
      <4>1. WaitFor({"OUT"}, revents, Block)
        BY <3>1 DEF WriteWouldBlock
      <4>2. "IO_WAIT" \notin CallbackErrors
        BY ConfigAssumption
      <4> QED BY <1>1, <4>1, <4>2 DEF WaitFor, Block, Yield, Return
    <3>2. CASE WriteSome \/ WriteFails \/ Continue
      BY <1>1, <3>2 DEF WriteSome, WriteFails, Lost, Continue, Return
    <3> QED BY <2>2, <3>1, <3>2 DEF drizzle_state_write
  <2>3. CASE drizzle_state_packet_read
    BY <1>1, <2>3 DEF drizzle_state_packet_read, Continue, Return
  <2> QED BY <2>1, <2>2, <2>3
<1> QED BY <1>1, <1>2, <1>3, KeepsHeld DEF Keeps

LEMMA HandshakeHeld ==
  ASSUME Sound, ResultHeld,
         \/ drizzle_state_handshake_server_read \/ drizzle_state_handshake_client_write
         \/ drizzle_state_handshake_result_read
  PROVE  ResultHeld'
<1>1. pc = "loop" /\ Top({"handshake_server_read", "handshake_client_write",
                          "handshake_result_read"})
  BY DEF drizzle_state_handshake_server_read, drizzle_state_handshake_client_write,
     drizzle_state_handshake_result_read, Running, Top
<1>2. Connecting
  <2>1. stack \in StackStates
    BY <1>1 DEF Sound, StackInvariant, WellFormedStack
  <2>2. CASE Head(stack) = "handshake_client_write"
    BY <1>1, <2>1, <2>2, Shapes DEF HandshakeStates, Connecting, Top
  <2>3. CASE Head(stack) \in {"handshake_server_read", "handshake_result_read"}
    <3>1. PICK g \in {"handshake_server_read", "handshake_result_read"} : stack = <<g>>
      BY <1>1, <2>1, <2>3, Shapes DEF Parsers, Top
    <3> QED BY <3>1 DEF ConnectStates, HandshakeStates, ReaderStates, Connecting
  <2> QED BY <1>1, <2>2, <2>3 DEF Top
<1>3. UNCHANGED <<op, inConnect>>
  BY DEF drizzle_state_handshake_server_read, drizzle_state_handshake_client_write,
     drizzle_state_handshake_result_read, Quiet, callVars
<1>4. pc' \in {"loop", "stop", "wait"}
  BY <1>1 DEF drizzle_state_handshake_server_read, drizzle_state_handshake_client_write,
     drizzle_state_handshake_result_read, Parse, GreetingIsError, GreetingRejected,
     GreetingAccepted, Continue, Return
<1> QED BY <1>1, <1>2, <1>3, <1>4, ConnectingHeld

LEMMA ReplyHeld ==
  ASSUME Sound, ResultHeld,
         \/ drizzle_state_command_write \/ drizzle_state_result_read
         \/ drizzle_state_column_read \/ drizzle_state_row_read \/ drizzle_state_field_read
  PROVE  ResultHeld'
<1>1. pc = "loop"
  BY DEF drizzle_state_command_write, drizzle_state_result_read,
     drizzle_state_column_read, drizzle_state_row_read, drizzle_state_field_read, Running
<1>2. UNCHANGED <<op, inConnect>>
  BY DEF drizzle_state_command_write, drizzle_state_result_read,
     drizzle_state_column_read, drizzle_state_row_read, drizzle_state_field_read,
     Quiet, callVars
<1>3. result'.at = result.at
  <2>1. result \in Results
    BY DEF Sound, StackInvariant, TypeOK, CommandTypeOK
  <2>2. CASE drizzle_state_command_write
    BY <2>2 DEF drizzle_state_command_write
  <2>3. CASE drizzle_state_result_read
    BY <2>1, <2>3 DEF drizzle_state_result_read, Parse, Filled, cmdVars, Results
  <2>4. CASE drizzle_state_column_read
    BY <2>1, <2>4 DEF drizzle_state_column_read, Parse, cmdVars, Results
  <2>5. CASE drizzle_state_row_read
    BY <2>1, <2>5 DEF drizzle_state_row_read, Parse, cmdVars, Results
  <2>6. CASE drizzle_state_field_read
    BY <2>6 DEF drizzle_state_field_read, cmdVars
  <2> QED BY <2>2, <2>3, <2>4, <2>5, <2>6
<1>4. pc' \in {"loop", "stop"} /\ (pc' = "stop" => rc' = "ERROR_CODE")
  BY <1>1 DEF drizzle_state_command_write, drizzle_state_result_read,
     drizzle_state_column_read, drizzle_state_row_read, drizzle_state_field_read, Parse,
     Continue, Return
<1> QED BY <1>1, <1>2, <1>3, <1>4, KeepsHeld DEF Keeps

(* The end of drizzle_state_loop, and drizzle_wait.                        *)
LEMMA EndHeld ==
  ASSUME Sound, ResultHeld, drizzle_wait \/ StateLoopStops \/ StateLoopEnds
  PROVE  ResultHeld'
<1>1. pc \in {"wait", "stop", "loop"} /\ UNCHANGED <<op, inConnect, result>>
  BY DEF drizzle_wait, StateLoopStops, StateLoopEnds, Others, callVars, cmdVars
<1>2. pc' \in {"loop", "stop", "leave"}
  BY DEF drizzle_wait, StateLoopStops, StateLoopEnds, WaitFails
<1>3. pc' \in {"stop", "leave"} /\ rc' = "IO_WAIT" => pc = "stop" /\ rc = "IO_WAIT"
  BY DEF drizzle_wait, StateLoopStops, StateLoopEnds, WaitFails
<1> QED BY <1>1, <1>2, <1>3 DEF ResultHeld, InCall

(* A call returns.  IO_WAIT leaves what drizzle_connect or a command does  *)
(* on the stack, and leaves the result there.                              *)
LEMMA FinishHeld ==
  ASSUME Sound, ResultHeld, pc = "leave" \/ pc = "app", NEW name, NEW r,
         Finish(name, rc, r), UNCHANGED ready,
         name \in Commands => op = name,
         rc = "IO_WAIT" /\ ~ inConnect => name = "noreply" \/ r.at = "live",
         rc = "IO_WAIT" => pc = "leave"
  PROVE  ResultHeld'
<1>1. pc' \in {"again", "app"} /\ op' = name /\ result' = r
  BY DEF Finish
<1>2. op' \in Commands => op' \in ApiCalls
  BY <1>1 DEF ResultHeld
<1>3. ASSUME pc' = "again", ready
      PROVE  op' = "noreply" \/ result'.at = "live"
  <2>1. rc = "IO_WAIT"
    BY <1>3 DEF Finish
  <2>2. stack # <<>>
    BY <2>1 DEF Sound, SessionInvariant, CodesMean
  <2>3. ~ inConnect
    BY <1>3, <2>2 DEF Sound, PacketInvariant, CallsMatch
  <2> QED BY <1>1, <2>1, <2>3
<1> QED BY <1>1, <1>2, <1>3 DEF ResultHeld, InCall

LEMMA ConnectReturnsHeld ==
  ASSUME Sound, ResultHeld, ConnectReturns
  PROVE  ResultHeld'
<1>1. pc = "leave" /\ inConnect /\ UNCHANGED ready
  BY DEF ConnectReturns, ApiOnly, conVars
<1>2. CASE pc' = "wait" /\ UNCHANGED <<cmdVars, callVars>>
  BY <1>1, <1>2 DEF ResultHeld, InCall, cmdVars, callVars
<1>3. CASE rc = "OK" /\ pc' = "loop" /\ EnterCommand(op) /\ UNCHANGED <<rc, op>>
  <2>1. stack = <<>>
    BY <1>1, <1>3 DEF Sound, StackInvariant, LoopOutcome
  <2>2. op = "noreply" \/ result'.at = "live"
    BY <1>3, <2>1 DEF EnterCommand, NewResult, EmptyResult
  <2> QED BY <1>3, <2>2 DEF ResultHeld, InCall
<1>4. CASE Finish(op, rc, result)
  BY <1>1, <1>4, FinishHeld
<1> QED BY <1>2, <1>3, <1>4 DEF ConnectReturns

LEMMA CommandReturnsHeld ==
  ASSUME SelectsAtOnce, Sound, ResultHeld, CommandReturns
  PROVE  ResultHeld'
<1>1. /\ pc = "leave" /\ ~ inConnect /\ op \in Commands /\ UNCHANGED ready
      /\ \E code, r : Finish(op, code, r)
  BY DEF CommandReturns, ApiOnly, conVars
<1>2. pc' \in {"again", "app"} /\ UNCHANGED op /\ (pc' = "again" => rc' = "IO_WAIT")
  BY <1>1 DEF Finish
<1>3. ASSUME pc' = "again"
      PROVE  op = "noreply" \/ result'.at = "live"
  <2>1. rc = "IO_WAIT"
    BY <1>2, <1>3 DEF CommandReturns, Finish
  <2>2. NonBlocking
    BY <1>1, <2>1 DEF ResultHeld
  <2>3. op # "init_db"
    BY <1>1, <2>2 DEF ResultHeld, SelectsAtOnce
  <2>4. result' = result
    BY <2>1, <2>3 DEF CommandReturns, Finish
  <2> QED BY <1>1, <2>4 DEF ResultHeld, InCall
<1> QED BY <1>2, <1>3 DEF ResultHeld, InCall

LEMMA ReadersReturnHeld ==
  ASSUME Sound, ResultHeld, ColumnsReturn \/ RowReturns
  PROVE  ResultHeld'
<1>1. pc = "leave" /\ op \in {"columns", "row", "fields"} /\ UNCHANGED ready
  BY DEF ColumnsReturn, RowReturns, ApiOnly, conVars
<1>2. op \notin Asks /\ "row" \notin Commands
  BY <1>1 DEF Asks, Commands
<1>3. ~ inConnect
  BY <1>1, <1>2 DEF Sound, PacketInvariant, CallsMatch
<1>4. result.at = "live"
  BY <1>1, <1>3 DEF ResultHeld, InCall
<1>5. result \in Results
  BY DEF Sound, StackInvariant, TypeOK, CommandTypeOK
<1>6. CASE \E name : Start(name) /\ name \notin Commands /\ result'.at = result.at
  BY <1>4, <1>6 DEF Start, ResultHeld, InCall
<1>7. CASE \E name, r : Finish(name, rc, r) /\ name \notin Commands /\ r.at = result.at
  BY <1>1, <1>4, <1>7, FinishHeld
<1>8. op \notin Commands /\ "fields" \notin Commands
  BY <1>1 DEF Commands
<1>9. CASE ColumnsReturn
  <2>1. CASE EnterColumn /\ Start(op)
    <3>1. result'.at = result.at
      BY <1>5, <2>1 DEF EnterColumn, EnterReader, Results
    <3> QED BY <1>6, <1>8, <2>1, <3>1
  <2>2. CASE Finish(op, rc, IF rc = "OK"
                            THEN [result EXCEPT !.column_current = 0, !.buffered = TRUE]
                            ELSE result)
    <3> DEFINE r == IF rc = "OK"
                    THEN [result EXCEPT !.column_current = 0, !.buffered = TRUE]
                    ELSE result
    <3>1. r.at = result.at
      BY <1>5 DEF Results
    <3>2. Finish(op, rc, r)
      BY <2>2
    <3> HIDE DEF r
    <3> QED BY <1>7, <1>8, <3>1, <3>2
  <2> QED BY <1>9, <2>1, <2>2 DEF ColumnsReturn
<1>10. CASE RowReturns
  <2>1. CASE Start("fields") /\ UNCHANGED cmdVars
    BY <1>6, <1>8, <2>1 DEF cmdVars
  <2>2. CASE Finish("row", rc, result)
    BY <1>2, <1>7, <2>2
  <2> QED BY <1>10, <2>1, <2>2 DEF RowReturns
<1> QED BY <1>9, <1>10

(* The application calls.                                                  *)
LEMMA CallCommandHeld ==
  ASSUME OrderlyUse, Sound, ResultHeld, NEW name \in Commands, CallCommand(name)
  PROVE  ResultHeld'
<1>1. /\ pc \in {"app", "again"} /\ name \in ApiCalls /\ pc' = "loop" /\ op' = name
      /\ (pc = "again" => op = name) /\ UNCHANGED rc
  BY DEF CallCommand, May, AppRuns, Start, OrderlyUse
<1>2. CASE ~ ready
  <2>1. inConnect'
    BY <1>2 DEF CallCommand, EnterConnect
  <2> QED BY <1>1, <2>1 DEF ResultHeld, InCall
<1>3. CASE ready
  <2>1. EnterCommand(name)
    BY <1>3 DEF CallCommand
  <2>2. name = "noreply" \/ result'.at = "live"
    <3>1. CASE stack = <<>>
      BY <2>1, <3>1 DEF EnterCommand, NewResult, EmptyResult
    <3>2. CASE stack # <<>>
      <4>1. pc = "again"
        BY <1>1, <1>3, <3>2, Idle
      <4> QED BY <1>1, <1>3, <2>1, <3>2, <4>1 DEF EnterCommand, ResultHeld
    <3> QED BY <3>1, <3>2
  <2> QED BY <1>1, <2>2 DEF ResultHeld, InCall
<1> QED BY <1>2, <1>3

LEMMA CallConnectHeld ==
  ASSUME ResultHeld, CallConnect
  PROVE  ResultHeld'
<1>1. "connect" \notin Commands
  BY DEF Commands
<1>2. CASE Finish("connect", "OK", result)
  BY <1>1, <1>2 DEF Finish, ResultHeld, InCall
<1>3. CASE EnterConnect /\ Start("connect")
  BY <1>1, <1>3 DEF EnterConnect, Start, ResultHeld, InCall
<1> QED BY <1>2, <1>3 DEF CallConnect

LEMMA CallReaderHeld ==
  ASSUME Sound, ResultHeld, CallColumns \/ CallRow
  PROVE  ResultHeld'
<1>1. result.at = "live" /\ result \in Results
  BY DEF CallColumns, CallRow, Sound, StackInvariant, TypeOK, CommandTypeOK
<1>2. "columns" \notin Commands /\ "row" \notin Commands
  BY DEF Commands
<1>3. CASE CallColumns
  <2>1. CASE EnterColumn /\ Start("columns")
    BY <1>1, <1>2, <2>1 DEF EnterColumn, EnterReader, Start, Results, ResultHeld, InCall
  <2>2. CASE \E r : Finish("columns", "OK", r)
    BY <1>2, <2>2 DEF Finish, ResultHeld, InCall
  <2> QED BY <1>3, <2>1, <2>2 DEF CallColumns
<1>4. CASE CallRow
  <2>1. CASE EnterRow /\ Start("row")
    BY <1>1, <1>2, <2>1 DEF EnterRow, EnterReader, Start, Results, ResultHeld, InCall
  <2>2. CASE \E r : Finish("row", "NOT_READY", r)
    BY <1>2, <2>2 DEF Finish, ResultHeld, InCall
  <2> QED BY <1>4, <2>1, <2>2 DEF CallRow
<1> QED BY <1>3, <1>4

(* Nothing of a call changes, or there is none in progress.                *)
LEMMA AroundHeld ==
  ASSUME ResultHeld, UNCHANGED <<pc, rc, op, inConnect, result>>, ready' => ready
  PROVE  ResultHeld'
BY DEF ResultHeld, InCall

LEMMA ResultNext ==
  ASSUME OrderlyUse, SelectsAtOnce, Sound, ResultHeld, [Next]_vars
  PROVE  ResultHeld'
<1>1. CASE Handler
  BY <1>1, AttemptHeld, TransferHeld, HandshakeHeld, ReplyHeld DEF Handler
<1>2. CASE drizzle_wait \/ StateLoopStops \/ StateLoopEnds
  BY <1>2, EndHeld
<1>3. CASE \/ ConnectReturns \/ CommandReturns \/ QuitReturns
           \/ ColumnsReturn \/ SkipReturns \/ RowReturns
  <2>1. CASE QuitReturns
    BY <2>1 DEF QuitReturns, callVars, ResultHeld, InCall
  <2>2. ~ SkipReturns
    BY DEF SkipReturns, Sound, PacketInvariant, CallsMatch, Asks, Commands
  <2> QED
    BY <1>3, <2>1, <2>2, ConnectReturnsHeld, CommandReturnsHeld, ReadersReturnHeld
<1>4. CASE Call
  <2>1. ~ CallSkip
    BY DEF CallSkip, May, OrderlyUse
  <2> QED BY <1>4, <2>1, CallConnectHeld, CallReaderHeld, CallCommandHeld DEF Call
<1>5. CASE CallResultFree \/ CallClose
  <2>1. pc' = "app" /\ op' \in {op, "close"}
    BY <1>5 DEF CallResultFree, CallClose, OrderlyUse, callVars
  <2>2. "close" \notin Commands
    BY DEF Commands
  <2> QED BY <2>1, <2>2 DEF ResultHeld, InCall
<1>6. CASE LoopNext
  <2>1. UNCHANGED <<pc, rc, op, inConnect, result>>
    BY <1>6 DEF LoopNext, AppWait, AppEventLoop, AppLoopStale, AroundCalls, callVars, cmdVars
  <2>2. ready' => ready
    BY <1>6 DEF LoopNext, AppWait, AppEventLoop, AppLoopStale, SetRevents, conVars,
       drizzle_close, Reset
  <2> QED BY <2>1, <2>2, AroundHeld
<1>7. CASE PeerNext
  BY <1>7, AroundHeld DEF PeerNext, KernelConnects, ServerGreets, ServerAuthenticates,
     ServerAnswers, ServerFails, Library, conVars, callVars, cmdVars
<1>8. CASE AppRests \/ UNCHANGED vars
  BY <1>8, AroundHeld DEF AppRests, vars, conVars, callVars, cmdVars
<1> QED
  BY <1>1, <1>2, <1>3, <1>4, <1>5, <1>6, <1>7, <1>8 DEF Next, LibraryNext, AppNext

(* With orderly use, and drizzle_select_db on blocking connections only:   *)
(* no handler fills in a result that has been freed, and no call frees it  *)
(* a second time.                                                          *)
THEOREM ResultsLiveInUse ==
  ASSUME OrderlyUse, SelectsAtOnce
  PROVE  Spec => []ResultLive
<1>1. Init => ResultHeld
  BY DEF Init, ResultHeld, InCall, Commands
<1>2. Sound /\ ResultHeld /\ [Next]_vars => ResultHeld'
  BY ResultNext
<1>3. Sound /\ ResultHeld => ResultLive
  <2> SUFFICES ASSUME Sound, ResultHeld
               PROVE  ResultLive
    OBVIOUS
  <2>1. ASSUME NEW h \in {"result_read", "column_read", "row_read", "field_read"},
               Running(h)
        PROVE  result.at = "live"
    <3>1. /\ pc = "loop" /\ stack = <<h>> /\ h \in Parsers /\ ~ Closing
      BY <2>1, Shapes
         DEF Running, Parsers, Closing, Sound, StackInvariant, WellFormedStack
    <3>2. stack # <<>> /\ stack \notin ConnectStates \cup HandshakeStates
      BY <2>1, <3>1, AloneClasses
    <3>3. ready
      <4>1. CASE h = "field_read"
        BY <3>1, <4>1 DEF Sound, PacketInvariant, CallsMatch, Top
      <4>2. CASE h # "field_read"
        <5>1. buf # <<>>
          BY <2>1, <3>1, <4>2 DEF Sound, StackInvariant, ParserHasPacket, Top, Parsers
        <5>2. sock = "connected"
          BY <5>1 DEF Sound, SessionInvariant, CleanApart, Clean
        <5> QED BY <3>1, <3>2, <5>2 DEF Sound, SessionInvariant, StackTellsReady
      <4> QED BY <4>1, <4>2
    <3>4. ~ inConnect
      BY <3>2, <3>3 DEF Sound, PacketInvariant, CallsMatch
    <3>5. op # "noreply"
      <4>1. h \in {"column_read", "row_read"} => stack \in ReaderStates(h)
        BY <3>1, AloneClasses
      <4>2. h = "result_read" => op # "noreply"
        BY <3>1, <3>3, AloneClasses DEF Sound, PacketInvariant, Requests
      <4>3. h \in {"column_read", "row_read"} => op \in {"columns", "row"}
        BY <3>1, <3>3, <4>1 DEF Sound, PacketInvariant, ReplyInOrder
      <4>4. h = "field_read" => op = "fields"
        BY <3>1 DEF Sound, PacketInvariant, CallsMatch, Top
      <4> QED BY <2>1, <4>2, <4>3, <4>4
    <3> QED BY <3>1, <3>4, <3>5 DEF ResultHeld, InCall
  <2>2. pc = "leave" /\ op = "init_db" /\ ~ inConnect => result.at # "freed"
    BY DEF ResultHeld, InCall
  <2> QED BY <2>1, <2>2 DEF ResultLive
<1>4. Spec => []SessionInvariant
  BY SessionIsInvariant DEF OrderlyUse
<1> QED
  BY <1>1, <1>2, <1>3, <1>4, StackIsInvariant, PacketIsInvariant, PTL DEF Spec, Sound

----------------------------------------------------------------------------
(* The pieces of commands.                                                 *)

(* The server takes a piece.                                               *)
LEMMA TailFollows ==
  ASSUME NEW s \in Seq(Units), s # <<>>, Follows(s)
  PROVE  Follows(Tail(s)) /\ \A c : Behindhand(s, c) => Behindhand(Tail(s), c)
<1> DEFINE t == Tail(s)
           N == Len(s)
<1>1. /\ Len(t) = N - 1 /\ N \in Nat /\ N >= 1
      /\ \A i \in 1..(N - 1) : t[i] = s[i + 1]
  BY Behind
<1>2. /\ \A i \in 1..N : s[i].part = "whole"
      /\ \A i \in 1..(N - 1) :
           \/ s[i + 1].k = s[i].k /\ s[i + 1].n = s[i].n + 1
           \/ s[i + 1].k > s[i].k /\ s[i + 1].n = 1
  BY DEF Follows
<1>3. t # <<>> => N > 1
  BY <1>1, Behind
<1> HIDE DEF t, N
<1>4. \A i \in 1..(N - 1) : t[i].part = "whole"
  <2> TAKE i \in 1..(N - 1)
  <2>1. i + 1 \in 1..N
    BY <1>1
  <2> QED BY <1>1, <1>2, <2>1
<1>5. \A i \in 1..((N - 1) - 1) :
        \/ t[i + 1].k = t[i].k /\ t[i + 1].n = t[i].n + 1
        \/ t[i + 1].k > t[i].k /\ t[i + 1].n = 1
  <2> TAKE i \in 1..((N - 1) - 1)
  <2>1. i \in 1..(N - 1) /\ i + 1 \in 1..(N - 1)
    BY <1>1
  <2>2. t[i] = s[i + 1] /\ t[i + 1] = s[(i + 1) + 1]
    BY <1>1, <2>1
  <2> QED BY <1>2, <2>1, <2>2
<1>6. N > 1 => t[N - 1] = s[N]
  <2>1. N > 1 => N - 1 \in 1..(N - 1) /\ (N - 1) + 1 = N
    BY <1>1
  <2> QED BY <1>1, <2>1
<1>7. Follows(t)
  BY <1>1, <1>4, <1>5 DEF Follows
<1>8. \A c : Behindhand(s, c) => Behindhand(t, c)
  BY <1>1, <1>3, <1>6 DEF Behindhand, N
<1> QED BY <1>7, <1>8 DEF t

(* What has been sent of it so far.                                        *)
LEMMA FrontFollows ==
  ASSUME NEW a \in Seq(Units), NEW b \in Seq(Units), Follows(a \o b)
  PROVE  Follows(a)
<1> DEFINE s == a \o b
           A == Len(a)
           B == Len(b)
<1>1. /\ Len(s) = A + B /\ A \in Nat /\ B \in Nat
      /\ \A i \in 1..(A + B) : s[i] = IF i <= A THEN a[i] ELSE b[i - A]
  BY ConcatProperties, LenProperties
<1>2. /\ \A i \in 1..(A + B) : s[i].part = "whole"
      /\ \A i \in 1..((A + B) - 1) :
           \/ s[i + 1].k = s[i].k /\ s[i + 1].n = s[i].n + 1
           \/ s[i + 1].k > s[i].k /\ s[i + 1].n = 1
  BY <1>1 DEF Follows
<1> HIDE DEF s, A, B
<1>3. \A i \in 1..A : i \in 1..(A + B) /\ s[i] = a[i]
  BY <1>1
<1>4. \A i \in 1..(A - 1) : i \in 1..((A + B) - 1) /\ i \in 1..A /\ i + 1 \in 1..A
  BY <1>1
<1> QED BY <1>2, <1>3, <1>4 DEF Follows, A

(* The next pieces of a command go behind what was written.                *)
LEMMA CopiedFollows ==
  ASSUME StackInvariant, NEW m \in 1..command.left, NEW s \in Seq(Units),
         Follows(s), Behindhand(s, command)
  PROVE  /\ Follows(s \o Copied(m))
         /\ Behindhand(s \o Copied(m), [command EXCEPT !.left = @ - m])
<1> DEFINE t == Copied(m)
           u == s \o t
           S == Len(s)
           k == command.k
           sent == Chunks(command.name) - command.left
           c == [command EXCEPT !.left = @ - m]
<1>1. /\ Len(t) = m /\ m \in Nat /\ m >= 1
      /\ command.left \in Nat /\ Chunks(command.name) \in Nat
      /\ command.left <= Chunks(command.name) /\ m <= command.left
      /\ command \in [k : Nat, name : Commands, left : Nat]
  BY CopiedPieces DEF StackInvariant, CommandLeft, TypeOK, CommandTypeOK
<1>2. sent \in Nat
  BY <1>1
<1>3. \A i \in 1..m : t[i].part = "whole" /\ t[i].k = k /\ t[i].n = sent + i
  <2> DEFINE piece(i) == Unit("whole", command.name, 0, k, sent + i)
  <2>1. m \in Nat
    BY <1>1
  <2>2. \A i \in 1..m : t[i] = piece(i)
    BY <2>1 DEF Copied
  <2>3. \A i : piece(i).part = "whole" /\ piece(i).k = k /\ piece(i).n = sent + i
    BY DEF Unit
  <2> HIDE DEF t, sent, k, piece
  <2> QED BY <2>2, <2>3
<1>4. t \in Seq(Units)
  <2>1. command.name \in ClientKinds /\ 0 \in 0..(PacketMod - 1)
    BY <1>1, ConfigAssumption DEF ClientKinds
  <2>2. \A i \in 1..m : Unit("whole", command.name, 0, k, sent + i) \in Units
    <3>1. \A i \in 1..m : sent + i \in Nat
      BY <1>1, <1>2
    <3> QED BY <1>1, <2>1, <3>1 DEF Unit, Units
  <2> QED BY <1>1, <2>2, IsASeq DEF Copied
<1>5. /\ Len(u) = S + m /\ S \in Nat /\ u # <<>>
      /\ \A i \in 1..(S + m) : u[i] = IF i <= S THEN s[i] ELSE t[i - S]
  <2>1. /\ Len(u) = S + Len(t) /\ u \in Seq(Units)
        /\ \A i \in 1..(S + Len(t)) : u[i] = IF i <= S THEN s[i] ELSE t[i - S]
    BY <1>4, ConcatProperties
  <2>2. S \in Nat
    BY LenProperties
  <2>3. Len(u) # 0
    BY <1>1, <2>1, <2>2
  <2> QED BY <1>1, <2>1, <2>2, <2>3, EmptySeq
<1>6. /\ \A i \in 1..S : s[i].part = "whole"
      /\ \A i \in 1..(S - 1) :
           \/ s[i + 1].k = s[i].k /\ s[i + 1].n = s[i].n + 1
           \/ s[i + 1].k > s[i].k /\ s[i + 1].n = 1
  BY DEF Follows
<1>7. S > 0 => (s[S].k < k /\ sent = 0) \/ (s[S].k = k /\ s[S].n = sent)
  <2>1. S > 0 => s # <<>>
    BY EmptySeq
  <2> QED BY <1>1, <2>1 DEF Behindhand
<1>8. c.k = k /\ c.name = command.name /\ Chunks(c.name) - c.left = sent + m
  BY <1>1
<1> HIDE DEF t, u, S, k, sent, c
<1>9. \A i \in 1..(S + m) : u[i].part = "whole"
  <2> TAKE i \in 1..(S + m)
  <2>1. CASE i <= S
    <3>1. i \in 1..S
      BY <1>1, <1>5, <2>1
    <3> QED BY <1>5, <1>6, <2>1, <3>1
  <2>2. CASE ~ (i <= S)
    <3>1. i - S \in 1..m
      BY <1>1, <1>5, <2>2
    <3> QED BY <1>3, <1>5, <2>2, <3>1
  <2> QED BY <2>1, <2>2
<1>10. ASSUME NEW i \in 1..((S + m) - 1)
       PROVE  \/ u[i + 1].k = u[i].k /\ u[i + 1].n = u[i].n + 1
              \/ u[i + 1].k > u[i].k /\ u[i + 1].n = 1
  <2>1. i \in 1..(S + m) /\ i + 1 \in 1..(S + m)
    BY <1>1, <1>5
  <2>2. CASE i + 1 <= S
    <3>1. i \in 1..(S - 1) /\ i <= S
      BY <1>5, <2>2
    <3> QED BY <1>5, <1>6, <2>1, <2>2, <3>1
  <2>3. CASE i = S
    <3>1. ~ (i + 1 <= S) /\ (i + 1) - S = 1 /\ 1 \in 1..m /\ i <= S /\ S > 0
      BY <1>1, <1>5, <2>3
    <3>2. u[i] = s[S] /\ u[i + 1] = t[1]
      BY <1>5, <2>1, <2>3, <3>1
    <3>3. t[1].k = k /\ t[1].n = sent + 1
      BY <1>3, <3>1
    <3>4. (u[i].k < k /\ u[i + 1].n = 1) \/ (u[i].k = k /\ u[i + 1].n = u[i].n + 1)
      BY <1>2, <1>7, <3>1, <3>2, <3>3
    <3>5. u[i].k \in Nat /\ k \in Nat
      <4>1. s[S] \in Units
        BY <1>5, <3>1, ElementOfSeq DEF S
      <4> QED BY <1>1, <3>2, <4>1 DEF Units, k
    <3> QED BY <3>2, <3>3, <3>4, <3>5
  <2>4. CASE i > S
    <3>1. /\ ~ (i <= S) /\ ~ (i + 1 <= S) /\ i - S \in 1..m /\ (i + 1) - S \in 1..m
          /\ sent + ((i + 1) - S) = (sent + (i - S)) + 1
      BY <1>1, <1>2, <1>5, <2>1, <2>4
    <3>2. u[i] = t[i - S] /\ u[i + 1] = t[(i + 1) - S]
      BY <1>5, <2>1, <3>1
    <3> QED BY <1>3, <3>1, <3>2
  <2> QED BY <1>5, <2>1, <2>2, <2>3, <2>4
<1>11. u[S + m].k = k /\ u[S + m].n = sent + m
  <2>1. S + m \in 1..(S + m) /\ ~ (S + m <= S) /\ (S + m) - S = m /\ m \in 1..m
    BY <1>1, <1>5
  <2> QED BY <1>3, <1>5, <2>1
<1>12. Follows(u)
  BY <1>5, <1>9, <1>10 DEF Follows
<1>13. Behindhand(u, c)
  BY <1>5, <1>8, <1>11 DEF Behindhand
<1> QED BY <1>12, <1>13 DEF t, u, c

(* A step that writes no piece of a command.                               *)
Writing == Top({"write"})

LEMMA PiecesMove ==
  ASSUME Sound, PiecesInOrder, UNCHANGED <<command, commands>>, c2s' \in {c2s, <<>>},
         ready' /\ server' = "idle" =>
           \/ c2s' = <<>> /\ ~ Writing'
           \/ /\ ready /\ server = "idle" /\ c2s' = c2s /\ (Writing' <=> Writing)
              /\ Writing => buf' = buf
  PROVE  PiecesInOrder'
<1>1. Len(<<>>) = 0 /\ <<>> \o <<>> = <<>>
  OBVIOUS
<1>2. Follows(<<>>) /\ \A c : Behindhand(<<>>, c)
  BY <1>1 DEF Follows, Behindhand
<1>3. Follows(c2s)' /\ (command.k = commands)'
  BY <1>2 DEF PiecesInOrder
<1>4. ASSUME ready', server' = "idle"
      PROVE  Follows(Written)' /\ Behindhand(Written, command)'
  <2>1. CASE c2s' = <<>> /\ ~ Writing'
    <3>1. Written' = <<>>
      BY <1>1, <2>1 DEF Written, Writing
    <3> QED BY <1>2, <3>1
  <2>2. CASE /\ ready /\ server = "idle" /\ c2s' = c2s /\ (Writing' <=> Writing)
             /\ Writing => buf' = buf
    <3>1. Written' = Written
      BY <2>2 DEF Written, Writing
    <3> QED BY <2>2, <3>1 DEF PiecesInOrder
  <2> QED BY <1>4, <2>1, <2>2
<1> QED BY <1>3, <1>4 DEF PiecesInOrder

(* What drizzle_close leaves of them, and a handler that waits.            *)
LEMMA ClosePieces ==
  ASSUME Sound, drizzle_close
  PROVE  ~ ready' /\ c2s' \in {c2s, <<>>}
<1>1. ~ ready'
  BY CloseCleans DEF Sound, SessionInvariant, Clean
<1> QED BY <1>1 DEF drizzle_close, Hangup, ioVars

LEMMA WaitPieces ==
  ASSUME Sound, PiecesInOrder, NEW ev, NEW rev,
         WaitFor(ev, rev, Yield) \/ WaitFor(ev, rev, Block), UNCHANGED <<command, commands>>
  PROVE  PiecesInOrder'
<1>1. CASE drizzle_close
  BY <1>1, ClosePieces, PiecesMove
<1>2. CASE UNCHANGED <<stack, c2s, server, ready, buf>>
  BY <1>2, PiecesMove DEF Writing, Top
<1> QED BY <1>1, <1>2 DEF WaitFor, conVars

LEMMA AttemptPieces ==
  ASSUME CallbackAccepts, Sound, PiecesInOrder,
         drizzle_state_addrinfo \/ drizzle_state_connect \/ drizzle_state_connecting
  PROVE  PiecesInOrder'
<1>1. UNCHANGED <<command, commands>>
  BY DEF drizzle_state_addrinfo, drizzle_state_connect, drizzle_state_connecting,
     Others, cmdVars, appVars
<1>2. ~ ready
  BY DEF drizzle_state_addrinfo, drizzle_state_connect, drizzle_state_connecting, Running,
     Sound, SessionInvariant, CleanApart, Clean, Top, Closing
<1>3. CASE drizzle_state_addrinfo
  BY <1>1, <1>2, <1>3, PiecesMove DEF drizzle_state_addrinfo, ioVars, conVars
<1>4. CASE drizzle_state_connect
  <2>1. ~ ready'
    BY <1>4, ConnectEffect DEF Sound, Clean
  <2>2. c2s' = <<>>
    BY <1>4 DEF drizzle_state_connect, ConnectUds, NoAddressLeft, ConnectFails,
       SetSockOptFails, ConnectAtOnce, ConnectRefused, ConnectInProgress, NewSocket
  <2> QED BY <1>1, <2>1, <2>2, PiecesMove
<1>5. CASE drizzle_state_connecting
  <2>1. CASE WaitFor({"OUT"}, {}, Yield)
    BY <1>1, <2>1, WaitPieces
  <2>2. CASE UNCHANGED <<ioVars, conVars>>
    BY <1>1, <1>2, <2>2, PiecesMove DEF ioVars, conVars
  <2> QED BY <1>5, <2>1, <2>2 DEF drizzle_state_connecting
<1> QED BY <1>3, <1>4, <1>5

(* Reading.                                                                *)
LEMMA ReadPieces ==
  ASSUME Sound, PiecesInOrder, drizzle_state_read
  PROVE  PiecesInOrder'
<1>1. UNCHANGED <<command, commands>>
  BY DEF drizzle_state_read, Others, cmdVars, appVars
<1>2. /\ stack \in StackStates /\ stack # <<>> /\ Head(stack) = "read" /\ ~ Writing
      /\ stack \in Seq(Handlers)
  BY DEF drizzle_state_read, Running, Sound, StackInvariant, WellFormedStack, TypeOK, Writing, Top
<1>3. /\ Tail(stack) \in Seq(Handlers)
      /\ Tail(stack) # <<>> => Head(Tail(stack)) # "write"
  <2>1. PICK h : Tail(stack) \in {<<"packet_read", h>>, <<"field_read">>}
    BY <1>2, ReadShape
  <2>2. Head(<<"packet_read", h>>) # "write" /\ Head(<<"field_read">>) # "write"
    OBVIOUS
  <2>3. Tail(stack) \in Seq(Handlers)
    BY <1>2
  <2> QED BY <2>1, <2>2, <2>3
<1>4. CASE \/ ReadWaitsForPoll \/ ReadWouldBlock
  BY <1>1, <1>4, WaitPieces DEF ReadWaitsForPoll, ReadWouldBlock
<1>5. CASE ReadSome
  <2>1. UNCHANGED <<c2s, server, ready>> /\ stack' = Tail(stack)
    BY <1>5 DEF ReadSome, Pop, conVars
  <2> QED BY <1>1, <1>2, <1>3, <2>1, PiecesMove DEF Writing, Top
<1>6. CASE ReadRefused
  <2>1. UNCHANGED <<c2s, server, ready>> /\ stack' = <<"connect">> \o Tail(stack)
    BY <1>6 DEF ReadRefused, Replace, ioVars, conVars
  <2>2. "connect" \in Handlers
    BY DEF Handlers
  <2>3. Head(<<"connect">> \o Tail(stack)) = "connect"
    BY <1>3, <2>2, Extend
  <2>4. ~ Writing'
    BY <2>1, <2>3 DEF Writing, Top
  <2> QED BY <1>1, <1>2, <2>1, <2>4, PiecesMove
<1>7. CASE ReadFails
  BY <1>1, <1>7, PiecesMove DEF ReadFails, ioVars, conVars, Writing, Top
<1> QED BY <1>4, <1>5, <1>6, <1>7 DEF drizzle_state_read

LEMMA PacketReadPieces ==
  ASSUME Sound, PiecesInOrder, drizzle_state_packet_read
  PROVE  PiecesInOrder'
<1>1. UNCHANGED <<command, commands, c2s, server, ready>>
  BY DEF drizzle_state_packet_read, Others, cmdVars, appVars, ioVars
<1>2. /\ stack \in StackStates /\ stack # <<>> /\ Head(stack) = "packet_read"
      /\ ~ Writing /\ stack \in Seq(Handlers)
  BY DEF drizzle_state_packet_read, Running, Sound, StackInvariant, WellFormedStack, TypeOK,
     Writing, Top
<1>3. ~ Writing'
  <2>1. PICK h \in Parsers : stack = <<"packet_read", h>>
    BY <1>2, Shapes
  <2>2. Tail(stack) = <<h>> /\ h # "write"
    BY <2>1 DEF Parsers
  <2>3. "read" \in Handlers
    BY DEF Handlers
  <2>4. Head(<<"read">> \o stack) = "read"
    BY <1>2, <2>3, Extend
  <2>5. stack' \in {<<"read">> \o stack, stack, <<h>>}
    BY <2>2 DEF drizzle_state_packet_read, Push, Pop
  <2> QED BY <1>2, <2>2, <2>4, <2>5 DEF Writing, Top
<1> QED BY <1>1, <1>2, <1>3, PiecesMove

(* The handshake: its handlers run before a command is written.            *)
LEMMA HandshakePieces ==
  ASSUME Sound, PiecesInOrder,
         \/ drizzle_state_handshake_server_read \/ drizzle_state_handshake_client_write
         \/ drizzle_state_handshake_result_read
  PROVE  PiecesInOrder'
<1>1. /\ pc = "loop" /\ stack \in StackStates /\ stack # <<>>
      /\ Head(stack) \in {"handshake_server_read", "handshake_client_write",
                          "handshake_result_read"}
  BY DEF drizzle_state_handshake_server_read, drizzle_state_handshake_client_write,
     drizzle_state_handshake_result_read, Running, Sound, StackInvariant, WellFormedStack
<1>2. UNCHANGED <<command, commands, c2s, server>>
  BY DEF drizzle_state_handshake_server_read, drizzle_state_handshake_client_write,
     drizzle_state_handshake_result_read, Quiet, Parse, cmdVars, appVars, ioVars
<1>3. CASE drizzle_state_handshake_result_read
  <2>1. stack = <<"handshake_result_read">>
    BY <1>1, <1>3, Shapes DEF drizzle_state_handshake_result_read, Running, Parsers
  <2>2. packet_size = 1 /\ buf # <<>> /\ buf \in Seq(Units)
    BY <1>1, <2>1 DEF Sound, ParserHasPacket, Top, StackInvariant, TypeOK, ConnectionTypeOK,
       Parsers
  <2>3. ~ Short
    BY <2>2, EmptySeq DEF Short
  <2>4. stack' = <<>>
    <3>1. Tail(stack) = <<>>
      BY <2>1
    <3> QED BY <1>3, <2>3, <3>1 DEF drizzle_state_handshake_result_read, Pop
  <2>5. c2s = <<>>
    <3>1. stack \in HandshakeStates
      BY <2>1 DEF HandshakeStates, ReaderStates
    <3>2. ~ ready /\ sock = "connected" /\ ~ Closing
      BY <1>1, <2>2, <3>1
         DEF Sound, SessionInvariant, StackTellsReady, CleanApart, Clean, Closing
    <3> QED BY <2>1, <3>2 DEF Sound, PacketInvariant, HandshakeInOrder
  <2> QED BY <1>2, <2>4, <2>5, PiecesMove DEF Writing, Top
<1>4. CASE drizzle_state_handshake_server_read \/ drizzle_state_handshake_client_write
  <2>1. ~ ready
    <3>1. stack \in ConnectStates \cup HandshakeStates
      <4>1. CASE drizzle_state_handshake_client_write
        BY <1>1, <4>1, Shapes
           DEF drizzle_state_handshake_client_write, Running, HandshakeStates
      <4>2. CASE drizzle_state_handshake_server_read
        <5>1. stack = <<"handshake_server_read">>
          BY <1>1, <4>2, Shapes DEF drizzle_state_handshake_server_read, Running, Parsers
        <5> QED BY <5>1 DEF ConnectStates
      <4> QED BY <1>4, <4>1, <4>2
    <3> QED BY <3>1 DEF Sound, SessionInvariant, StackTellsReady
  <2>2. UNCHANGED ready
    BY <1>4 DEF drizzle_state_handshake_server_read, drizzle_state_handshake_client_write,
       Parse, GreetingIsError, GreetingRejected, GreetingAccepted, conVars
  <2> QED BY <1>2, <2>1, <2>2, PiecesMove
<1> QED BY <1>3, <1>4

(* A parser of a reply.                                                    *)
LEMMA ReplyPieces ==
  ASSUME Sound, PiecesInOrder,
         \/ drizzle_state_result_read \/ drizzle_state_column_read
         \/ drizzle_state_row_read \/ drizzle_state_field_read
  PROVE  PiecesInOrder'
<1>1. UNCHANGED <<command, commands, c2s, server, ready>>
  BY DEF drizzle_state_result_read, drizzle_state_column_read, drizzle_state_row_read,
     drizzle_state_field_read, Quiet, Parse, cmdVars, appVars, ioVars, conVars
<1>2. /\ pc = "loop" /\ stack \in StackStates /\ stack # <<>> /\ ~ Writing
      /\ Head(stack) \in {"result_read", "column_read", "row_read", "field_read"}
  BY DEF drizzle_state_result_read, drizzle_state_column_read, drizzle_state_row_read,
     drizzle_state_field_read, Running, Sound, StackInvariant, WellFormedStack, Writing, Top
<1>3. PICK h \in {"result_read", "column_read", "row_read", "field_read"} : stack = <<h>>
  BY <1>2, Shapes DEF Parsers
<1>4. Tail(stack) = <<>> /\ h \in Handlers /\ "read" \in Handlers /\ "result_read" \in Handlers
  BY <1>3 DEF Handlers
<1>5. <<"read">> \o stack = <<"read", h>> /\ <<"result_read">> \o <<>> = <<"result_read">>
  <2>1. <<"result_read">> \in Seq(Handlers)
    BY <1>4
  <2> QED BY <1>3, <1>4, <2>1, Extensions, OnEmpty
<1>6. stack' \in {<<"read", h>>, <<"result_read">>, <<>>}
  BY <1>4, <1>5 DEF drizzle_state_result_read, drizzle_state_column_read,
     drizzle_state_row_read, drizzle_state_field_read, Parse, Push, Pop, Replace
<1>7. ~ Writing'
  <2>1. Head(<<"read", h>>) # "write" /\ Head(<<"result_read">>) # "write"
    OBVIOUS
  <2> QED BY <1>6, <2>1 DEF Writing, Top
<1> QED BY <1>1, <1>2, <1>7, PiecesMove

(* Sending.                                                                *)
LEMMA WritePieces ==
  ASSUME Sound, PiecesInOrder, drizzle_state_write
  PROVE  PiecesInOrder'
<1>1. UNCHANGED <<command, commands>>
  BY DEF drizzle_state_write, Others, cmdVars, appVars
<1>2. /\ pc = "loop" /\ stack \in StackStates /\ stack # <<>> /\ Head(stack) = "write"
      /\ Writing /\ ~ Closing /\ buf \in Seq(Units) /\ c2s \in Seq(Units)
  BY DEF drizzle_state_write, Running, Sound, StackInvariant, WellFormedStack, Writing, Top,
     Closing, TypeOK, ConnectionTypeOK, PeerTypeOK
<1>3. Tail(stack) # <<>> => Head(Tail(stack)) # "write"
  BY <1>2, WriteShape
<1>4. CASE WriteWouldBlock
  BY <1>1, <1>4, WaitPieces DEF WriteWouldBlock
<1>5. CASE WriteFails
  BY <1>1, <1>5, PiecesMove DEF WriteFails, ioVars, conVars, Writing, Top
<1>6. CASE buf = <<>> /\ Pop /\ UNCHANGED <<ioVars, conVars, buf>>
  <2>1. ~ Writing' /\ UNCHANGED <<c2s, server, ready>>
    BY <1>3, <1>6 DEF Pop, ioVars, conVars, Writing, Top
  <2>2. Written' = Written
    BY <1>2, <1>6, <2>1 DEF Written, Writing
  <2> QED BY <1>1, <2>1, <2>2 DEF PiecesInOrder
<1>7. CASE WriteSome
  <2>1. /\ UNCHANGED <<server, ready>> /\ sock = "connected"
        /\ server # "idle" => UNCHANGED c2s \/ ~ ready
    BY <1>7 DEF WriteSome, conVars, HungUp, Sound, SessionInvariant, RepliesFollow
  <2>2. PICK n \in 1..Len(buf) :
          /\ Sent(n)
          /\ \/ ~ HungUp /\ c2s' = c2s \o SubSeq(buf, 1, n)
             \/ HungUp /\ UNCHANGED c2s
    BY <1>7 DEF WriteSome
  <2> DEFINE a == SubSeq(buf, 1, n)
             b == SubSeq(buf, n + 1, Len(buf))
  <2>3. /\ a \in Seq(Units) /\ b \in Seq(Units) /\ Len(a) = n /\ Len(b) = Len(buf) - n
        /\ \A i \in 1..n : a[i] = buf[i]
    BY <1>2, CutKinds
  <2>4. (c2s \o a) \o b = c2s \o buf
    BY <1>2, Received
  <2>5. buf' = b
    BY <2>2 DEF Sent
  <2>6. \/ Writing' /\ n # Len(buf)
        \/ ~ Writing' /\ n = Len(buf) /\ b = <<>>
    <3>1. n = Len(buf) => b = <<>>
      <4>1. n = Len(buf) => Len(b) = 0
        BY <2>3
      <4> QED BY <2>3, <4>1, EmptySeq
    <3> QED BY <1>2, <1>3, <2>2, <3>1 DEF Sent, Pop, Writing, Top
  <2>7. CASE UNCHANGED c2s /\ server # "idle"
    <3>1. PiecesInOrder'
      BY <1>1, <2>1, <2>7 DEF PiecesInOrder
    <3> QED BY <3>1
  <2>8. CASE c2s' = c2s \o a /\ ready /\ server = "idle"
    <3>1. Written' = Written
      <4>1. c2s' \in Seq(Units) /\ c2s' \o <<>> = c2s'
        BY <1>2, <2>3, <2>8, Together, ConcatEmptySeq
      <4>2. Written = c2s \o buf
        BY <1>2 DEF Written, Writing
      <4>3. Written' = c2s' \o b
        BY <2>5, <2>6, <4>1 DEF Written, Writing
      <4> HIDE DEF a, b
      <4> QED BY <2>4, <2>8, <4>2, <4>3
    <3>2. Follows(c2s')
      <4>1. Follows(c2s' \o b)
        <5>1. Written = c2s \o buf /\ Follows(Written)
          BY <1>2, <2>8 DEF Written, Writing, PiecesInOrder
        <5> HIDE DEF a, b
        <5> QED BY <2>4, <2>8, <5>1
      <4>2. c2s' \in Seq(Units) /\ b \in Seq(Units)
        BY <1>2, <2>3, <2>8, Together
      <4> HIDE DEF a, b
      <4> QED BY <4>1, <4>2, FrontFollows
    <3> QED BY <1>1, <2>1, <2>8, <3>1, <3>2 DEF PiecesInOrder
  <2>9. CASE c2s' = c2s \o a /\ ~ ready
    <3>1. c2s = <<>> /\ Login(buf)
      BY <1>2, <2>1, <2>9 DEF Sound, PacketInvariant, HandshakeInOrder, Writing
    <3>2. c2s' = a
      <4> HIDE DEF a
      <4> QED BY <2>3, <2>9, <3>1, Together, ConcatEmptySeq
    <3>3. n = 1
      BY <3>1 DEF Login
    <3>4. Len(a) <= 1 /\ \A i \in 1..Len(a) : a[i].part = "whole"
      BY <2>3, <3>1, <3>3 DEF Login
    <3>5. Follows(a)
      <4> DEFINE N == Len(a)
      <4>1. N \in Nat
        BY <2>3, LenProperties
      <4>2. 1..(N - 1) = {}
        BY <3>4, <4>1
      <4> QED BY <3>4, <4>2 DEF Follows
    <3> QED BY <1>1, <2>1, <2>9, <3>2, <3>5 DEF PiecesInOrder
  <2>10. HungUp => server # "idle"
    BY DEF HungUp
  <2> QED BY <2>1, <2>2, <2>7, <2>8, <2>9, <2>10
<1> QED BY <1>4, <1>5, <1>6, <1>7 DEF drizzle_state_write

(* A command is copied.                                                    *)
LEMMA CommandWritePieces ==
  ASSUME Sound, PiecesInOrder, drizzle_state_command_write
  PROVE  PiecesInOrder'
<1>1. /\ pc = "loop" /\ stack = <<"command_write">> /\ Quiet /\ UNCHANGED ready
      /\ stack' \in {<<"write">>, <<"write", "command_write">>,
                     <<"write", "packet_read", "result_read">>}
  BY CommandWriteEffect DEF Sound
<1>2. UNCHANGED <<c2s, server, commands>>
  BY <1>1 DEF Quiet, ioVars, appVars
<1>3. ready /\ Silent /\ ~ Writing /\ Writing'
  <2>1. Head(stack) = "command_write" /\ stack # <<>>
    BY <1>1
  <2>2. stack' # <<>> /\ Head(stack') = "write"
    BY <1>1
  <2>3. ready
    BY <1>1 DEF CommandStates, Sound, SessionInvariant, StackTellsReady
  <2>4. Silent
    BY <1>1, <2>1, <2>3 DEF Sound, PacketInvariant, Requests, Top, Closing
  <2> QED BY <2>1, <2>2, <2>3, <2>4 DEF Writing, Top
<1>4. PICK m \in 1..command.left :
        /\ IF command.left = Chunks(command.name) THEN buf' = buf \o Copied(m)
                                                  ELSE buf' = Copied(m)
        /\ command' = [command EXCEPT !.left = @ - m]
  BY <1>3 DEF drizzle_state_command_write, FlushFirst, CopyCommand, Silent
<1>5. buf' = Copied(m)
  <2>1. Copied(m) \in Seq(Units)
    <3>1. /\ command \in [k : Nat, name : Commands, left : Nat]
          /\ Len(Copied(m)) = m /\ m \in Nat /\ command.left <= Chunks(command.name)
          /\ command.left \in Nat /\ Chunks(command.name) \in Nat
      BY CopiedPieces DEF Sound, StackInvariant, CommandLeft, TypeOK, CommandTypeOK
    <3>2. command.name \in ClientKinds /\ 0 \in 0..(PacketMod - 1)
      BY <3>1, ConfigAssumption DEF ClientKinds
    <3>3. \A i \in 1..m : Unit("whole", command.name, 0, command.k,
                               Chunks(command.name) - command.left + i) \in Units
      <4>1. \A i \in 1..m : Chunks(command.name) - command.left + i \in Nat
        BY <3>1
      <4> QED BY <3>1, <3>2, <4>1 DEF Unit, Units
    <3> QED BY <3>1, <3>3, IsASeq DEF Copied
  <2>2. <<>> \o Copied(m) = Copied(m)
    BY <2>1, Together
  <2> QED BY <1>3, <1>4, <2>2 DEF Silent
<1>6. command'.k = command.k
  BY <1>4 DEF Sound, StackInvariant, TypeOK, CommandTypeOK
<1>7. ASSUME server = "idle"
      PROVE  Follows(Written)' /\ Behindhand(Written, command)'
  <2>1. c2s \in Seq(Units) /\ Written = c2s
    <3>1. c2s \in Seq(Units)
      BY DEF Sound, StackInvariant, TypeOK, PeerTypeOK
    <3> QED BY <1>3, <3>1, ConcatEmptySeq DEF Written, Writing
  <2>2. Follows(c2s) /\ Behindhand(c2s, command)
    BY <1>3, <1>7, <2>1 DEF PiecesInOrder
  <2>3. /\ Follows(c2s \o Copied(m))
        /\ Behindhand(c2s \o Copied(m), [command EXCEPT !.left = @ - m])
    BY <2>1, <2>2, CopiedFollows DEF Sound
  <2>4. Written' = c2s \o Copied(m)
    BY <1>2, <1>3, <1>5 DEF Written, Writing
  <2> QED BY <1>4, <2>3, <2>4
<1> QED BY <1>2, <1>6, <1>7 DEF PiecesInOrder

(* A command begins, behind the ones before it, or is taken up again.      *)
LEMMA EnterPieces ==
  ASSUME Sound, PiecesInOrder, NEW name \in Commands, EnterCommand(name),
         UNCHANGED <<c2s, server, ready, buf>>
  PROVE  PiecesInOrder'
<1>1. /\ c2s \in Seq(Units) /\ c2s' = c2s /\ Follows(c2s) /\ command.k = commands
      /\ commands \in Nat
  BY DEF Sound, StackInvariant, TypeOK, PeerTypeOK, CommandTypeOK, PiecesInOrder
<1>2. CASE stack # <<>>
  <2>1. UNCHANGED <<stack, command, commands>>
    BY <1>2 DEF EnterCommand
  <2>2. Writing' <=> Writing
    BY <2>1 DEF Writing, Top
  <2> QED BY <2>1, <2>2, PiecesMove
<1>3. CASE stack = <<>>
  <2>1. /\ commands' = commands + 1 /\ Push(<<"command_write">>)
        /\ command' = [k |-> commands + 1, name |-> name, left |-> Chunks(name)]
    BY <1>3 DEF EnterCommand
  <2>2. stack' = <<"command_write">>
    <3>1. "command_write" \in Handlers
      BY DEF Handlers
    <3>2. <<"command_write">> \in Seq(Handlers)
      BY <3>1
    <3> QED BY <1>3, <2>1, <3>2, OnEmpty DEF Push
  <2>3. ~ Writing /\ ~ Writing'
    BY <1>3, <2>2 DEF Writing, Top
  <2>4. Written = c2s /\ Written' = c2s
    BY <1>1, <2>3, ConcatEmptySeq DEF Written, Writing
  <2>5. ASSUME ready, server = "idle"
        PROVE  Behindhand(c2s, command')
    <3> SUFFICES ASSUME c2s # <<>>
                 PROVE  c2s[Len(c2s)].k < commands + 1
      BY <2>1 DEF Behindhand
    <3>1. Behindhand(c2s, command)
      BY <2>4, <2>5 DEF PiecesInOrder
    <3>2. c2s[Len(c2s)].k < commands \/ c2s[Len(c2s)].k = commands
      BY <1>1, <3>1 DEF Behindhand
    <3>3. c2s[Len(c2s)].k \in Nat
      <4>1. Len(c2s) \in 1..Len(c2s)
        BY <1>1, Behind
      <4>2. c2s[Len(c2s)] \in Units
        BY <1>1, <4>1, ElementOfSeq
      <4> QED BY <4>2 DEF Units
    <3> QED BY <1>1, <3>2, <3>3
  <2>6. command'.k = commands'
    BY <2>1
  <2> QED BY <1>1, <2>4, <2>5, <2>6 DEF PiecesInOrder
<1> QED BY <1>2, <1>3

(* The end of drizzle_state_loop, and drizzle_wait.                        *)
LEMMA EndPieces ==
  ASSUME Sound, PiecesInOrder, drizzle_wait \/ StateLoopStops \/ StateLoopEnds
  PROVE  PiecesInOrder'
<1>1. UNCHANGED <<command, commands>>
  BY DEF drizzle_wait, StateLoopStops, StateLoopEnds, Others, cmdVars, appVars
<1>2. CASE drizzle_close
  BY <1>1, <1>2, ClosePieces, PiecesMove
<1>3. CASE UNCHANGED <<stack, c2s, server, ready, buf>>
  BY <1>1, <1>3, PiecesMove DEF Writing, Top
<1> QED
  BY <1>2, <1>3 DEF drizzle_wait, WaitFails, SetRevents, StateLoopStops, StateLoopEnds,
     ioVars, conVars, dataVars

(* Around the handlers, what is written and not sent stays where it is.    *)
LEMMA ApiPieces ==
  ASSUME Sound, PiecesInOrder, ApiOnly, UNCHANGED <<command, commands>>,
         Writing' <=> Writing
  PROVE  PiecesInOrder'
BY PiecesMove DEF ApiOnly, ioVars, conVars, dataVars

(* A call returns.                                                         *)
LEMMA ReturnPieces ==
  ASSUME Sound, PiecesInOrder,
         \/ ConnectReturns \/ CommandReturns \/ QuitReturns
         \/ ColumnsReturn \/ SkipReturns \/ RowReturns
  PROVE  PiecesInOrder'
<1>1. ASSUME ApiOnly, NEW name, NEW code, NEW r, Finish(name, code, r)
      PROVE  PiecesInOrder'
  BY <1>1, ApiPieces DEF Finish, Writing, Top
<1>2. ASSUME ApiOnly, UNCHANGED <<command, commands>>, stack = <<>>,
             NEW hs \in {<<"packet_read", "column_read">>, <<"field_read">>}, Push(hs)
      PROVE  PiecesInOrder'
  <2>1. hs \o <<>> = hs
    <3>1. "packet_read" \in Handlers /\ "column_read" \in Handlers /\ "field_read" \in Handlers
      BY DEF Handlers
    <3>2. <<"packet_read", "column_read">> \in Seq(Handlers) /\ <<"field_read">> \in Seq(Handlers)
      BY <3>1
    <3> QED BY <3>2, OnEmpty
  <2>2. ~ Writing /\ ~ Writing'
    BY <1>2, <2>1 DEF Push, Writing, Top
  <2> QED BY <1>2, <2>2, ApiPieces
<1>3. CASE ConnectReturns
  <2>1. ApiOnly
    BY <1>3 DEF ConnectReturns
  <2>2. CASE rc = "IO_WAIT" /\ UNCHANGED <<stack, cmdVars, appVars>>
    BY <2>1, <2>2, ApiPieces DEF cmdVars, appVars, Writing, Top
  <2>3. CASE op \in Commands /\ EnterCommand(op)
    BY <2>1, <2>3, EnterPieces DEF ApiOnly, ioVars, conVars, dataVars
  <2>4. CASE Finish(op, rc, result)
    BY <1>1, <2>1, <2>4
  <2> QED BY <1>3, <2>2, <2>3, <2>4 DEF ConnectReturns
<1>4. CASE CommandReturns
  <2>1. ApiOnly /\ \E code, r : Finish(op, code, r)
    BY <1>4 DEF CommandReturns
  <2> QED BY <1>1, <2>1
<1>5. CASE QuitReturns
  <2>1. UNCHANGED <<command, commands>> /\ drizzle_close
    BY <1>5 DEF QuitReturns, appVars
  <2> QED BY <2>1, ClosePieces, PiecesMove
<1>6. CASE ColumnsReturn
  <2>1. ApiOnly
    BY <1>6 DEF ColumnsReturn
  <2>2. CASE EnterColumn /\ rc = "OK"
    <3>1. stack = <<>>
      BY <1>6, <2>2 DEF ColumnsReturn, Sound, StackInvariant, LoopOutcome
    <3> QED BY <1>2, <2>1, <2>2, <3>1 DEF EnterColumn, EnterReader
  <2>3. CASE \E r : Finish(op, rc, r)
    BY <1>1, <2>1, <2>3
  <2> QED BY <1>6, <2>2, <2>3 DEF ColumnsReturn
<1>7. ~ SkipReturns
  BY DEF SkipReturns, Sound, PacketInvariant, CallsMatch, Asks, Commands
<1>8. CASE RowReturns
  <2>1. ApiOnly
    BY <1>8 DEF RowReturns
  <2>2. CASE rc = "OK" /\ Push(<<"field_read">>) /\ UNCHANGED <<cmdVars, commands>>
    <3>1. stack = <<>>
      BY <1>8, <2>2 DEF RowReturns, Sound, StackInvariant, LoopOutcome
    <3> QED BY <1>2, <2>1, <2>2, <3>1 DEF cmdVars
  <2>3. CASE Finish("row", rc, result)
    BY <1>1, <2>1, <2>3
  <2> QED BY <1>8, <2>2, <2>3 DEF RowReturns
<1> QED BY <1>3, <1>4, <1>5, <1>6, <1>7, <1>8

(* The application calls.                                                  *)
LEMMA CallPieces ==
  ASSUME OrderlyUse, Sound, PiecesInOrder, Call
  PROVE  PiecesInOrder'
<1>1. ASSUME ApiOnly, NEW name, NEW code, NEW r, Finish(name, code, r)
      PROVE  PiecesInOrder'
  BY <1>1, ApiPieces DEF Finish, Writing, Top
<1>2. ASSUME ApiOnly, EnterConnect
      PROVE  PiecesInOrder'
  <2>1. UNCHANGED <<command, commands>>
    BY <1>2 DEF EnterConnect, cmdVars
  <2>2. Writing' <=> Writing
    <3>1. CASE stack # <<>>
      BY <1>2, <3>1 DEF EnterConnect, Writing, Top
    <3>2. CASE stack = <<>>
      <4> DEFINE hs == <<"addrinfo", "connect", "packet_read", "handshake_server_read">>
      <4>1. /\ "addrinfo" \in Handlers /\ "connect" \in Handlers
            /\ "packet_read" \in Handlers /\ "handshake_server_read" \in Handlers
        BY DEF Handlers
      <4>2. hs \in Seq(Handlers) /\ hs # <<>> /\ Head(hs) = "addrinfo"
        BY <4>1
      <4>3. stack' = hs
        BY <1>2, <3>2, <4>2, OnEmpty DEF EnterConnect, Push
      <4> HIDE DEF hs
      <4> QED BY <3>2, <4>2, <4>3 DEF Writing, Top
    <3> QED BY <3>1, <3>2
  <2> QED BY <1>2, <2>1, <2>2, ApiPieces
<1>3. ASSUME ApiOnly, NEW h \in {"column_read", "row_read"}, NEW r, EnterReader(h, r)
      PROVE  PiecesInOrder'
  <2>1. UNCHANGED <<command, commands>>
    BY <1>3 DEF EnterReader
  <2>2. Writing' <=> Writing
    <3>1. CASE stack # <<>>
      BY <1>3, <3>1 DEF EnterReader, Writing, Top
    <3>2. CASE stack = <<>>
      <4>1. "packet_read" \in Handlers /\ h \in Handlers
        BY DEF Handlers
      <4>2. <<"packet_read", h>> \in Seq(Handlers)
        BY <4>1
      <4>3. stack' = <<"packet_read", h>>
        BY <1>3, <3>2, <4>2, OnEmpty DEF EnterReader, Push
      <4> QED BY <3>2, <4>3 DEF Writing, Top
    <3> QED BY <3>1, <3>2
  <2> QED BY <1>3, <2>1, <2>2, ApiPieces
<1>4. CASE CallConnect
  BY <1>1, <1>2, <1>4 DEF CallConnect
<1>5. CASE CallColumns
  <2>1. ApiOnly
    BY <1>5 DEF CallColumns
  <2>2. CASE \E r : Finish("columns", "OK", r)
    BY <1>1, <2>1, <2>2
  <2>3. CASE EnterColumn
    BY <1>3, <2>1, <2>3 DEF EnterColumn
  <2> QED BY <1>5, <2>2, <2>3 DEF CallColumns
<1>6. CASE CallRow
  BY <1>1, <1>3, <1>6 DEF CallRow, EnterRow
<1>7. ~ CallSkip
  BY DEF CallSkip, May, OrderlyUse
<1>8. ASSUME NEW name \in Commands, CallCommand(name)
      PROVE  PiecesInOrder'
  <2>1. ApiOnly
    BY <1>8 DEF CallCommand
  <2>2. CASE EnterCommand(name)
    BY <2>1, <2>2, EnterPieces DEF ApiOnly, ioVars, conVars, dataVars
  <2> QED BY <1>2, <1>8, <2>1, <2>2 DEF CallCommand
<1> QED BY <1>4, <1>5, <1>6, <1>7, <1>8 DEF Call

(* The application frees a result, closes the connection or polls.         *)
LEMMA AroundPieces ==
  ASSUME Sound, PiecesInOrder, CallResultFree \/ CallClose \/ LoopNext
  PROVE  PiecesInOrder'
<1>1. UNCHANGED <<command, commands>>
  BY DEF CallResultFree, CallClose, LoopNext, AppWait, AppEventLoop, AppLoopStale,
     AroundCalls, cmdVars, appVars
<1>2. CASE drizzle_close
  BY <1>1, <1>2, ClosePieces, PiecesMove
<1>3. CASE UNCHANGED <<stack, c2s, server, ready, buf>>
  BY <1>1, <1>3, PiecesMove DEF Writing, Top
<1> QED
  BY <1>2, <1>3 DEF CallResultFree, CallClose, LoopNext, AppWait, AppEventLoop, AppLoopStale,
     SetRevents, ApiOnly, ioVars, conVars, dataVars

(* The server takes the pieces one by one.                                 *)
LEMMA PeerPieces ==
  ASSUME Sound, PiecesInOrder, PeerNext
  PROVE  PiecesInOrder'
<1>1. /\ UNCHANGED <<stack, buf, ready, command, commands>>
      /\ c2s \in Seq(Units) /\ buf \in Seq(Units)
  BY DEF PeerNext, KernelConnects, ServerGreets, ServerAuthenticates, ServerAnswers,
     ServerFails, Library, conVars, dataVars, cmdVars, appVars, Sound, StackInvariant, TypeOK,
     PeerTypeOK, ConnectionTypeOK
<1>2. CASE KernelConnects
  <2>1. ~ ready /\ UNCHANGED c2s
    BY <1>2 DEF KernelConnects, Sound, SessionInvariant, CleanApart, Clean
  <2> QED BY <1>1, <2>1, PiecesMove
<1>3. CASE ServerGreets \/ ServerFails
  <2>1. server' # "idle" /\ UNCHANGED c2s
    BY <1>3 DEF ServerGreets, ServerFails
  <2> QED BY <1>1, <2>1, PiecesMove
<1>4. CASE ServerAuthenticates
  <2>1. ~ ready /\ c2s # <<>> /\ c2s' = Tail(c2s)
    BY <1>4 DEF ServerAuthenticates, Sound, SessionInvariant, RepliesFollow
  <2>2. Follows(c2s')
    BY <1>1, <2>1, TailFollows DEF PiecesInOrder
  <2> QED BY <1>1, <2>1, <2>2 DEF PiecesInOrder
<1>5. CASE ServerAnswers
  <2>1. server = "idle" /\ c2s # <<>> /\ c2s' = Tail(c2s)
    BY <1>5 DEF ServerAnswers
  <2>2. Follows(c2s')
    BY <1>1, <2>1, TailFollows DEF PiecesInOrder
  <2>3. Written \in Seq(Units) /\ Written # <<>> /\ Written' = Tail(Written)
    <3> DEFINE left == IF Writing THEN buf ELSE <<>>
    <3>1. left \in Seq(Units) /\ Written = c2s \o left /\ left' = left
      BY <1>1 DEF Written, Writing, Top
    <3>2. Written' = c2s' \o left'
      BY DEF Written, Writing
    <3> HIDE DEF left
    <3> QED BY <1>1, <2>1, <3>1, <3>2, Together
  <2>4. ready => Follows(Written') /\ Behindhand(Written', command)
    BY <2>1, <2>3, TailFollows DEF PiecesInOrder
  <2> QED BY <1>1, <2>2, <2>4 DEF PiecesInOrder
<1> QED BY <1>2, <1>3, <1>4, <1>5 DEF PeerNext

LEMMA PiecesNext ==
  ASSUME OrderlyUse, Sound, PiecesInOrder, [Next]_vars
  PROVE  PiecesInOrder'
<1>1. CASE Handler
  BY <1>1, AttemptPieces, ReadPieces, PacketReadPieces, WritePieces, HandshakePieces,
     CommandWritePieces, ReplyPieces DEF Handler, OrderlyUse
<1>2. CASE drizzle_wait \/ StateLoopStops \/ StateLoopEnds
  BY <1>2, EndPieces
<1>3. CASE \/ ConnectReturns \/ CommandReturns \/ QuitReturns
           \/ ColumnsReturn \/ SkipReturns \/ RowReturns
  BY <1>3, ReturnPieces
<1>4. CASE AppRests \/ UNCHANGED vars
  <2>1. UNCHANGED <<stack, buf, ready, command, commands, c2s, server>>
    BY <1>4 DEF AppRests, vars, ioVars, conVars, dataVars, cmdVars, appVars
  <2> QED BY <2>1, PiecesMove DEF Writing, Top
<1> QED
  BY <1>1, <1>2, <1>3, <1>4, CallPieces, AroundPieces, PeerPieces
     DEF Next, LibraryNext, AppNext

(* With orderly use, what is on its way to the server is what the library  *)
(* wrote, each piece after the one it follows, and no piece of a command   *)
(* in front of one of an earlier command.                                  *)
THEOREM CommandsSentInOrder ==
  ASSUME OrderlyUse
  PROVE  Spec => []CommandStream
<1>1. Init => PiecesInOrder
  <2> SUFFICES ASSUME Init PROVE PiecesInOrder
    OBVIOUS
  <2>1. ~ ready /\ c2s = <<>> /\ command.k = commands
    BY DEF Init
  <2>2. Len(<<>>) = 0
    OBVIOUS
  <2> QED BY <2>1, <2>2 DEF PiecesInOrder, Follows
<1>2. Sound /\ PiecesInOrder /\ [Next]_vars => PiecesInOrder'
  BY PiecesNext
<1>3. Sound /\ PiecesInOrder => CommandStream
  <2> SUFFICES ASSUME Sound, PiecesInOrder
               PROVE  CommandStream
    OBVIOUS
  <2>1. c2s \in Seq(Units)
    BY DEF Sound, StackInvariant, TypeOK, PeerTypeOK
  <2> DEFINE N == Len(c2s)
  <2>2. DOMAIN c2s = 1..N /\ N \in Nat
    BY <2>1, LenProperties
  <2>3. /\ \A i \in 1..N : c2s[i].part = "whole"
        /\ \A i \in 1..(N - 1) :
             \/ c2s[i + 1].k = c2s[i].k /\ c2s[i + 1].n = c2s[i].n + 1
             \/ c2s[i + 1].k > c2s[i].k /\ c2s[i + 1].n = 1
    BY DEF PiecesInOrder, Follows
  <2> HIDE DEF N
  <2>4. \A i \in (1..N) \ {1} : i - 1 \in 1..(N - 1) /\ (i - 1) + 1 = i
    BY <2>2
  <2> QED BY <2>2, <2>3, <2>4 DEF CommandStream
<1>4. Spec => []SessionInvariant
  BY SessionIsInvariant DEF OrderlyUse
<1> QED
  BY <1>1, <1>2, <1>3, <1>4, StackIsInvariant, PacketIsInvariant, PTL DEF Spec, Sound
=============================================================================
