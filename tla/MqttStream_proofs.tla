------------------------- MODULE MqttStream_proofs --------------------------
(***************************************************************************)
(* Proofs about the observer stream (MqttStream), for any packets, any     *)
(* writers and any kernel that takes the bytes of a send in any portions:  *)
(* the stream keeps its lock, and it is a channel of whole packets         *)
(* (PacketChannel) to whoever reads it.                                    *)
(* The refinement needs that the recursive functions of the framing have   *)
(* values, that decoding undoes encoding, and that framing a stream in two *)
(* goes comes to the same as framing it in one.  Each is an induction on a *)
(* number or a length, brought to the set form of well-founded induction   *)
(* (WFMin), which takes no operator.                                       *)
(***************************************************************************)
EXTENDS MqttStream, SequenceTheorems, WellFoundedInduction, TLAPS

(***************************************************************************)
(* Induction.  The library states it for a predicate given as an operator; *)
(* here it is stated for a set of numbers, so that it can be cited.        *)
(***************************************************************************)

\* A set of natural numbers has a smallest one.
LEMMA SmallestOf ==
  ASSUME NEW T \in SUBSET Nat, T # {}
  PROVE  \E m \in T : \A k \in T : m <= k
<1> DEFINE R == OpToRel(<, Nat)
<1>1. IsWellFoundedOn(R, Nat)
  BY NatLessThanWellFounded
<1>2. \A i, j \in Nat : <<i, j>> \in R <=> i < j
  BY DEF OpToRel
<1> HIDE DEF R
<1>3. PICK m \in T : \A k \in T : ~ (<<k, m>> \in R)
  BY <1>1, WFMin
<1>4. ASSUME NEW k \in T PROVE m <= k
  <2>1. k \in Nat /\ m \in Nat
    OBVIOUS
  <2>2. ~ (k < m)
    BY <1>2, <1>3, <2>1
  <2>3. QED
    BY <2>1, <2>2
<1>5. QED
  BY <1>4

\* What holds of a number if it holds of all smaller ones holds of all.
LEMMA InductionOnNumbers ==
  ASSUME NEW S \in SUBSET Nat,
         \A n \in Nat : (\A k \in Nat : k < n => k \in S) => n \in S
  PROVE  \A n \in Nat : n \in S
<1>1. SUFFICES ASSUME Nat \ S # {} PROVE FALSE
  OBVIOUS
<1>2. PICK m \in Nat \ S : \A k \in Nat \ S : m <= k
  BY <1>1, SmallestOf
<1>3. \A k \in Nat : k < m => k \in S
  BY <1>2
<1>4. QED
  BY <1>2, <1>3

\* What holds of every element of a set if it holds of each one that it holds
\* below, by a size.
LEMMA InductionBySize ==
  ASSUME NEW D, NEW size \in [D -> Nat], NEW S \in SUBSET D,
         \A x \in D : (\A y \in D : size[y] < size[x] => y \in S) => x \in S
  PROVE  S = D
<1>1. SUFFICES ASSUME NEW z \in D, z \notin S PROVE FALSE
  OBVIOUS
<1> DEFINE T == {size[x] : x \in D \ S}
<1>2. T \in SUBSET Nat /\ T # {}
  BY <1>1
<1>3. PICK m \in T : \A k \in T : m <= k
  BY <1>2, SmallestOf
<1>4. PICK x \in D \ S : m = size[x]
  OBVIOUS
<1>5. ASSUME NEW y \in D, size[y] < size[x] PROVE y \in S
  <2>1. SUFFICES ASSUME y \notin S PROVE FALSE
    OBVIOUS
  <2>2. size[y] \in T /\ size[y] \in Nat /\ size[x] \in Nat
    BY <2>1
  <2>3. size[x] <= size[y]
    BY <1>3, <1>4, <2>2
  <2>4. QED
    BY <1>5, <2>2, <2>3
<1>6. QED
  BY <1>4, <1>5

\* A step of a recursive definition that looks only at what is smaller.
GoesDown(D, R, size, step) ==
    /\ R # {} /\ size \in [D -> Nat] /\ step \in [[D -> R] -> [D -> R]]
    /\ \A f, g \in [D -> R], x \in D :
         (\A y \in D : size[y] < size[x] => f[y] = g[y]) => step[f][x] = step[g][x]

\* A recursive definition that goes down in size has a solution.
LEMMA Recursion ==
  ASSUME NEW D, NEW R, NEW size, NEW step, GoesDown(D, R, size, step)
  PROVE  \E f \in [D -> R] : f = step[f]
<1> USE DEF GoesDown
<1> DEFINE Fixed(f, n) == \A x \in D : size[x] < n => step[f][x] = f[x]
<1>1. ASSUME NEW n \in Nat, NEW f \in [D -> R], NEW g \in [D -> R], Fixed(f, n), Fixed(g, n)
      PROVE  \A x \in D : size[x] < n => f[x] = g[x]
  <2> DEFINE S == {x \in D : size[x] < n => f[x] = g[x]}
  <2>1. ASSUME NEW x \in D, \A y \in D : size[y] < size[x] => y \in S PROVE x \in S
    <3>1. SUFFICES ASSUME size[x] < n PROVE f[x] = g[x]
      OBVIOUS
    <3>2. \A y \in D : size[y] < size[x] => f[y] = g[y]
      BY <2>1, <3>1
    <3>3. step[f][x] = step[g][x]
      BY <3>2
    <3>4. QED
      BY <1>1, <3>1, <3>3
  <2>2. S \in SUBSET D
    OBVIOUS
  <2> HIDE DEF S
  <2>3. S = D
    BY <2>1, <2>2, InductionBySize
  <2>4. QED
    BY <2>3 DEF S
<1>2. \A n \in Nat : \E f \in [D -> R] : Fixed(f, n)
  <2> DEFINE S == {n \in Nat : \E f \in [D -> R] : Fixed(f, n)}
  <2>1. ASSUME NEW n \in Nat, \A k \in Nat : k < n => k \in S PROVE n \in S
    <3>1. CASE n = 0
      <4>1. PICK r \in R : TRUE
        OBVIOUS
      <4>2. [x \in D |-> r] \in [D -> R]
        BY <4>1
      <4>3. Fixed([x \in D |-> r], 0)
        OBVIOUS
      <4>4. QED
        BY <3>1, <4>2, <4>3
    <3>2. CASE n # 0
      <4>1. n - 1 \in Nat /\ n - 1 < n
        BY <3>2
      <4>2. PICK f \in [D -> R] : Fixed(f, n - 1)
        BY <2>1, <4>1
      <4>3. step[f] \in [D -> R]
        OBVIOUS
      <4>4. ASSUME NEW x \in D, size[x] < n PROVE step[step[f]][x] = step[f][x]
        <5>1. ASSUME NEW y \in D, size[y] < size[x] PROVE step[f][y] = f[y]
          <6>1. size[y] \in Nat /\ size[x] \in Nat
            OBVIOUS
          <6>2. size[y] < n - 1
            BY <4>4, <5>1, <6>1
          <6>3. QED
            BY <4>2, <6>2
        <5>2. QED
          BY <4>3, <5>1
      <4>5. Fixed(step[f], n)
        BY <4>4
      <4>6. QED
        BY <4>3, <4>5
    <3>3. QED
      BY <3>1, <3>2
  <2> HIDE DEF Fixed
  <2>2. S \in SUBSET Nat
    OBVIOUS
  <2> HIDE DEF S
  <2>3. \A n \in Nat : n \in S
    BY <2>1, <2>2, InductionOnNumbers
  <2>4. QED
    BY <2>3 DEF S
<1> DEFINE F(n) == CHOOSE f \in [D -> R] : Fixed(f, n)
<1>3. \A n \in Nat : F(n) \in [D -> R] /\ Fixed(F(n), n)
  <2> HIDE DEF Fixed
  <2>1. QED
    BY <1>2
<1> DEFINE h == [x \in D |-> F(size[x] + 1)[x]]
<1> HIDE DEF F
<1>4. h \in [D -> R]
  <2>1. \A x \in D : size[x] + 1 \in Nat
    OBVIOUS
  <2>2. QED
    BY <1>3, <2>1
<1>5. ASSUME NEW x \in D PROVE step[h][x] = h[x]
  <2>1. size[x] + 1 \in Nat /\ size[x] < size[x] + 1
    OBVIOUS
  <2>2. F(size[x] + 1) \in [D -> R] /\ Fixed(F(size[x] + 1), size[x] + 1)
    BY <1>3, <2>1
  <2>3. ASSUME NEW y \in D, size[y] < size[x] PROVE h[y] = F(size[x] + 1)[y]
    <3>1. /\ size[y] \in Nat /\ size[y] + 1 \in Nat /\ size[y] < size[y] + 1
          /\ size[y] + 1 < size[x] + 1
      BY <2>3
    <3>2. F(size[y] + 1) \in [D -> R] /\ Fixed(F(size[y] + 1), size[y] + 1)
      BY <1>3, <3>1
    <3>3. Fixed(F(size[x] + 1), size[y] + 1)
      <4>1. \A z \in D : size[z] < size[y] + 1 => size[z] < size[x] + 1
        BY <2>1, <3>1
      <4>2. QED
        BY <2>2, <4>1
    <3>4. F(size[y] + 1)[y] = F(size[x] + 1)[y]
      <4> HIDE DEF Fixed
      <4>1. QED
        BY <1>1, <2>2, <3>1, <3>2, <3>3
    <3>5. QED
      BY <3>4
  <2>4. step[h][x] = step[F(size[x] + 1)][x]
    BY <1>4, <2>2, <2>3
  <2>5. QED
    BY <2>1, <2>2, <2>4
<1>6. step[h] \in [D -> R]
  BY <1>4
<1> HIDE DEF h
<1>7. h = step[h]
  BY <1>4, <1>5, <1>6
<1>8. QED
  BY <1>4, <1>7

-----------------------------------------------------------------------------
(***************************************************************************)
(* The three recursive functions have values, and these are as defined.    *)
(***************************************************************************)

LEMMA BaseFacts == Base \in Nat /\ Base > 1 /\ Byte \subseteq Nat
  BY BaseAssumption DEF Byte

LEMMA DivFacts ==
  ASSUME NEW n \in Nat
  PROVE  /\ n \div Base \in Nat /\ n % Base \in 0..(Base - 1)
         /\ n = Base * (n \div Base) + (n % Base)
         /\ n >= Base => n \div Base < n /\ n \div Base > 0
<1>1. /\ n \div Base \in Nat /\ n % Base \in 0..(Base - 1)
      /\ n = Base * (n \div Base) + (n % Base)
  BY BaseFacts
<1>2. n >= Base => n \div Base < n /\ n \div Base > 0
  BY <1>1, BaseFacts
<1>3. QED
  BY <1>1, <1>2

LEMMA DigitFacts ==
  ASSUME NEW n \in Nat
  PROVE  /\ n < Base => n \in Byte
         /\ Base + (n % Base) \in Byte /\ Base + (n % Base) >= Base
         /\ (Base + (n % Base)) % Base = n % Base
         /\ n < Base => n % Base = n
<1>1. n % Base \in 0..(Base - 1)
  BY DivFacts
<1>2. /\ n < Base => n \in Byte
      /\ Base + (n % Base) \in Byte /\ Base + (n % Base) >= Base
  BY <1>1, BaseFacts DEF Byte
<1>3. \A k \in 0..(Base - 1) : k % Base = k /\ (Base + k) % Base = k
  BY BaseFacts
<1>4. QED
  BY <1>1, <1>2, <1>3, BaseFacts

\* What encode_varint makes of n, given what it makes of smaller numbers.
VarintStep(f, n) == IF n < Base THEN <<n>> ELSE <<Base + (n % Base)>> \o f[n \div Base]

LEMMA VarintDefined == Varint = [n \in Nat |-> VarintStep(Varint, n)]
<1> DEFINE R == Seq(Byte)
           step == [f \in [Nat -> R] |-> [n \in Nat |-> VarintStep(f, n)]]
           size == [n \in Nat |-> n]
<1>1. \A f \in [Nat -> R], n \in Nat : VarintStep(f, n) \in R
  <2>1. SUFFICES ASSUME NEW f \in [Nat -> R], NEW n \in Nat PROVE VarintStep(f, n) \in R
    OBVIOUS
  <2>2. CASE n < Base
    BY <2>2, DigitFacts DEF VarintStep
  <2>3. CASE ~(n < Base)
    <3>1. f[n \div Base] \in Seq(Byte) /\ <<Base + (n % Base)>> \in Seq(Byte)
      BY DivFacts, DigitFacts
    <3>2. <<Base + (n % Base)>> \o f[n \div Base] \in Seq(Byte)
      BY <3>1, ConcatProperties
    <3>3. QED
      BY <2>3, <3>2 DEF VarintStep
  <2>4. QED
    BY <2>2, <2>3
<1>2. step \in [[Nat -> R] -> [Nat -> R]]
  BY <1>1
<1>3. \A f \in [Nat -> R], n \in Nat : step[f][n] = VarintStep(f, n)
  OBVIOUS
<1>4. size \in [Nat -> Nat] /\ \A n \in Nat : size[n] = n
  OBVIOUS
<1>5. ASSUME NEW f \in [Nat -> R], NEW g \in [Nat -> R], NEW n \in Nat,
             \A k \in Nat : size[k] < size[n] => f[k] = g[k]
      PROVE  step[f][n] = step[g][n]
  <2>1. n >= Base => f[n \div Base] = g[n \div Base]
    BY <1>4, <1>5, DivFacts
  <2>2. n < Base \/ n >= Base
    BY BaseFacts
  <2>3. VarintStep(f, n) = VarintStep(g, n)
    BY <2>1, <2>2 DEF VarintStep
  <2>4. QED
    BY <1>3, <2>3
<1>6. R # {}
  BY EmptySeq
<1>7. PICK h \in [Nat -> R] : h = step[h]
  <2> HIDE DEF R, step, size
  <2>1. GoesDown(Nat, R, size, step)
    BY <1>2, <1>4, <1>5, <1>6 DEF GoesDown
  <2>2. QED
    BY <2>1, Recursion
<1>8. h = [n \in Nat |-> VarintStep(h, n)]
  BY <1>7
<1>9. Varint = CHOOSE f : f = [n \in Nat |-> VarintStep(f, n)]
  BY DEF Varint, VarintStep
<1>10. QED
  BY <1>8, <1>9

LEMMA VarintFacts ==
  \A n \in Nat : Varint[n] \in Seq(Byte) /\ Varint[n] = VarintStep(Varint, n)
<1>1. \A n \in Nat : Varint[n] = VarintStep(Varint, n)
  BY VarintDefined
<1> DEFINE S == {n \in Nat : Varint[n] \in Seq(Byte)}
<1>2. ASSUME NEW n \in Nat, \A k \in Nat : k < n => k \in S PROVE n \in S
  <2>1. CASE n < Base
    <3>1. Varint[n] = <<n>>
      BY <1>1, <2>1 DEF VarintStep
    <3>2. n \in Byte
      BY <2>1, DigitFacts
    <3>3. QED
      BY <3>1, <3>2
  <2>2. CASE ~(n < Base)
    <3> n \div Base \in Nat /\ n \div Base < n
      BY <2>2, DivFacts, BaseFacts
    <3>1. Varint[n \div Base] \in Seq(Byte) /\ <<Base + (n % Base)>> \in Seq(Byte)
      BY <1>2, DigitFacts
    <3>2. <<Base + (n % Base)>> \o Varint[n \div Base] \in Seq(Byte)
      BY <3>1, ConcatProperties
    <3>3. QED
      BY <1>1, <2>2, <3>2 DEF VarintStep
  <2>3. QED
    BY <2>1, <2>2
<1>3. S \in SUBSET Nat
  OBVIOUS
<1> HIDE DEF S
<1>4. \A n \in Nat : n \in S
  BY <1>2, <1>3, InductionOnNumbers
<1>5. QED
  BY <1>1, <1>4 DEF S

\* Pieces of a sequence.
LEMMA PieceFacts ==
  ASSUME NEW S, NEW s \in Seq(S), NEW i \in Nat \ {0}, NEW j \in 0..Len(s)
  PROVE  /\ SubSeq(s, i, j) \in Seq(S)
         /\ Len(SubSeq(s, i, j)) = IF i <= j THEN j - i + 1 ELSE 0
         /\ \A k \in 1..(j - i + 1) : SubSeq(s, i, j)[k] = s[i + k - 1]
<1>1. i \in Int /\ j \in Int /\ Len(s) \in Nat
  BY LenProperties
<1>2. \A k \in i..j : s[k] \in S
  BY <1>1, ElementOfSeq
<1>3. /\ SubSeq(s, i, j) \in Seq(S)
      /\ Len(SubSeq(s, i, j)) = IF i <= j THEN j - i + 1 ELSE 0
      /\ \A k \in 1..(j - i + 1) : SubSeq(s, i, j)[k] = s[i + k - 1]
  BY <1>1, <1>2, SubSeqProperties
<1>4. QED
  BY <1>3

\* A sequence is its first bytes and the others.
LEMMA Split ==
  ASSUME NEW S, NEW s \in Seq(S), NEW k \in 0..Len(s)
  PROVE  /\ SubSeq(s, 1, k) \in Seq(S) /\ SubSeq(s, k + 1, Len(s)) \in Seq(S)
         /\ Len(SubSeq(s, 1, k)) = k /\ Len(SubSeq(s, k + 1, Len(s))) = Len(s) - k
         /\ s = SubSeq(s, 1, k) \o SubSeq(s, k + 1, Len(s))
<1> Len(s) \in Nat
  BY LenProperties
<1> DEFINE a == SubSeq(s, 1, k)
           b == SubSeq(s, k + 1, Len(s))
<1>1. a \in Seq(S) /\ Len(a) = k /\ \A i \in 1..k : a[i] = s[i]
  BY PieceFacts
<1>2. b \in Seq(S) /\ Len(b) = Len(s) - k /\ \A i \in 1..(Len(s) - k) : b[i] = s[k + i]
  BY PieceFacts
<1> HIDE DEF a, b
<1>3. /\ a \o b \in Seq(S) /\ Len(a \o b) = Len(s)
      /\ \A i \in 1..Len(s) : (a \o b)[i] = IF i <= k THEN a[i] ELSE b[i - k]
  BY <1>1, <1>2, ConcatProperties
<1>4. \A i \in 1..Len(s) : (a \o b)[i] = s[i]
  BY <1>1, <1>2, <1>3
<1>5. s = a \o b
  BY <1>3, <1>4, SeqEqual
<1>6. QED
  BY <1>1, <1>2, <1>5 DEF a, b

\* What follows the first byte.
LEMMA TailOfConcat ==
  ASSUME NEW S, NEW x \in S, NEW s \in Seq(S)
  PROVE  /\ <<x>> \o s \in Seq(S) /\ Len(<<x>> \o s) = Len(s) + 1 /\ <<x>> \o s # << >>
         /\ (<<x>> \o s)[1] = x /\ Tail(<<x>> \o s) = s
         /\ \A i \in 1..Len(s) : (<<x>> \o s)[i + 1] = s[i]
<1> DEFINE c == <<x>> \o s
<1>1. Len(s) \in Nat /\ <<x>> \in Seq(S) /\ Len(<<x>>) = 1 /\ <<x>>[1] = x
  BY LenProperties
<1>2. c \in Seq(S) /\ Len(c) = Len(s) + 1
  BY <1>1, ConcatProperties
<1>3. \A i \in 1..(Len(s) + 1) : c[i] = IF i <= 1 THEN <<x>>[i] ELSE s[i - 1]
  BY <1>1, ConcatProperties
<1> HIDE DEF c
<1>4. c[1] = x /\ \A i \in 1..Len(s) : c[i + 1] = s[i]
  BY <1>1, <1>3
<1>5. c # << >>
  BY <1>1, <1>2, EmptySeq
<1>6. /\ Tail(c) \in Seq(S) /\ Len(Tail(c)) = Len(s)
      /\ \A i \in 1..Len(s) : Tail(c)[i] = c[i + 1]
  BY <1>1, <1>2, <1>5, HeadTailProperties
<1>7. Tail(c) = s
  BY <1>4, <1>6, SeqEqual
<1>8. QED
  BY <1>2, <1>4, <1>5, <1>7 DEF c

-----------------------------------------------------------------------------
(***************************************************************************)
(* Value, and that it undoes Varint.                                       *)
(***************************************************************************)

LEMMA LengthIsSize == [s \in Seq(Byte) |-> Len(s)] \in [Seq(Byte) -> Nat]
  BY LenProperties

ValueStep(f, s) == IF s = << >> THEN 0 ELSE (s[1] % Base) + Base * f[Tail(s)]

LEMMA DigitOfFirst ==
  ASSUME NEW s \in Seq(Byte), s # << >>
  PROVE  /\ s[1] % Base \in Nat /\ s[1] \in Byte
         /\ Tail(s) \in Seq(Byte) /\ Len(Tail(s)) < Len(s) /\ Len(s) \in Nat
<1>1. Tail(s) \in Seq(Byte) /\ Len(Tail(s)) = Len(s) - 1 /\ Len(s) \in Nat \ {0}
  BY HeadTailProperties, EmptySeq
<1>2. s[1] \in Byte
  BY <1>1, ElementOfSeq
<1>3. s[1] \in Nat
  BY <1>2, BaseFacts
<1>4. s[1] % Base \in 0..(Base - 1)
  BY <1>3, DivFacts
<1>5. s[1] % Base \in Nat
  BY <1>4
<1>6. QED
  BY <1>1, <1>2, <1>5

LEMMA ProductIsNat == \A k \in Nat : Base * k \in Nat
  BY BaseFacts

LEMMA ValueDefined == Value = [s \in Seq(Byte) |-> ValueStep(Value, s)]
<1> DEFINE D == Seq(Byte)
           step == [f \in [D -> Nat] |-> [s \in D |-> ValueStep(f, s)]]
           size == [s \in D |-> Len(s)]
<1>1. ASSUME NEW f \in [D -> Nat], NEW s \in D PROVE ValueStep(f, s) \in Nat
  <2>1. CASE s = << >>
    BY <2>1 DEF ValueStep
  <2>2. CASE s # << >>
    <3>1. f[Tail(s)] \in Nat /\ s[1] % Base \in Nat
      BY <2>2, DigitOfFirst
    <3>2. Base * f[Tail(s)] \in Nat
      BY <3>1, ProductIsNat
    <3>3. QED
      BY <2>2, <3>1, <3>2 DEF ValueStep
  <2>3. QED
    BY <2>1, <2>2
<1>2. step \in [[D -> Nat] -> [D -> Nat]]
  BY <1>1
<1>3. \A f \in [D -> Nat], s \in D : step[f][s] = ValueStep(f, s)
  OBVIOUS
<1>4. size \in [D -> Nat] /\ \A s \in D : size[s] = Len(s)
  BY LengthIsSize
<1>5. ASSUME NEW f \in [D -> Nat], NEW g \in [D -> Nat], NEW s \in D,
             \A k \in D : size[k] < size[s] => f[k] = g[k]
      PROVE  step[f][s] = step[g][s]
  <2>1. s # << >> => f[Tail(s)] = g[Tail(s)]
    BY <1>4, <1>5, DigitOfFirst
  <2>2. ValueStep(f, s) = ValueStep(g, s)
    BY <2>1 DEF ValueStep
  <2>3. QED
    BY <1>3, <2>2
<1>6. PICK h \in [D -> Nat] : h = step[h]
  <2> HIDE DEF D, step, size
  <2>1. GoesDown(D, Nat, size, step)
    BY <1>2, <1>4, <1>5 DEF GoesDown
  <2>2. QED
    BY <2>1, Recursion
<1>7. h = [s \in Seq(Byte) |-> ValueStep(h, s)]
  BY <1>6
<1>8. Value = CHOOSE f : f = [s \in Seq(Byte) |-> ValueStep(f, s)]
  BY DEF Value, ValueStep
<1>9. QED
  BY <1>7, <1>8

LEMMA ValueFacts ==
  /\ Value[<< >>] = 0
  /\ \A s \in Seq(Byte) : Value[s] \in Nat
  /\ \A s \in Seq(Byte) : s # << >> => Value[s] = (s[1] % Base) + Base * Value[Tail(s)]
<1>1. \A s \in Seq(Byte) : Value[s] = ValueStep(Value, s)
  BY ValueDefined
<1>2. << >> \in Seq(Byte)
  BY EmptySeq
<1> DEFINE D == Seq(Byte)
           size == [s \in D |-> Len(s)]
           S == {s \in D : Value[s] \in Nat}
<1>3. ASSUME NEW s \in D, \A k \in D : size[k] < size[s] => k \in S PROVE s \in S
  <2>1. CASE s = << >>
    <3>1. ValueStep(Value, s) = 0
      BY <2>1 DEF ValueStep
    <3>2. Value[s] = 0
      BY <1>1, <3>1
    <3>3. QED
      BY <3>2
  <2>2. CASE s # << >>
    <3>1. Tail(s) \in S /\ s[1] % Base \in Nat
      BY <1>3, <2>2, DigitOfFirst
    <3>2. Base * Value[Tail(s)] \in Nat
      BY <3>1, ProductIsNat
    <3>3. ValueStep(Value, s) \in Nat
      BY <2>2, <3>1, <3>2 DEF ValueStep
    <3>4. QED
      BY <1>1, <3>3
  <2>3. QED
    BY <2>1, <2>2
<1>4. S \in SUBSET D /\ size \in [D -> Nat]
  BY LengthIsSize
<1>5. S = D
  <2> HIDE DEF D, size, S
  <2>1. QED
    BY <1>3, <1>4, InductionBySize
<1>6. QED
  BY <1>1, <1>2, <1>5 DEF ValueStep

\* encode_varint marks every byte but the last one.
LEMMA VarintIsMarked ==
  \A n \in Nat : /\ Varint[n] \in Seq(Byte) /\ Len(Varint[n]) \in Nat \ {0}
                 /\ Varint[n][Len(Varint[n])] < Base
                 /\ \A i \in 1..(Len(Varint[n]) - 1) : Varint[n][i] >= Base
<1> DEFINE Marked(v) == /\ Len(v) \in Nat \ {0}
                        /\ v[Len(v)] < Base
                        /\ \A i \in 1..(Len(v) - 1) : v[i] >= Base
           S == {n \in Nat : Marked(Varint[n])}
<1>1. ASSUME NEW n \in Nat, \A k \in Nat : k < n => k \in S PROVE n \in S
  <2>1. CASE n < Base
    <3>1. Varint[n] = <<n>>
      BY <2>1, VarintFacts DEF VarintStep
    <3>2. Marked(<<n>>)
      BY <2>1
    <3>3. QED
      BY <3>1, <3>2
  <2>2. CASE ~(n < Base)
    <3> DEFINE x == Base + (n % Base)
               w == Varint[n \div Base]
    <3>1. n \div Base \in Nat /\ n \div Base < n
      BY <2>2, DivFacts, BaseFacts
    <3>2. Varint[n] = <<x>> \o w
      BY <2>2, VarintFacts DEF VarintStep
    <3>3. w \in Seq(Byte) /\ Marked(w)
      BY <1>1, <3>1, VarintFacts
    <3>4. x \in Byte /\ x >= Base
      BY DigitFacts
    <3> HIDE DEF x, w
    <3> DEFINE v == <<x>> \o w
    <3>5. /\ Len(v) = Len(w) + 1 /\ v[1] = x
          /\ \A i \in 1..Len(w) : v[i + 1] = w[i]
      BY <3>3, <3>4, TailOfConcat
    <3> HIDE DEF v
    <3>6. Len(v) \in Nat \ {0} /\ v[Len(v)] < Base
      BY <3>3, <3>5
    <3>7. ASSUME NEW i \in 1..(Len(v) - 1) PROVE v[i] >= Base
      <4>1. CASE i = 1
        BY <3>4, <3>5, <4>1
      <4>2. CASE i # 1
        <5>1. i - 1 \in 1..(Len(w) - 1) /\ i - 1 \in 1..Len(w) /\ (i - 1) + 1 = i
          BY <3>3, <3>5, <4>2
        <5>2. v[i] = w[i - 1]
          BY <3>5, <5>1
        <5>3. QED
          BY <3>3, <5>1, <5>2
      <4>3. QED
        BY <4>1, <4>2
    <3>8. Marked(Varint[n])
      BY <3>2, <3>6, <3>7 DEF v
    <3>9. QED
      BY <3>8
  <2>3. QED
    BY <2>1, <2>2
<1>2. S \in SUBSET Nat
  OBVIOUS
<1> HIDE DEF S
<1>3. \A n \in Nat : n \in S
  BY <1>1, <1>2, InductionOnNumbers
<1>4. QED
  BY <1>3, VarintFacts DEF S

\* _parse_varint reads what encode_varint wrote.
LEMMA ValueOfVarint == \A n \in Nat : Value[Varint[n]] = n
<1> DEFINE S == {n \in Nat : Value[Varint[n]] = n}
<1>1. ASSUME NEW n \in Nat, \A k \in Nat : k < n => k \in S PROVE n \in S
  <2>1. CASE n < Base
    <3>1. Varint[n] = <<n>> /\ n \in Byte /\ n % Base = n
      BY <2>1, VarintFacts, DigitFacts DEF VarintStep
    <3>2. <<n>> \in Seq(Byte) /\ <<n>> # << >> /\ <<n>>[1] = n /\ Tail(<<n>>) = << >>
      BY <3>1
    <3>3. Value[<<n>>] = n + Base * 0
      BY <3>1, <3>2, ValueFacts
    <3>4. QED
      BY <3>1, <3>3, BaseFacts
  <2>2. CASE ~(n < Base)
    <3> DEFINE x == Base + (n % Base)
               w == Varint[n \div Base]
    <3>1. n \div Base \in Nat /\ n \div Base < n
      BY <2>2, DivFacts, BaseFacts
    <3>2. Varint[n] = <<x>> \o w
      BY <2>2, VarintFacts DEF VarintStep
    <3>3. w \in Seq(Byte) /\ Value[w] = n \div Base
      BY <1>1, <3>1, VarintFacts
    <3>4. x \in Byte /\ x % Base = n % Base
      BY DigitFacts
    <3>5. /\ <<x>> \o w \in Seq(Byte) /\ <<x>> \o w # << >>
          /\ (<<x>> \o w)[1] = x /\ Tail(<<x>> \o w) = w
      BY <3>3, <3>4, TailOfConcat
    <3>6. Value[<<x>> \o w] = (x % Base) + Base * Value[w]
      BY <3>5, ValueFacts
    <3>7. n = Base * (n \div Base) + (n % Base) /\ n % Base \in Nat /\ Base * (n \div Base) \in Nat
      BY DivFacts, ProductIsNat
    <3> HIDE DEF x, w
    <3>8. Value[Varint[n]] = (n % Base) + Base * (n \div Base)
      BY <3>2, <3>3, <3>4, <3>6
    <3>9. QED
      BY <3>7, <3>8
  <2>3. QED
    BY <2>1, <2>2
<1>2. S \in SUBSET Nat
  OBVIOUS
<1> HIDE DEF S
<1>3. \A n \in Nat : n \in S
  BY <1>1, <1>2, InductionOnNumbers
<1>4. QED
  BY <1>3 DEF S

-----------------------------------------------------------------------------
(***************************************************************************)
(* Where a packet ends.                                                    *)
(***************************************************************************)

\* Position e ends the length that begins at b[2].
EndsAt(b, e) ==
    /\ e \in 2..(1 + MaxDigits) /\ e <= Len(b)
    /\ b[e] < Base
    /\ \A i \in 2..(e - 1) : b[i] >= Base

LEMMA LengthEndFacts ==
  ASSUME NEW b \in Seq(Byte)
  PROVE  /\ LengthEnd(b) # 0 => EndsAt(b, LengthEnd(b))
         /\ LengthEnd(b) = 0 => \A i \in 2..(1 + MaxDigits) : i <= Len(b) => b[i] >= Base
         /\ LengthEnd(b) \in 0..5
<1> DEFINE ends == {i \in 2..(1 + MaxDigits) : i <= Len(b) /\ b[i] < Base}
<1>1. LengthEnd(b) = IF ends = {} THEN 0 ELSE Min(ends)
  BY DEF LengthEnd
<1>2. Len(b) \in Nat /\ \A i \in 2..(1 + MaxDigits) : i <= Len(b) => b[i] \in Nat
  <2>1. Len(b) \in Nat
    BY LenProperties
  <2>2. \A i \in 2..(1 + MaxDigits) : i <= Len(b) => b[i] \in Byte
    BY <2>1, ElementOfSeq DEF MaxDigits
  <2>3. QED
    BY <2>1, <2>2, BaseFacts
<1>3. CASE ends = {}
  <2>1. LengthEnd(b) = 0
    BY <1>1, <1>3
  <2>2. \A i \in 2..(1 + MaxDigits) : i <= Len(b) => ~(b[i] < Base)
    BY <1>3
  <2>3. QED
    BY <1>2, <2>1, <2>2, BaseFacts
<1>4. CASE ends # {}
  <2>1. ends \in SUBSET Nat
    BY DEF MaxDigits
  <2>2. \E m \in ends : \A k \in ends : m <= k
    BY <1>4, <2>1, SmallestOf
  <2>3. Min(ends) \in ends /\ \A k \in ends : Min(ends) <= k
    <3> HIDE DEF ends
    <3>1. QED
      BY <2>2 DEF Min
  <2>4. LengthEnd(b) \in ends /\ \A k \in ends : LengthEnd(b) <= k
    BY <1>1, <1>4, <2>3
  <2>5. LengthEnd(b) \in 2..5 /\ LengthEnd(b) <= Len(b) /\ b[LengthEnd(b)] < Base
    BY <2>4 DEF MaxDigits
  <2>6. ASSUME NEW i \in 2..(LengthEnd(b) - 1) PROVE b[i] >= Base
    <3>1. i \in 2..(1 + MaxDigits) /\ i <= Len(b) /\ ~(LengthEnd(b) <= i)
      BY <1>2, <2>5 DEF MaxDigits
    <3>2. ~(b[i] < Base)
      BY <2>4, <3>1
    <3>3. QED
      BY <1>2, <3>1, <3>2, BaseFacts
  <2>7. QED
    BY <2>5, <2>6 DEF EndsAt, MaxDigits
<1>5. QED
  BY <1>3, <1>4

LEMMA LengthEndIs ==
  ASSUME NEW b \in Seq(Byte), NEW e, EndsAt(b, e)
  PROVE  LengthEnd(b) = e
<1>1. e \in 2..5 /\ e <= Len(b) /\ b[e] < Base /\ \A i \in 2..(e - 1) : b[i] >= Base
  BY DEF EndsAt, MaxDigits
<1>2. Len(b) \in Nat
  BY LenProperties
<1>3. b[e] \in Nat
  <2>1. b[e] \in Byte
    BY <1>1, <1>2, ElementOfSeq
  <2>2. QED
    BY <2>1, BaseFacts
<1>4. LengthEnd(b) # 0
  BY <1>1, <1>3, LengthEndFacts, BaseFacts DEF MaxDigits
<1> DEFINE k == LengthEnd(b)
<1>5. k \in 2..5 /\ k <= Len(b) /\ b[k] < Base /\ \A i \in 2..(k - 1) : b[i] >= Base
  BY <1>4, LengthEndFacts DEF EndsAt, MaxDigits
<1>6. b[k] \in Nat
  <2>1. b[k] \in Byte
    BY <1>5, <1>2, ElementOfSeq
  <2>2. QED
    BY <2>1, BaseFacts
<1> HIDE DEF k
<1>7. ~(k < e)
  BY <1>1, <1>5, <1>6, BaseFacts
<1>8. ~(e < k)
  BY <1>1, <1>3, <1>5, BaseFacts
<1>9. k = e
  BY <1>1, <1>5, <1>7, <1>8
<1>10. QED
  BY <1>9 DEF k

\* Where the first packet of b ends.
Total(b) == LengthEnd(b) + LengthOf(b)

LEMMA TotalFacts ==
  ASSUME NEW b \in Seq(Byte), LengthEnd(b) # 0
  PROVE  /\ LengthEnd(b) \in 2..5 /\ LengthEnd(b) <= Len(b) /\ LengthOf(b) \in Nat
         /\ Total(b) \in Nat /\ Total(b) >= LengthEnd(b)
<1>1. LengthEnd(b) \in 2..5 /\ LengthEnd(b) <= Len(b)
  BY LengthEndFacts DEF EndsAt, MaxDigits
<1>2. Len(b) \in Nat
  BY LenProperties
<1>3. SubSeq(b, 2, LengthEnd(b)) \in Seq(Byte)
  BY <1>1, <1>2, PieceFacts
<1>4. LengthOf(b) \in Nat
  BY <1>3, ValueFacts DEF LengthOf
<1>5. QED
  BY <1>1, <1>4 DEF Total

LEMMA HasPacketFacts ==
  ASSUME NEW b \in Seq(Byte), HasPacket(b)
  PROVE  /\ LengthEnd(b) \in 2..5 /\ Total(b) \in 2..Len(b) /\ LengthEnd(b) <= Total(b)
         /\ Len(b) \in Nat \ {0} /\ b[1] \in Byte
         /\ SubSeq(b, LengthEnd(b) + 1, Total(b)) \in Seq(Byte)
         /\ SubSeq(b, Total(b) + 1, Len(b)) \in Seq(Byte)
         /\ Len(SubSeq(b, Total(b) + 1, Len(b))) < Len(b)
<1>1. LengthEnd(b) # 0 /\ Total(b) <= Len(b)
  BY DEF HasPacket, Total
<1>2. Len(b) \in Nat
  BY LenProperties
<1>3. LengthEnd(b) \in 2..5 /\ Total(b) \in 2..Len(b) /\ LengthEnd(b) <= Total(b)
  BY <1>1, <1>2, TotalFacts
<1>4. Len(b) \in Nat \ {0} /\ b[1] \in Byte
  BY <1>2, <1>3, ElementOfSeq
<1>5. SubSeq(b, LengthEnd(b) + 1, Total(b)) \in Seq(Byte)
  BY <1>2, <1>3, PieceFacts
<1>6. /\ SubSeq(b, Total(b) + 1, Len(b)) \in Seq(Byte)
      /\ Len(SubSeq(b, Total(b) + 1, Len(b))) = Len(b) - Total(b)
  BY <1>2, <1>3, Split
<1>7. QED
  BY <1>2, <1>3, <1>4, <1>5, <1>6

-----------------------------------------------------------------------------
(***************************************************************************)
(* The framer.                                                             *)
(***************************************************************************)

Found == [packets : Seq(Packet), rest : Seq(Byte)]

\* The first packet of b, and what is after it.
First(b) == [head |-> b[1], body |-> SubSeq(b, LengthEnd(b) + 1, Total(b))]
After(b) == SubSeq(b, Total(b) + 1, Len(b))

FramedStep(f, b) ==
    IF ~HasPacket(b) THEN [packets |-> << >>, rest |-> b]
    ELSE [f[After(b)] EXCEPT !.packets = <<First(b)>> \o @]

LEMMA FirstFacts ==
  ASSUME NEW b \in Seq(Byte), HasPacket(b)
  PROVE  First(b) \in Packet /\ After(b) \in Seq(Byte) /\ Len(After(b)) < Len(b)
  BY HasPacketFacts DEF First, After, Packet

LEMMA FramedStepType ==
  ASSUME NEW b \in Seq(Byte), NEW f, HasPacket(b) => f[After(b)] \in Found
  PROVE  /\ FramedStep(f, b) \in Found
         /\ HasPacket(b) => /\ FramedStep(f, b).packets = <<First(b)>> \o f[After(b)].packets
                            /\ FramedStep(f, b).rest = f[After(b)].rest
<1>1. CASE ~HasPacket(b)
  <2>1. FramedStep(f, b) = [packets |-> << >>, rest |-> b]
    BY <1>1 DEF FramedStep
  <2>2. << >> \in Seq(Packet)
    BY EmptySeq
  <2>3. QED
    BY <1>1, <2>1, <2>2 DEF Found
<1>2. CASE HasPacket(b)
  <2> DEFINE m == f[After(b)]
             x == First(b)
  <2>1. m \in Found /\ x \in Packet
    BY <1>2, FirstFacts
  <2>2. FramedStep(f, b) = [m EXCEPT !.packets = <<x>> \o @]
    BY <1>2 DEF FramedStep
  <2> HIDE DEF m, x
  <2>3. m.packets \in Seq(Packet) /\ m.rest \in Seq(Byte)
    BY <2>1 DEF Found
  <2>4. <<x>> \o m.packets \in Seq(Packet)
    BY <2>1, <2>3, TailOfConcat
  <2>5. /\ [m EXCEPT !.packets = <<x>> \o @] \in Found
        /\ [m EXCEPT !.packets = <<x>> \o @].packets = <<x>> \o m.packets
        /\ [m EXCEPT !.packets = <<x>> \o @].rest = m.rest
    BY <2>1, <2>4 DEF Found
  <2>6. QED
    BY <2>2, <2>5 DEF m, x
<1>3. QED
  BY <1>1, <1>2

LEMMA FramedDefined == Framed = [b \in Seq(Byte) |-> FramedStep(Framed, b)]
<1> DEFINE D == Seq(Byte)
           step == [f \in [D -> Found] |-> [b \in D |-> FramedStep(f, b)]]
           size == [b \in D |-> Len(b)]
<1>1. ASSUME NEW f \in [D -> Found], NEW b \in D PROVE FramedStep(f, b) \in Found
  <2>1. HasPacket(b) => f[After(b)] \in Found
    BY FirstFacts
  <2>2. QED
    BY <2>1, FramedStepType
<1>2. step \in [[D -> Found] -> [D -> Found]]
  BY <1>1
<1>3. \A f \in [D -> Found], b \in D : step[f][b] = FramedStep(f, b)
  OBVIOUS
<1>4. size \in [D -> Nat] /\ \A b \in D : size[b] = Len(b)
  BY LengthIsSize
<1>5. ASSUME NEW f \in [D -> Found], NEW g \in [D -> Found], NEW b \in D,
             \A k \in D : size[k] < size[b] => f[k] = g[k]
      PROVE  step[f][b] = step[g][b]
  <2>1. HasPacket(b) => f[After(b)] = g[After(b)]
    BY <1>4, <1>5, FirstFacts
  <2>2. FramedStep(f, b) = FramedStep(g, b)
    BY <2>1 DEF FramedStep
  <2>3. QED
    BY <1>3, <2>2
<1>6. Found # {}
  <2>1. << >> \in Seq(Packet) /\ << >> \in Seq(Byte)
    BY EmptySeq
  <2>2. [packets |-> << >>, rest |-> << >>] \in Found
    BY <2>1 DEF Found
  <2>3. QED
    BY <2>2
<1>7. PICK h \in [D -> Found] : h = step[h]
  <2> HIDE DEF D, step, size
  <2>1. GoesDown(D, Found, size, step)
    BY <1>2, <1>4, <1>5, <1>6 DEF GoesDown
  <2>2. QED
    BY <2>1, Recursion
<1>8. h = [b \in Seq(Byte) |-> FramedStep(h, b)]
  BY <1>7
<1>9. Framed = CHOOSE f : f = [b \in Seq(Byte) |-> FramedStep(f, b)]
  BY DEF Framed, FramedStep, First, After, Total
<1>10. QED
  BY <1>8, <1>9

LEMMA FramedFacts ==
  ASSUME NEW b \in Seq(Byte)
  PROVE  /\ Framed[b] \in Found
         /\ Framed[b].packets \in Seq(Packet) /\ Framed[b].rest \in Seq(Byte)
         /\ ~HasPacket(b) => Framed[b].packets = << >> /\ Framed[b].rest = b
         /\ HasPacket(b) => /\ Framed[b].packets = <<First(b)>> \o Framed[After(b)].packets
                            /\ Framed[b].rest = Framed[After(b)].rest
<1>1. \A c \in Seq(Byte) : Framed[c] = FramedStep(Framed, c)
  BY FramedDefined
<1> DEFINE D == Seq(Byte)
           size == [c \in D |-> Len(c)]
           S == {c \in D : Framed[c] \in Found}
<1>2. ASSUME NEW c \in D, \A k \in D : size[k] < size[c] => k \in S PROVE c \in S
  <2>1. HasPacket(c) => Framed[After(c)] \in Found
    BY <1>2, FirstFacts
  <2>2. FramedStep(Framed, c) \in Found
    BY <2>1, FramedStepType
  <2>3. Framed[c] = FramedStep(Framed, c)
    BY <1>1
  <2>4. QED
    BY <2>2, <2>3
<1>3. S \in SUBSET D /\ size \in [D -> Nat]
  BY LengthIsSize
<1>4. S = D
  <2> HIDE DEF D, size, S
  <2>1. QED
    BY <1>2, <1>3, InductionBySize
<1>5. \A c \in Seq(Byte) : Framed[c] \in Found
  BY <1>4
<1>6. HasPacket(b) => Framed[After(b)] \in Found
  BY <1>5, FirstFacts
<1>7. ~HasPacket(b) => FramedStep(Framed, b).packets = << >> /\ FramedStep(Framed, b).rest = b
  BY DEF FramedStep
<1>8. Framed[b].packets \in Seq(Packet) /\ Framed[b].rest \in Seq(Byte)
  BY <1>5 DEF Found
<1>9. QED
  BY <1>1, <1>5, <1>6, <1>7, <1>8, FramedStepType

-----------------------------------------------------------------------------
(***************************************************************************)
(* What comes later does not change a packet that is complete, and what is *)
(* framed in two goes is framed as in one.                                 *)
(***************************************************************************)

LEMMA Longer ==
  ASSUME NEW a \in Seq(Byte), NEW b \in Seq(Byte), HasPacket(a)
  PROVE  /\ a \o b \in Seq(Byte) /\ HasPacket(a \o b)
         /\ First(a \o b) = First(a)
         /\ After(a \o b) = After(a) \o b
<1> DEFINE c == a \o b
           e == LengthEnd(a)
           t == Total(a)
<1>1. /\ Len(a) \in Nat \ {0} /\ Len(b) \in Nat
      /\ e \in 2..5 /\ t \in 2..Len(a) /\ e <= t
  BY HasPacketFacts, LenProperties
<1>2. /\ c \in Seq(Byte) /\ Len(c) = Len(a) + Len(b)
      /\ \A i \in 1..(Len(a) + Len(b)) : c[i] = IF i <= Len(a) THEN a[i] ELSE b[i - Len(a)]
  BY ConcatProperties
<1>3. EndsAt(a, e)
  BY <1>1, LengthEndFacts
<1> HIDE DEF c, e
<1>4. \A i \in 1..Len(a) : c[i] = a[i]
  BY <1>1, <1>2
<1>5. EndsAt(c, e)
  BY <1>1, <1>2, <1>3, <1>4 DEF EndsAt
<1>6. LengthEnd(c) = e
  BY <1>2, <1>5, LengthEndIs
<1>7. ASSUME NEW i \in 1..Len(a), NEW j \in 1..Len(a)
      PROVE  SubSeq(c, i, j) = SubSeq(a, i, j)
  BY SubSeqOfConcat1 DEF c
<1>8. SubSeq(c, 2, e) = SubSeq(a, 2, e)
  BY <1>1, <1>7
<1>9. Total(c) = t
  BY <1>6, <1>8 DEF Total, LengthOf, e
<1>10. HasPacket(c)
  <2>1. t <= Len(c) /\ e # 0
    BY <1>1, <1>2
  <2>2. QED
    BY <1>6, <1>9, <2>1 DEF HasPacket, Total
<1> HIDE DEF t
<1>11. SubSeq(c, e + 1, t) = SubSeq(a, e + 1, t)
  <2>1. CASE e = t
    <3>1. SubSeq(c, e + 1, t) = << >> /\ SubSeq(a, e + 1, t) = << >>
      BY <1>1, <2>1, SubSeqEmpty
    <3>2. QED
      BY <3>1
  <2>2. CASE e # t
    <3>1. e + 1 \in 1..Len(a) /\ t \in 1..Len(a)
      BY <1>1, <2>2
    <3>2. QED
      BY <3>1, <1>7
  <2>3. QED
    BY <2>1, <2>2
<1>12. First(c) = First(a)
  <2>1. c[1] = a[1]
    BY <1>1, <1>4
  <2>2. QED
    BY <2>1, <1>6, <1>9, <1>11 DEF First, e, t
<1>13. SubSeq(c, t + 1, Len(c)) = SubSeq(a, t + 1, Len(a)) \o b
  <2> DEFINE l == SubSeq(c, t + 1, Len(c))
             m == SubSeq(a, t + 1, Len(a))
             n == Len(c) - t
  <2>1. /\ l \in Seq(Byte) /\ Len(l) = n /\ n \in Nat
        /\ \A i \in 1..n : l[i] = c[t + i]
    <3>1. t + 1 \in Nat \ {0} /\ Len(c) \in 0..Len(c) /\ n \in Nat
      BY <1>1, <1>2
    <3>2. /\ l \in Seq(Byte) /\ Len(l) = IF t + 1 <= Len(c) THEN Len(c) - (t + 1) + 1 ELSE 0
          /\ \A i \in 1..(Len(c) - (t + 1) + 1) : l[i] = c[(t + 1) + i - 1]
      BY <1>2, <3>1, PieceFacts
    <3>3. QED
      BY <1>1, <1>2, <3>1, <3>2
  <2>2. /\ m \in Seq(Byte) /\ Len(m) = Len(a) - t
        /\ \A i \in 1..(Len(a) - t) : m[i] = a[t + i]
    <3>1. t + 1 \in Nat \ {0} /\ Len(a) \in 0..Len(a)
      BY <1>1
    <3>2. /\ m \in Seq(Byte) /\ Len(m) = IF t + 1 <= Len(a) THEN Len(a) - (t + 1) + 1 ELSE 0
          /\ \A i \in 1..(Len(a) - (t + 1) + 1) : m[i] = a[(t + 1) + i - 1]
      BY <3>1, PieceFacts
    <3>3. QED
      BY <1>1, <3>1, <3>2
  <2> HIDE DEF l, m
  <2>3. /\ m \o b \in Seq(Byte) /\ Len(m \o b) = Len(m) + Len(b)
        /\ \A i \in 1..(Len(m) + Len(b)) : (m \o b)[i] = IF i <= Len(m) THEN m[i] ELSE b[i - Len(m)]
    BY <2>2, ConcatProperties
  <2>4. Len(m \o b) = Len(l)
    BY <1>1, <1>2, <2>1, <2>2, <2>3
  <2>5. ASSUME NEW i \in 1..Len(l) PROVE l[i] = (m \o b)[i]
    <3>1. l[i] = c[t + i] /\ t + i \in 1..(Len(a) + Len(b))
      BY <1>1, <1>2, <2>1
    <3>2. i \in 1..(Len(m) + Len(b))
      BY <2>3, <2>4
    <3>3. CASE t + i <= Len(a)
      <4>1. i <= Len(m) /\ i \in 1..(Len(a) - t)
        BY <1>1, <2>2, <3>2, <3>3
      <4>2. l[i] = a[t + i] /\ m[i] = a[t + i]
        BY <1>2, <2>2, <3>1, <3>3, <4>1
      <4>3. (m \o b)[i] = m[i]
        BY <2>3, <3>2, <4>1
      <4>4. QED
        BY <4>2, <4>3
    <3>4. CASE ~(t + i <= Len(a))
      <4>1. ~(i <= Len(m)) /\ i - Len(m) = (t + i) - Len(a)
        BY <1>1, <2>2, <3>2, <3>4
      <4>2. l[i] = b[(t + i) - Len(a)]
        BY <1>2, <3>1, <3>4
      <4>3. (m \o b)[i] = b[i - Len(m)]
        BY <2>3, <3>2, <4>1
      <4>4. QED
        BY <4>1, <4>2, <4>3
    <3>5. QED
      BY <3>3, <3>4
  <2>6. l = m \o b
    BY <2>1, <2>3, <2>4, <2>5, SeqEqual
  <2>7. QED
    BY <2>6 DEF l, m
<1>14. After(c) = After(a) \o b
  BY <1>9, <1>13 DEF After, t
<1>15. QED
  BY <1>2, <1>10, <1>12, <1>14 DEF c

\* The packets of a, and then those of what a leaves together with b.
FramedInTwo(a, b) ==
    /\ Framed[a \o b].packets = Framed[a].packets \o Framed[Framed[a].rest \o b].packets
    /\ Framed[a \o b].rest = Framed[Framed[a].rest \o b].rest
    /\ ~HasPacket(Framed[a].rest)

LEMMA FramingInTwo == \A a, b \in Seq(Byte) : FramedInTwo(a, b)
<1> SUFFICES ASSUME NEW b \in Seq(Byte) PROVE \A a \in Seq(Byte) : FramedInTwo(a, b)
  OBVIOUS
<1> DEFINE D == Seq(Byte)
           size == [a \in D |-> Len(a)]
           S == {a \in D : FramedInTwo(a, b)}
<1>1. ASSUME NEW a \in D, \A k \in D : size[k] < size[a] => k \in S PROVE a \in S
  <2>1. CASE ~HasPacket(a)
    <3>1. Framed[a].packets = << >> /\ Framed[a].rest = a
      BY <2>1, FramedFacts
    <3>2. a \o b \in Seq(Byte)
      BY ConcatProperties
    <3>3. Framed[a \o b].packets \in Seq(Packet)
      BY <3>2, FramedFacts
    <3>4. << >> \o Framed[a \o b].packets = Framed[a \o b].packets
      BY <3>3, ConcatEmptySeq
    <3>5. QED
      BY <2>1, <3>1, <3>4 DEF FramedInTwo
  <2>2. CASE HasPacket(a)
    <3> DEFINE x == First(a)
               r == After(a)
               q == Framed[Framed[r].rest \o b]
    <3>1. x \in Packet /\ r \in Seq(Byte) /\ Len(r) < Len(a)
      BY <2>2, FirstFacts
    <3>2. FramedInTwo(r, b)
      BY <1>1, <3>1
    <3>3. /\ a \o b \in Seq(Byte) /\ HasPacket(a \o b)
          /\ First(a \o b) = x /\ After(a \o b) = r \o b
      BY <2>2, Longer
    <3>4. /\ Framed[a].packets = <<x>> \o Framed[r].packets
          /\ Framed[a].rest = Framed[r].rest
      BY <2>2, FramedFacts
    <3>5. /\ Framed[a \o b].packets = <<x>> \o Framed[r \o b].packets
          /\ Framed[a \o b].rest = Framed[r \o b].rest
      BY <3>3, FramedFacts
    <3>6. /\ Framed[r].packets \in Seq(Packet) /\ Framed[r].rest \in Seq(Byte)
          /\ <<x>> \in Seq(Packet)
      <4>1. Framed[r].packets \in Seq(Packet) /\ Framed[r].rest \in Seq(Byte)
        BY <3>1, FramedFacts
      <4> HIDE DEF x
      <4>2. <<x>> \in Seq(Packet)
        BY <3>1
      <4>3. QED
        BY <4>1, <4>2
    <3>7. q.packets \in Seq(Packet)
      <4>1. Framed[r].rest \o b \in Seq(Byte)
        BY <3>6, ConcatProperties
      <4>2. QED
        BY <4>1, FramedFacts
    <3>8. Framed[r \o b].packets = Framed[r].packets \o q.packets
      BY <3>2 DEF FramedInTwo
    <3>9. Framed[a \o b].packets = Framed[a].packets \o q.packets
      <4> DEFINE h == <<x>>
                 f == Framed[r].packets
                 g == q.packets
      <4>1. h \in Seq(Packet) /\ f \in Seq(Packet) /\ g \in Seq(Packet)
        BY <3>6, <3>7
      <4>2. Framed[a].packets = h \o f /\ Framed[a \o b].packets = h \o (f \o g)
        BY <3>4, <3>5, <3>8
      <4> HIDE DEF h, f, g
      <4>3. (h \o f) \o g = h \o (f \o g)
        BY <4>1, ConcatAssociative
      <4>4. QED
        BY <4>2, <4>3 DEF g
    <3>10. Framed[a \o b].rest = q.rest /\ ~HasPacket(Framed[a].rest)
      BY <3>2, <3>4, <3>5 DEF FramedInTwo
    <3>11. FramedInTwo(a, b)
      BY <3>4, <3>9, <3>10 DEF FramedInTwo
    <3>12. QED
      BY <3>11
  <2>3. QED
    BY <2>1, <2>2
<1>2. S \in SUBSET D /\ size \in [D -> Nat]
  BY LengthIsSize
<1>3. S = D
  <2> HIDE DEF D, size, S
  <2>1. QED
    BY <1>1, <1>2, InductionBySize
<1>4. QED
  BY <1>3

-----------------------------------------------------------------------------
(***************************************************************************)
(* A packet as it is written.                                              *)
(***************************************************************************)

LEMMA EncodedFacts ==
  ASSUME NEW p \in Packets
  PROVE  /\ p \in Packet /\ Encoded(p) \in Seq(Byte) /\ Encoded(p) # << >>
         /\ LengthEnd(Encoded(p)) # 0 /\ Total(Encoded(p)) = Len(Encoded(p))
         /\ First(Encoded(p)) = p
<1> DEFINE v == Varint[Len(p.body)]
           vb == v \o p.body
           e == Encoded(p)
           m == Len(p.body)
           n == Len(v)
           k == n + 1
<1>1. p \in Packet /\ p.head \in Byte /\ p.body \in Seq(Byte) /\ p.body \in Bodies
  BY HeadsAssumption, BodiesAssumption DEF Packets, Packet
<1>2. m \in Nat
  BY <1>1, LenProperties
<1>3. n <= 4
  BY <1>1, LengthAssumption DEF MaxDigits
<1>4. /\ v \in Seq(Byte) /\ n \in Nat /\ n >= 1
      /\ v[n] < Base /\ \A i \in 1..(n - 1) : v[i] >= Base
  BY <1>2, VarintIsMarked
<1>5. Value[v] = m
  BY <1>2, ValueOfVarint
<1> HIDE DEF v
<1>6. /\ vb \in Seq(Byte) /\ Len(vb) = n + m
      /\ \A i \in 1..(n + m) : vb[i] = IF i <= n THEN v[i] ELSE p.body[i - n]
  BY <1>1, <1>4, ConcatProperties
<1>7. e = <<p.head>> \o vb
  <2> DEFINE h == <<p.head>>
             d == p.body
  <2>1. h \in Seq(Byte) /\ d \in Seq(Byte)
    BY <1>1
  <2>2. e = (h \o v) \o d
    BY DEF Encoded, v
  <2> HIDE DEF h, d, e
  <2>3. (h \o v) \o d = h \o (v \o d)
    BY <1>4, <2>1, ConcatAssociative
  <2>4. QED
    BY <2>2, <2>3 DEF h, d
<1>8. /\ e \in Seq(Byte) /\ Len(e) = n + m + 1 /\ e # << >> /\ e[1] = p.head
      /\ \A i \in 1..(n + m) : e[i + 1] = vb[i]
  <2> HIDE DEF vb, e
  <2>1. /\ <<p.head>> \o vb \in Seq(Byte) /\ Len(<<p.head>> \o vb) = Len(vb) + 1
        /\ <<p.head>> \o vb # << >> /\ (<<p.head>> \o vb)[1] = p.head
        /\ \A i \in 1..Len(vb) : (<<p.head>> \o vb)[i + 1] = vb[i]
    BY <1>1, <1>6, TailOfConcat
  <2>2. QED
    BY <1>6, <1>7, <2>1
<1> HIDE DEF vb, e, m, n
<1>9. \A i \in 1..n : e[i + 1] = v[i]
  BY <1>2, <1>4, <1>6, <1>8
<1>10. \A i \in 1..m : e[i + n + 1] = p.body[i]
  <2>1. SUFFICES ASSUME NEW i \in 1..m PROVE e[i + n + 1] = p.body[i]
    OBVIOUS
  <2>2. n + i \in 1..(n + m) /\ ~(n + i <= n) /\ (n + i) - n = i /\ i + n + 1 = (n + i) + 1
    BY <1>2, <1>4
  <2>3. e[(n + i) + 1] = vb[n + i]
    BY <1>8, <2>2
  <2>4. vb[n + i] = p.body[i]
    BY <1>6, <2>2
  <2>5. QED
    BY <2>2, <2>3, <2>4
<1>11. EndsAt(e, k)
  <2>1. k \in 2..(1 + 4) /\ k <= n + m + 1
    BY <1>2, <1>3, <1>4
  <2>2. e[k] = v[n]
    BY <1>4, <1>9
  <2>3. ASSUME NEW i \in 2..(k - 1) PROVE e[i] >= Base
    <3>1. i - 1 \in 1..(n - 1) /\ i - 1 \in 1..n /\ (i - 1) + 1 = i
      BY <1>4
    <3>2. e[i] = v[i - 1]
      BY <1>9, <3>1
    <3>3. QED
      BY <1>4, <3>1, <3>2
  <2>4. QED
    BY <1>4, <1>8, <2>1, <2>2, <2>3 DEF EndsAt, MaxDigits
<1>12. LengthEnd(e) = k
  BY <1>8, <1>11, LengthEndIs
<1>13. SubSeq(e, 2, k) = v
  <2>1. k \in 0..(n + m + 1) /\ 2 <= k /\ k - 2 + 1 = n
    BY <1>2, <1>4
  <2>2. /\ SubSeq(e, 2, k) \in Seq(Byte)
        /\ Len(SubSeq(e, 2, k)) = n
        /\ \A i \in 1..n : SubSeq(e, 2, k)[i] = e[2 + i - 1]
    BY <1>8, <2>1, PieceFacts
  <2>3. \A i \in 1..n : 2 + i - 1 = i + 1
    BY <1>4
  <2>4. \A i \in 1..n : SubSeq(e, 2, k)[i] = v[i]
    BY <1>9, <2>2, <2>3
  <2>5. QED
    BY <1>4, <2>2, <2>4, SeqEqual DEF n
<1>14. Total(e) = n + m + 1
  <2>1. LengthOf(e) = m
    BY <1>5, <1>12, <1>13 DEF LengthOf
  <2>2. QED
    BY <1>2, <1>4, <1>12, <2>1 DEF Total
<1>15. SubSeq(e, k + 1, n + m + 1) = p.body
  <2> DEFINE b == SubSeq(e, k + 1, n + m + 1)
  <2>1. /\ k + 1 \in Nat \ {0} /\ n + m + 1 \in 0..(n + m + 1)
        /\ (n + m + 1) - (k + 1) + 1 = m
        /\ (IF k + 1 <= n + m + 1 THEN m ELSE 0) = m
    BY <1>2, <1>4
  <2>2. /\ b \in Seq(Byte) /\ Len(b) = m
        /\ \A i \in 1..m : b[i] = e[(k + 1) + i - 1]
    BY <1>8, <2>1, PieceFacts
  <2>3. \A i \in 1..m : (k + 1) + i - 1 = i + n + 1
    BY <1>2, <1>4
  <2> HIDE DEF b
  <2>4. \A i \in 1..m : b[i] = p.body[i]
    BY <1>10, <2>2, <2>3
  <2>5. b = p.body
    BY <1>1, <2>2, <2>4, SeqEqual DEF m
  <2>6. QED
    BY <2>5 DEF b
<1>16. First(e) = p
  <2>1. First(e) = [head |-> p.head, body |-> p.body]
    BY <1>8, <1>12, <1>14, <1>15 DEF First
  <2>2. QED
    BY <1>1, <2>1 DEF Packet
<1>17. LengthEnd(e) # 0
  BY <1>4, <1>12
<1>18. QED
  BY <1>1, <1>8, <1>14, <1>16, <1>17 DEF e

LEMMA NothingFramed ==
  /\ << >> \in Seq(Byte)
  /\ Framed[<< >>].packets = << >> /\ Framed[<< >>].rest = << >>
<1>1. << >> \in Seq(Byte) /\ Len(<< >>) = 0
  BY EmptySeq
<1>2. ~HasPacket(<< >>)
  BY <1>1, HasPacketFacts
<1>3. QED
  BY <1>1, <1>2, FramedFacts

\* A packet that is there as a whole is found.
LEMMA WholePacketIsFound ==
  ASSUME NEW p \in Packets
  PROVE  Framed[Encoded(p)].packets = <<p>> /\ Framed[Encoded(p)].rest = << >>
<1> DEFINE e == Encoded(p)
<1>1. /\ p \in Packet /\ e \in Seq(Byte)
      /\ LengthEnd(e) # 0 /\ Total(e) = Len(e) /\ First(e) = p
  BY EncodedFacts
<1>2. Len(e) \in Nat
  BY <1>1, LenProperties
<1> HIDE DEF e
<1>3. HasPacket(e)
  BY <1>1, <1>2 DEF HasPacket, Total
<1>4. After(e) = << >>
  BY <1>1, <1>2, SubSeqEmpty DEF After
<1>5. /\ Framed[e].packets = <<First(e)>> \o Framed[After(e)].packets
      /\ Framed[e].rest = Framed[After(e)].rest
  BY <1>1, <1>3, FramedFacts
<1>6. Framed[e].packets = <<p>> \o << >> /\ Framed[e].rest = << >>
  BY <1>1, <1>4, <1>5, NothingFramed
<1>7. <<p>> \o << >> = <<p>>
  BY <1>1, ConcatEmptySeq
<1>8. QED
  BY <1>6, <1>7 DEF e

\* Until it is there as a whole, nothing is.
LEMMA HalfAPacketIsNotFound ==
  ASSUME NEW p \in Packets, NEW a \in Seq(Byte), NEW b \in Seq(Byte),
         Encoded(p) = a \o b, b # << >>
  PROVE  Framed[a].packets = << >> /\ Framed[a].rest = a
<1> DEFINE e == Encoded(p)
           k == LengthEnd(e)
<1>1. e \in Seq(Byte) /\ k # 0 /\ Total(e) = Len(e)
  BY EncodedFacts
<1>2. /\ Len(a) \in Nat /\ Len(b) \in Nat \ {0} /\ Len(e) = Len(a) + Len(b)
      /\ \A i \in 1..(Len(a) + Len(b)) : e[i] = IF i <= Len(a) THEN a[i] ELSE b[i - Len(a)]
  BY LenProperties, EmptySeq, ConcatProperties
<1>3. SUFFICES ASSUME HasPacket(a) PROVE FALSE
  BY FramedFacts
<1>4. /\ HasPacket(a \o b) /\ First(a \o b) = First(a) /\ After(a \o b) = After(a) \o b
  BY <1>3, Longer
<1>5. After(e) = << >>
  BY <1>1, <1>2, SubSeqEmpty DEF After
<1>6. After(a) \in Seq(Byte)
  BY <1>3, FirstFacts
<1>7. After(a) \o b # << >>
  BY <1>2, <1>6, ConcatProperties, EmptySeq, LenProperties
<1>8. QED
  BY <1>4, <1>5, <1>7

-----------------------------------------------------------------------------
(***************************************************************************)
(* The inductive invariant.  While no packet was left half written, what   *)
(* the framer would find after the last whole packet is what the one       *)
(* thread that holds the lock has sent of its own, or nothing.             *)
(***************************************************************************)

\* What the framer would keep of the bytes on their way.
Fragment == Framed[buf \o wire].rest

WaitingIsWhole ==
    \A t \in Writers :
        writer[t].pc = "waiting" => writer[t].left = Encoded(writer[t].packet)

FragmentIsWritten ==
    ~torn =>
        /\ lock = None => Fragment = << >>
        /\ \A t \in Writers :
             writer[t].pc = "writing" =>
                 /\ Encoded(writer[t].packet) = Fragment \o writer[t].left
                 /\ writer[t].left # << >>

\* The session's thread is about nothing before it greets.
EngineIsFree == ~subscribed => writer[Engine].pc = "idle"

StreamInv ==
    /\ TypeOK
    /\ WaitingIsWhole
    /\ FragmentIsWritten
    /\ EngineIsFree

LEMMA BytesAssociate ==
  \A s, t, u \in Seq(Byte) : (s \o t) \o u = s \o (t \o u)
  BY ConcatAssociative

LEMMA WriterFacts ==
  ASSUME TypeOK, NEW t \in Writers
  PROVE  /\ writer[t].pc \in {"idle", "waiting", "writing", "stale"}
         /\ writer[t].pc \in {"waiting", "writing"} =>
              /\ writer[t] \in Writing /\ writer[t].packet \in Packets
              /\ writer[t].packet # None /\ writer[t].left \in Seq(Byte)
         /\ writer[t].pc \in {"idle", "stale"} => writer[t].packet = None
<1>1. writer[t] \in Writing \cup {NoPacket("idle"), NoPacket("stale")}
  BY DEF TypeOK
<1>2. CASE writer[t] \in Writing
  <2>1. /\ writer[t].pc \in {"waiting", "writing"} /\ writer[t].packet \in Packets
        /\ writer[t].left \in Seq(Byte)
    BY <1>2 DEF Writing
  <2>2. writer[t].packet # None
    BY <2>1, EncodedFacts, NoneAssumption
  <2>3. QED
    BY <1>2, <2>1, <2>2
<1>3. CASE writer[t] \in {NoPacket("idle"), NoPacket("stale")}
  BY <1>3 DEF NoPacket
<1>4. QED
  BY <1>1, <1>2, <1>3

LEMMA OnTheWayFacts ==
  ASSUME TypeOK
  PROVE  /\ buf \o wire \in Seq(Byte)
         /\ OnTheWay \in Seq(Packet) /\ Fragment \in Seq(Byte)
<1>1. buf \o wire \in Seq(Byte)
  BY ConcatProperties DEF TypeOK
<1>2. QED
  BY <1>1, FramedFacts DEF OnTheWay, Fragment

\* The first n of some bytes, and the others.
Start(s, n)  == SubSeq(s, 1, n)
Others(s, n) == SubSeq(s, n + 1, Len(s))

\* What n more bytes of a packet do to the packets on their way.
LEMMA PieceIsWritten ==
  ASSUME TypeOK, FragmentIsWritten, NEW t \in Writers, writer[t].pc = "writing",
         NEW n \in 1..Len(writer[t].left)
  PROVE  LET b == Others(writer[t].left, n)
             w == wire \o Start(writer[t].left, n)
         IN  /\ b \in Seq(Byte)
             /\ w \in Seq(Byte) /\ Len(w) = Len(wire) + n
             /\ \E q \in Seq(Packet) : Framed[buf \o w].packets = OnTheWay \o q
             /\ ~torn /\ b = << >> =>
                  /\ Framed[buf \o w].packets = Append(OnTheWay, writer[t].packet)
                  /\ Framed[buf \o w].rest = << >>
             /\ ~torn /\ b # << >> =>
                  /\ Framed[buf \o w].packets = OnTheWay
                  /\ Encoded(writer[t].packet) = Framed[buf \o w].rest \o b
<1> DEFINE l == writer[t].left
           a == Start(l, n)
           b == Others(l, n)
           p == writer[t].packet
           s == buf \o wire
           w == wire \o a
           f == Fragment
           q == Framed[f \o a].packets
<1>1. p \in Packets /\ l \in Seq(Byte) /\ buf \in Seq(Byte) /\ wire \in Seq(Byte)
  BY WriterFacts DEF TypeOK
<1>2. Len(l) \in Nat /\ n \in 0..Len(l)
  BY <1>1, LenProperties
<1>3. a \in Seq(Byte) /\ b \in Seq(Byte) /\ Len(a) = n /\ l = a \o b
  BY <1>1, <1>2, Split DEF Start, Others
<1> HIDE DEF a, b
<1>4. w \in Seq(Byte) /\ Len(w) = Len(wire) + n
  BY <1>1, <1>3, ConcatProperties
<1>5. s \in Seq(Byte) /\ OnTheWay \in Seq(Packet) /\ f \in Seq(Byte)
  BY OnTheWayFacts
<1>6. s \o a = buf \o w
  BY <1>1, <1>3, BytesAssociate
<1>7. f \o a \in Seq(Byte)
  BY <1>3, <1>5, ConcatProperties
<1>8. q \in Seq(Packet)
  BY <1>7, FramedFacts
<1>9. FramedInTwo(s, a)
  BY <1>3, <1>5, FramingInTwo
<1>10. /\ Framed[buf \o w].packets = OnTheWay \o q
       /\ Framed[buf \o w].rest = Framed[f \o a].rest
  BY <1>6, <1>9 DEF FramedInTwo, OnTheWay, Fragment
<1>11. ~torn => Encoded(p) = (f \o a) \o b
  <2> HIDE DEF f, l, p
  <2>1. SUFFICES ASSUME ~torn PROVE Encoded(p) = (f \o a) \o b
    OBVIOUS
  <2>2. Encoded(p) = f \o l
    BY <2>1 DEF FragmentIsWritten, f, l, p
  <2>3. (f \o a) \o b = f \o (a \o b)
    BY <1>3, <1>5, BytesAssociate
  <2>4. QED
    BY <1>3, <2>2, <2>3
<1> HIDE DEF f, l, p, w, s, q
<1>12. ASSUME ~torn, b = << >>
       PROVE  Framed[buf \o w].packets = Append(OnTheWay, p) /\ Framed[buf \o w].rest = << >>
  <2>1. f \o a = Encoded(p)
    BY <1>7, <1>11, <1>12, ConcatEmptySeq
  <2>2. q = <<p>> /\ Framed[f \o a].rest = << >>
    BY <1>1, <2>1, WholePacketIsFound DEF q
  <2>3. p \in Packet
    BY <1>1, EncodedFacts
  <2>4. Append(OnTheWay, p) = OnTheWay \o <<p>>
    BY <1>5, <2>3, AppendIsConcat
  <2>5. QED
    BY <1>10, <2>2, <2>4
<1>13. ASSUME ~torn, b # << >>
       PROVE  /\ Framed[buf \o w].packets = OnTheWay
              /\ Encoded(p) = Framed[buf \o w].rest \o b
  <2>1. q = << >> /\ Framed[f \o a].rest = f \o a
    BY <1>1, <1>3, <1>7, <1>11, <1>13, HalfAPacketIsNotFound DEF q
  <2>2. OnTheWay \o << >> = OnTheWay
    BY <1>5, ConcatEmptySeq
  <2>3. QED
    BY <1>10, <1>11, <1>13, <2>1, <2>2
<1>14. QED
  BY <1>3, <1>4, <1>8, <1>10, <1>12, <1>13 DEF w, p, l, a, b

\* What the client takes are the first of the packets on their way.
LEMMA PieceIsRead ==
  ASSUME TypeOK, NEW n \in 1..Len(wire)
  PROVE  LET w == Others(wire, n)
             c == Framed[buf \o Start(wire, n)]
         IN  /\ w \in Seq(Byte) /\ Len(w) <= Window
             /\ c.packets \in Seq(Packet) /\ c.rest \in Seq(Byte)
             /\ Framed[c.rest \o w].packets \in Seq(Packet)
             /\ OnTheWay = c.packets \o Framed[c.rest \o w].packets
             /\ Fragment = Framed[c.rest \o w].rest
<1> DEFINE a == Start(wire, n)
           w == Others(wire, n)
           c == buf \o a
<1>1. buf \in Seq(Byte) /\ wire \in Seq(Byte) /\ Len(wire) <= Window
  BY DEF TypeOK
<1>2. Len(wire) \in Nat /\ n \in 0..Len(wire) /\ Window \in Nat
  BY <1>1, LenProperties, BoundAssumption
<1>3. a \in Seq(Byte) /\ w \in Seq(Byte) /\ wire = a \o w /\ Len(w) = Len(wire) - n
  BY <1>1, <1>2, Split DEF Start, Others
<1> HIDE DEF a, w
<1>4. c \in Seq(Byte)
  BY <1>1, <1>3, ConcatProperties
<1>5. buf \o wire = c \o w
  <2>1. (buf \o a) \o w = buf \o (a \o w)
    BY <1>1, <1>3, BytesAssociate
  <2>2. QED
    BY <1>3, <2>1
<1> HIDE DEF c
<1>6. Framed[c].packets \in Seq(Packet) /\ Framed[c].rest \in Seq(Byte)
  BY <1>4, FramedFacts
<1>7. Framed[c].rest \o w \in Seq(Byte)
  BY <1>3, <1>6, ConcatProperties
<1>8. Framed[Framed[c].rest \o w].packets \in Seq(Packet)
  BY <1>7, FramedFacts
<1>9. FramedInTwo(c, w)
  BY <1>3, <1>4, FramingInTwo
<1>10. /\ OnTheWay = Framed[c].packets \o Framed[Framed[c].rest \o w].packets
       /\ Fragment = Framed[Framed[c].rest \o w].rest
  BY <1>5, <1>9 DEF FramedInTwo, OnTheWay, Fragment
<1>11. Len(w) <= Window
  BY <1>1, <1>2, <1>3
<1>12. QED
  BY <1>3, <1>6, <1>8, <1>10, <1>11 DEF a, w, c

LEMMA StreamInit == Init => StreamInv
<1> SUFFICES ASSUME Init PROVE StreamInv
  OBVIOUS
<1>1. /\ wire = << >> /\ buf = << >> /\ batch = << >> /\ lock = None
      /\ \A t \in Writers : writer[t] = NoPacket("idle")
      /\ writer = [t \in Writers |-> NoPacket("idle")]
  BY DEF Init
<1>2. << >> \in Seq(Byte) /\ << >> \in Seq(Packet) /\ Len(<< >>) = 0 /\ << >> \o << >> = << >>
  BY EmptySeq, ConcatEmptySeq
<1>3. Fragment = << >>
  BY <1>1, <1>2, NothingFramed DEF Fragment
<1>4. TypeOK
  <2>1. writer \in [Writers -> Writing \cup {NoPacket("idle"), NoPacket("stale")}]
    BY <1>1
  <2>2. \A t \in Writers : lock = t <=> writer[t].pc = "writing"
    BY <1>1, NoneAssumption DEF NoPacket
  <2>3. Len(wire) <= Window /\ 0 \in 0..MaxPackets
    BY <1>1, <1>2, BoundAssumption
  <2>4. QED
    BY <1>1, <1>2, <2>1, <2>2, <2>3 DEF Init, TypeOK
<1>5. WaitingIsWhole /\ FragmentIsWritten /\ EngineIsFree
  <2>1. Engine \in Writers
    BY DEF Writers
  <2>2. QED
    BY <1>1, <1>3, <2>1 DEF WaitingIsWhole, FragmentIsWritten, EngineIsFree, NoPacket
<1>6. QED
  BY <1>4, <1>5 DEF StreamInv

\* A thread that has a packet to write.
LEMMA Wanting ==
  ASSUME StreamInv, NEW t \in Writers, writer[t].pc = "idle", NEW p \in Packets, Want(t, p),
         UNCHANGED <<lock, wire, buf, batch, reading, torn>>,
         link' \in {"down", "connecting", "up"}, subscribed' = TRUE, count' \in 0..MaxPackets
  PROVE  /\ StreamInv'
         /\ writer' = [writer EXCEPT ![t] = [pc |-> "waiting", packet |-> p, left |-> Encoded(p)]]
<1> DEFINE r == [pc |-> "waiting", packet |-> p, left |-> Encoded(p)]
<1>1. writer' = [writer EXCEPT ![t] = r]
  BY DEF Want
<1>2. r \in Writing
  BY EncodedFacts DEF Writing
<1>3. /\ writer' \in [Writers -> Writing \cup {NoPacket("idle"), NoPacket("stale")}]
      /\ writer'[t] = r /\ \A u \in Writers : u # t => writer'[u] = writer[u]
  BY <1>1, <1>2 DEF StreamInv, TypeOK
<1>4. r.pc = "waiting" /\ r.packet = p /\ r.left = Encoded(p)
  OBVIOUS
<1> HIDE DEF r
<1>5. \A u \in Writers : lock' = u <=> writer'[u].pc = "writing"
  BY <1>3, <1>4 DEF StreamInv, TypeOK
<1>6. TypeOK'
  BY <1>3, <1>5 DEF StreamInv, TypeOK
<1>7. WaitingIsWhole'
  BY <1>3, <1>4 DEF StreamInv, WaitingIsWhole
<1>8. FragmentIsWritten'
  <2>1. Fragment' = Fragment
    BY DEF Fragment
  <2>2. QED
    BY <1>3, <1>4, <2>1 DEF StreamInv, FragmentIsWritten
<1>9. QED
  BY <1>1, <1>6, <1>7, <1>8 DEF StreamInv, EngineIsFree, r

\* The end of the connection.
LEMMA AllIsLost ==
  ASSUME StreamInv, Lost, reading' \in BOOLEAN
  PROVE  /\ StreamInv'
         /\ \A t \in Writers : writer'[t].packet = None
         /\ OnTheWay' = << >>
<1>1. /\ wire' = << >> /\ buf' = << >> /\ batch' = << >> /\ lock' = None
      /\ link' = "down" /\ torn' = FALSE /\ count' = 0 /\ subscribed' = FALSE
  BY DEF Lost
<1>2. << >> \in Seq(Byte) /\ << >> \in Seq(Packet) /\ Len(<< >>) = 0 /\ << >> \o << >> = << >>
  BY EmptySeq, ConcatEmptySeq
<1>3. \A t \in Writers : writer'[t] \in {NoPacket("idle"), NoPacket("stale")}
  BY DEF Lost
<1>4. writer' \in [Writers -> Writing \cup {NoPacket("idle"), NoPacket("stale")}]
  BY DEF Lost
<1>5. \A t \in Writers : writer'[t].pc \in {"idle", "stale"} /\ writer'[t].packet = None
  BY <1>3 DEF NoPacket
<1>6. writer'[Engine].pc = "idle"
  <2>1. writer'[Engine] = NoPacket("idle")
    BY DEF Lost, Writers
  <2>2. QED
    BY <2>1 DEF NoPacket
<1>7. Fragment' = << >> /\ OnTheWay' = << >>
  BY <1>1, <1>2, NothingFramed DEF Fragment, OnTheWay
<1>8. TypeOK'
  <2>1. \A t \in Writers : lock' = t <=> writer'[t].pc = "writing"
    BY <1>1, <1>5, NoneAssumption
  <2>2. Len(wire') <= Window /\ count' \in 0..MaxPackets
    BY <1>1, <1>2, BoundAssumption
  <2>3. QED
    BY <1>1, <1>2, <1>4, <2>1, <2>2 DEF TypeOK
<1>9. WaitingIsWhole' /\ FragmentIsWritten' /\ EngineIsFree'
  BY <1>5, <1>6, <1>7 DEF WaitingIsWhole, FragmentIsWritten, EngineIsFree
<1>10. QED
  BY <1>5, <1>7, <1>8, <1>9 DEF StreamInv

LEMMA AcquireStep ==
  ASSUME StreamInv, NEW t \in Writers, Acquire(t)
  PROVE  /\ StreamInv' /\ OnTheWay' = OnTheWay
         /\ \A u \in Writers : writer'[u].packet = writer[u].packet
<1>1. writer[t] \in Writing /\ writer[t].packet \in Packets /\ writer[t].left \in Seq(Byte)
  BY WriterFacts DEF Acquire, StreamInv
<1>2. writer' = [writer EXCEPT ![t].pc = "writing"]
  BY DEF Acquire
<1> DEFINE r == [writer[t] EXCEPT !.pc = "writing"]
<1>3. r \in Writing /\ r.pc = "writing" /\ r.packet = writer[t].packet /\ r.left = writer[t].left
  BY <1>1 DEF Writing
<1>4. /\ writer' \in [Writers -> Writing \cup {NoPacket("idle"), NoPacket("stale")}]
      /\ writer'[t] = r /\ \A u \in Writers : u # t => writer'[u] = writer[u]
  BY <1>2, <1>3 DEF StreamInv, TypeOK
<1> HIDE DEF r
<1>5. Fragment' = Fragment /\ OnTheWay' = OnTheWay
  BY DEF Acquire, Fragment, OnTheWay
<1>6. TypeOK'
  <2>1. \A u \in Writers : lock' = u <=> writer'[u].pc = "writing"
    BY <1>3, <1>4, NoneAssumption DEF Acquire, StreamInv, TypeOK
  <2>2. QED
    BY <1>4, <2>1 DEF Acquire, StreamInv, TypeOK
<1>7. WaitingIsWhole'
  BY <1>3, <1>4 DEF StreamInv, WaitingIsWhole
<1>8. FragmentIsWritten'
  <2>1. SUFFICES ASSUME ~torn, NEW u \in Writers, writer'[u].pc = "writing"
                 PROVE  /\ Encoded(writer'[u].packet) = Fragment \o writer'[u].left
                        /\ writer'[u].left # << >>
    BY <1>5, NoneAssumption DEF FragmentIsWritten, Acquire
  <2>2. u = t
    BY <1>4, <2>1, NoneAssumption DEF Acquire, StreamInv, TypeOK
  <2>3. writer'[u].left = Encoded(writer[t].packet) /\ writer'[u].packet = writer[t].packet
    BY <1>3, <1>4, <2>2 DEF StreamInv, WaitingIsWhole, Acquire
  <2>4. Fragment = << >>
    BY <2>1 DEF StreamInv, FragmentIsWritten, Acquire
  <2>5. << >> \o Encoded(writer[t].packet) = Encoded(writer[t].packet)
    BY <1>1, EncodedFacts, ConcatEmptySeq
  <2>6. Encoded(writer[t].packet) # << >>
    BY <1>1, EncodedFacts
  <2>7. QED
    BY <2>3, <2>4, <2>5, <2>6
<1>9. EngineIsFree'
  BY <1>4, <1>3 DEF Acquire, StreamInv, EngineIsFree
<1>10. QED
  BY <1>3, <1>4, <1>5, <1>6, <1>7, <1>8, <1>9 DEF StreamInv

\* A thread that is done with its packet, or was never heard.
LEMMA LettingGo ==
  ASSUME TypeOK, NEW t \in Writers, writer' = [writer EXCEPT ![t] = NoPacket("idle")]
  PROVE  /\ writer' \in [Writers -> Writing \cup {NoPacket("idle"), NoPacket("stale")}]
         /\ writer'[t].pc = "idle" /\ writer'[t].packet = None
         /\ \A u \in Writers : u # t => writer'[u] = writer[u]
<1>1. NoPacket("idle").pc = "idle" /\ NoPacket("idle").packet = None
  BY DEF NoPacket
<1>2. writer'[t] = NoPacket("idle") /\ \A u \in Writers : u # t => writer'[u] = writer[u]
  BY DEF TypeOK
<1>3. writer' \in [Writers -> Writing \cup {NoPacket("idle"), NoPacket("stale")}]
  BY DEF TypeOK
<1>4. QED
  BY <1>1, <1>2, <1>3

LEMMA WriteStep ==
  ASSUME StreamInv, NEW t \in Writers, Write(t)
  PROVE  StreamInv'
<1>1. PICK n \in 1..Len(writer[t].left) :
        /\ Len(wire) + n <= Window
        /\ wire' = wire \o Start(writer[t].left, n)
        /\ IF Others(writer[t].left, n) = << >>
             THEN writer' = [writer EXCEPT ![t] = NoPacket("idle")] /\ lock' = None
             ELSE /\ writer' = [writer EXCEPT ![t].left = Others(writer[t].left, n)]
                  /\ UNCHANGED lock
  BY DEF Write, Start, Others
<1>2. TypeOK /\ FragmentIsWritten /\ writer[t].pc = "writing" /\ t = lock
  BY DEF StreamInv, Write, TypeOK
<1>3. UNCHANGED <<link, subscribed, buf, batch, reading, torn, count>>
  BY DEF Write
<1> DEFINE a == Start(writer[t].left, n)
           b == Others(writer[t].left, n)
<1>4. /\ b \in Seq(Byte)
      /\ wire \o a \in Seq(Byte) /\ Len(wire \o a) = Len(wire) + n
      /\ ~torn /\ b = << >> => Framed[buf \o (wire \o a)].rest = << >>
      /\ ~torn /\ b # << >> =>
              Encoded(writer[t].packet) = Framed[buf \o (wire \o a)].rest \o b
  BY <1>2, PieceIsWritten
<1>5. wire' = wire \o a /\ Fragment' = Framed[buf \o (wire \o a)].rest
  BY <1>1, <1>3 DEF Fragment
<1> HIDE DEF a
<1>6. wire' \in Seq(Byte) /\ Len(wire') <= Window
  BY <1>1, <1>4, <1>5
<1>7. CASE b = << >>
  <2>1. writer' = [writer EXCEPT ![t] = NoPacket("idle")] /\ lock' = None
    BY <1>1, <1>7
  <2>2. /\ writer' \in [Writers -> Writing \cup {NoPacket("idle"), NoPacket("stale")}]
        /\ writer'[t].pc = "idle"
        /\ \A u \in Writers : u # t => writer'[u] = writer[u]
    BY <1>2, <2>1, LettingGo
  <2>3. \A u \in Writers : writer'[u].pc # "writing"
    BY <1>2, <2>2 DEF TypeOK
  <2>4. TypeOK'
    <3>1. \A u \in Writers : lock' = u <=> writer'[u].pc = "writing"
      BY <2>1, <2>3, NoneAssumption
    <3>2. lock' \in Writers \cup {None}
      BY <2>1
    <3>3. QED
      BY <1>2, <1>3, <1>6, <2>2, <3>1, <3>2 DEF TypeOK
  <2>5. WaitingIsWhole' /\ EngineIsFree'
    <3>1. WaitingIsWhole'
      BY <2>2 DEF StreamInv, WaitingIsWhole
    <3>2. EngineIsFree'
      BY <1>3, <2>2 DEF StreamInv, EngineIsFree, Writers
    <3>3. QED
      BY <3>1, <3>2
  <2>6. FragmentIsWritten'
    BY <1>3, <1>4, <1>5, <1>7, <2>1, <2>3 DEF FragmentIsWritten
  <2>7. QED
    BY <2>4, <2>5, <2>6 DEF StreamInv
<1>8. CASE b # << >>
  <2>1. writer' = [writer EXCEPT ![t].left = b] /\ lock' = lock
    BY <1>1, <1>8
  <2> DEFINE r == [writer[t] EXCEPT !.left = b]
  <2>2. writer[t] \in Writing
    BY <1>2, WriterFacts
  <2> HIDE DEF b
  <2>3. /\ r \in Writing /\ r.pc = "writing" /\ r.packet = writer[t].packet /\ r.left = b
    BY <1>2, <1>4, <2>2 DEF Writing
  <2>4. /\ writer' \in [Writers -> Writing \cup {NoPacket("idle"), NoPacket("stale")}]
        /\ writer'[t] = r /\ \A u \in Writers : u # t => writer'[u] = writer[u]
    BY <1>2, <2>1, <2>3 DEF TypeOK
  <2> HIDE DEF r
  <2>5. \A u \in Writers : lock' = u <=> writer'[u].pc = "writing"
    BY <1>2, <2>1, <2>3, <2>4 DEF TypeOK
  <2>6. TypeOK'
    <3>1. lock' \in Writers \cup {None}
      BY <1>2, <2>1 DEF TypeOK
    <3>2. QED
      BY <1>2, <1>3, <1>6, <2>4, <2>5, <3>1 DEF TypeOK
  <2>7. WaitingIsWhole' /\ EngineIsFree'
    <3>1. WaitingIsWhole'
      BY <2>3, <2>4 DEF StreamInv, WaitingIsWhole
    <3>2. EngineIsFree'
      BY <1>2, <1>3, <2>3, <2>4 DEF StreamInv, EngineIsFree, Writers
    <3>3. QED
      BY <3>1, <3>2
  <2>8. FragmentIsWritten'
    <3>1. SUFFICES ASSUME ~torn, NEW u \in Writers, writer'[u].pc = "writing"
                   PROVE  /\ Encoded(writer'[u].packet) = Fragment' \o writer'[u].left
                          /\ writer'[u].left # << >>
      BY <1>2, <1>3, <2>1, NoneAssumption DEF FragmentIsWritten
    <3>2. u = t
      BY <1>2, <2>1, <2>5, <3>1
    <3>3. Encoded(writer[t].packet) = Fragment' \o b
      BY <1>4, <1>5, <1>8, <3>1
    <3>4. QED
      BY <1>8, <2>3, <2>4, <3>2, <3>3
  <2>9. QED
    BY <2>6, <2>7, <2>8 DEF StreamInv
<1>9. QED
  BY <1>7, <1>8

LEMMA TimeOutStep ==
  ASSUME StreamInv, NEW t \in Writers, TimeOut(t)
  PROVE  StreamInv'
<1>1. TypeOK /\ writer[t].pc = "writing" /\ t = lock /\ reading' = reading
  BY DEF StreamInv, TypeOK, TimeOut
<1>2. CASE writer[t].packet.head # Publish
  BY <1>1, <1>2, AllIsLost DEF TimeOut, TypeOK
<1>3. CASE writer[t].packet.head = Publish
  <2>1. /\ writer' = [writer EXCEPT ![t] = NoPacket("idle")]
        /\ lock' = None
        /\ torn' = (torn \/ writer[t].left # Encoded(writer[t].packet))
        /\ UNCHANGED <<link, subscribed, wire, buf, batch, count>>
    BY <1>3 DEF TimeOut
  <2>2. /\ writer' \in [Writers -> Writing \cup {NoPacket("idle"), NoPacket("stale")}]
        /\ writer'[t].pc = "idle"
        /\ \A u \in Writers : u # t => writer'[u] = writer[u]
    BY <1>1, <2>1, LettingGo
  <2>3. \A u \in Writers : writer'[u].pc # "writing"
    BY <1>1, <2>2 DEF TypeOK
  <2>4. TypeOK'
    <3>1. torn' \in BOOLEAN
      BY <2>1
    <3>2. \A u \in Writers : lock' = u <=> writer'[u].pc = "writing"
      BY <2>1, <2>3, NoneAssumption
    <3>3. QED
      BY <1>1, <2>1, <2>2, <3>1, <3>2 DEF TypeOK
  <2>5. WaitingIsWhole' /\ EngineIsFree'
    BY <2>1, <2>2 DEF StreamInv, WaitingIsWhole, EngineIsFree
  <2>6. FragmentIsWritten'
    <3>1. SUFFICES ASSUME ~torn' PROVE Fragment = << >>
      BY <2>1, <2>3 DEF FragmentIsWritten, Fragment
    <3>2. ~torn /\ writer[t].left = Encoded(writer[t].packet)
      BY <2>1, <3>1
    <3>3. Encoded(writer[t].packet) = Fragment \o Encoded(writer[t].packet)
      BY <1>1, <3>2 DEF StreamInv, FragmentIsWritten
    <3>4. Encoded(writer[t].packet) \in Seq(Byte) /\ Fragment \in Seq(Byte)
      BY <1>1, WriterFacts, EncodedFacts, OnTheWayFacts
    <3>5. QED
      BY <3>3, <3>4, ConcatEqualIffEmpty
  <2>7. QED
    BY <2>4, <2>5, <2>6 DEF StreamInv
<1>4. QED
  BY <1>2, <1>3

LEMMA FailStep ==
  ASSUME StreamInv, NEW t \in Writers, Fail(t)
  PROVE  /\ StreamInv' /\ OnTheWay' = OnTheWay
         /\ \A u \in Writers : writer'[u].packet = writer[u].packet
<1>1. /\ TypeOK /\ writer[t].pc = "stale" /\ writer[t].packet = None
      /\ writer' = [writer EXCEPT ![t] = NoPacket("idle")]
      /\ UNCHANGED <<link, subscribed, lock, wire, buf, batch, reading, torn, count>>
  BY WriterFacts DEF StreamInv, Fail
<1>2. /\ writer' \in [Writers -> Writing \cup {NoPacket("idle"), NoPacket("stale")}]
      /\ writer'[t].pc = "idle" /\ writer'[t].packet = None
      /\ \A u \in Writers : u # t => writer'[u] = writer[u]
  BY <1>1, LettingGo
<1>3. Fragment' = Fragment /\ OnTheWay' = OnTheWay
  BY <1>1 DEF Fragment, OnTheWay
<1>4. \A u \in Writers : lock' = u <=> writer'[u].pc = "writing"
  BY <1>1, <1>2 DEF TypeOK
<1>5. TypeOK'
  BY <1>1, <1>2, <1>4 DEF TypeOK
<1>6. WaitingIsWhole' /\ EngineIsFree' /\ FragmentIsWritten'
  BY <1>1, <1>2, <1>3 DEF StreamInv, WaitingIsWhole, EngineIsFree, FragmentIsWritten
<1>7. QED
  BY <1>1, <1>2, <1>3, <1>5, <1>6 DEF StreamInv

LEMMA RecvStep ==
  ASSUME StreamInv, Recv
  PROVE  /\ StreamInv'
         /\ batch' \in Seq(Packet) /\ OnTheWay' \in Seq(Packet) /\ OnTheWay = batch' \o OnTheWay'
<1>1. PICK n \in 1..Len(wire) :
        /\ wire' = Others(wire, n)
        /\ buf' = Framed[buf \o Start(wire, n)].rest
        /\ batch' = Framed[buf \o Start(wire, n)].packets
        /\ link' \in {"up", link}
  BY DEF Recv, Push, Start, Others
<1>2. UNCHANGED <<subscribed, writer, lock, reading, torn, count>>
  BY DEF Recv
<1>3. /\ wire' \in Seq(Byte) /\ Len(wire') <= Window
      /\ batch' \in Seq(Packet) /\ buf' \in Seq(Byte)
      /\ Framed[buf' \o wire'].packets \in Seq(Packet)
      /\ OnTheWay = batch' \o Framed[buf' \o wire'].packets
      /\ Fragment = Framed[buf' \o wire'].rest
  BY <1>1, PieceIsRead DEF StreamInv
<1>4. Fragment' = Fragment /\ OnTheWay' = Framed[buf' \o wire'].packets
  BY <1>3 DEF Fragment, OnTheWay
<1>5. TypeOK'
  BY <1>1, <1>2, <1>3 DEF StreamInv, TypeOK
<1>6. WaitingIsWhole' /\ EngineIsFree' /\ FragmentIsWritten'
  BY <1>2, <1>4 DEF StreamInv, WaitingIsWhole, EngineIsFree, FragmentIsWritten
<1>7. QED
  BY <1>3, <1>4, <1>5, <1>6 DEF StreamInv

\* Packets that the threads write.
LEMMA PacketOf ==
  ASSUME NEW head \in {Connack, Puback, Publish}, NEW body \in Bodies
  PROVE  [head |-> head, body |-> body] \in Packets
  BY DEF Packets

LEMMA GreetStep ==
  ASSUME StreamInv, Greet
  PROVE  /\ StreamInv'
         /\ writer[Engine].packet = None
         /\ \E p \in Packets : Want(Engine, p)
<1>1. PICK body \in Bodies : Want(Engine, [head |-> Connack, body |-> body])
  BY DEF Greet
<1>2. [head |-> Connack, body |-> body] \in Packets
  BY PacketOf
<1>3. Engine \in Writers /\ writer[Engine].pc = "idle" /\ writer[Engine].packet = None
  BY WriterFacts DEF Greet, StreamInv, EngineIsFree, Writers
<1> DEFINE p == [head |-> Connack, body |-> body]
<1> HIDE DEF p
<1>4. UNCHANGED <<lock, wire, buf, batch, reading, torn>> /\ subscribed' = TRUE
  BY DEF Greet
<1>5. link' \in {"down", "connecting", "up"} /\ count' \in 0..MaxPackets
  BY DEF Greet, StreamInv, TypeOK
<1>6. p \in Packets /\ Want(Engine, p)
  BY <1>1, <1>2 DEF p
<1>7. StreamInv'
  BY <1>3, <1>4, <1>5, <1>6, Wanting
<1>8. QED
  BY <1>3, <1>6, <1>7

LEMMA OfferStep ==
  ASSUME StreamInv, NEW t \in Writers, Offer(t)
  PROVE  /\ StreamInv'
         /\ writer[t].packet = None
         /\ \E p \in Packets : Want(t, p)
<1>1. PICK head \in {Publish} \cup (IF t = Engine THEN {Puback} ELSE {}), body \in Bodies :
        Want(t, [head |-> head, body |-> body])
  BY DEF Offer
<1>2. head \in {Connack, Puback, Publish}
  OBVIOUS
<1>3. [head |-> head, body |-> body] \in Packets
  BY <1>2, PacketOf
<1>4. writer[t].pc = "idle" /\ writer[t].packet = None
  BY WriterFacts DEF Offer, StreamInv
<1> DEFINE p == [head |-> head, body |-> body]
<1> HIDE DEF p
<1>5. UNCHANGED <<lock, wire, buf, batch, reading, torn>> /\ subscribed' = TRUE
  BY DEF Offer, StreamInv, TypeOK
<1>6. link' \in {"down", "connecting", "up"} /\ count' \in 0..MaxPackets
  BY BoundAssumption DEF Offer, StreamInv, TypeOK
<1>7. p \in Packets /\ Want(t, p)
  BY <1>1, <1>3 DEF p
<1>8. StreamInv'
  BY <1>4, <1>5, <1>6, <1>7, Wanting
<1>9. QED
  BY <1>4, <1>7, <1>8

\* Steps that leave the threads and the bytes alone.
LEMMA IdleStep ==
  ASSUME StreamInv, Connect \/ Stall \/ UNCHANGED vars
  PROVE  StreamInv' /\ UNCHANGED <<writer, batch, torn>> /\ OnTheWay' = OnTheWay
<1>1. /\ UNCHANGED <<subscribed, writer, lock, wire, buf, batch, torn, count>>
      /\ link' \in {link, "connecting"} /\ reading' \in {reading, ~reading}
  BY DEF Connect, Stall, vars
<1>2. Fragment' = Fragment /\ OnTheWay' = OnTheWay
  BY <1>1 DEF Fragment, OnTheWay
<1>3. TypeOK'
  BY <1>1 DEF StreamInv, TypeOK
<1>4. WaitingIsWhole' /\ FragmentIsWritten' /\ EngineIsFree'
  BY <1>1, <1>2 DEF StreamInv, WaitingIsWhole, FragmentIsWritten, EngineIsFree
<1>5. QED
  BY <1>1, <1>2, <1>3, <1>4 DEF StreamInv

LEMMA StreamStep == StreamInv /\ [Next]_vars => StreamInv'
<1> SUFFICES ASSUME StreamInv, [Next]_vars PROVE StreamInv'
  OBVIOUS
<1>1. CASE Greet
  BY <1>1, GreetStep
<1>2. CASE Break
  BY <1>2, AllIsLost DEF Break, StreamInv, TypeOK
<1>3. CASE Connect \/ Stall \/ UNCHANGED vars
  BY <1>3, IdleStep
<1>4. CASE Recv
  BY <1>4, RecvStep
<1>5. ASSUME NEW t \in Writers, WriterStep(t) PROVE StreamInv'
  BY <1>5, OfferStep, AcquireStep, WriteStep, TimeOutStep, FailStep DEF WriterStep
<1>6. QED
  BY <1>1, <1>2, <1>3, <1>4, <1>5 DEF Next, SessionStep, ClientStep

\* In every reachable state.
THEOREM StreamInvariant == Spec => []StreamInv
<1>1. QED
  BY StreamInit, StreamStep, PTL DEF Spec

\* TypeOK, with the mutual exclusion of write_lock: whoever is in the midst of a write is the
\* one that holds it (mqtt_session.py).
THEOREM TypeCorrect == Spec => []TypeOK
<1>1. StreamInv => TypeOK
  BY DEF StreamInv
<1>2. QED
  BY <1>1, StreamInvariant, PTL

-----------------------------------------------------------------------------
(***************************************************************************)
(* The refinement: every step is one of the channel's, or none.            *)
(***************************************************************************)

Offered == [t \in Writers |-> writer[t].packet]

\* The packets on their way and what the threads offer are of the channel's.
LEMMA PrefixOfConcat ==
  ASSUME NEW s \in Seq(Packet), NEW q \in Seq(Packet)
  PROVE  Channel!IsPrefix(s, s \o q)
<1>1. /\ s \o q \in Seq(Packet) /\ Len(s \o q) = Len(s) + Len(q)
      /\ \A i \in 1..(Len(s) + Len(q)) :
           (s \o q)[i] = IF i <= Len(s) THEN s[i] ELSE q[i - Len(s)]
  BY ConcatProperties
<1>2. Len(s) \in Nat /\ Len(q) \in Nat
  BY LenProperties
<1>3. /\ SubSeq(s, 1, Len(s)) = s
      /\ SubSeq(s \o q, 1, Len(s)) \in Seq(Packet) /\ Len(SubSeq(s \o q, 1, Len(s))) = Len(s)
      /\ \A i \in 1..Len(s) : SubSeq(s \o q, 1, Len(s))[i] = (s \o q)[i]
  <2>1. Len(s) \in 0..Len(s \o q) /\ Len(s) \in 0..Len(s) /\ Len(s) - 1 + 1 = Len(s)
    BY <1>1, <1>2
  <2>2. /\ SubSeq(s \o q, 1, Len(s)) \in Seq(Packet) /\ Len(SubSeq(s \o q, 1, Len(s))) = Len(s)
        /\ \A i \in 1..Len(s) : SubSeq(s \o q, 1, Len(s))[i] = (s \o q)[1 + i - 1]
    BY <1>1, <1>2, <2>1, PieceFacts
  <2>3. \A i \in 1..Len(s) : 1 + i - 1 = i
    BY <1>2
  <2>4. QED
    BY <2>2, <2>3, SubSeqFull
<1>4. SubSeq(s \o q, 1, Len(s)) = s
  BY <1>1, <1>2, <1>3, SeqEqual
<1>5. QED
  BY <1>1, <1>2, <1>3, <1>4 DEF Channel!IsPrefix

LEMMA OfferedChanges ==
  ASSUME NEW t \in Writers, NEW x, writer'[t].packet = x,
         \A u \in Writers : u # t => writer'[u].packet = writer[u].packet
  PROVE  Offered' = [Offered EXCEPT ![t] = x]
  BY DEF Offered

LEMMA OfferedStays ==
  ASSUME \A u \in Writers : writer'[u].packet = writer[u].packet
  PROVE  Offered' = Offered
  BY DEF Offered

LEMMA WantIsOffered ==
  ASSUME StreamInv, NEW t \in Writers, writer[t].packet = None, NEW p \in Packets, Want(t, p),
         UNCHANGED <<wire, buf, batch, torn>>
  PROVE  Channel!Offer(t)
<1>1. writer' = [writer EXCEPT ![t] = [pc |-> "waiting", packet |-> p, left |-> Encoded(p)]]
  BY DEF Want
<1>2. writer'[t].packet = p /\ \A u \in Writers : u # t => writer'[u].packet = writer[u].packet
  BY <1>1 DEF StreamInv, TypeOK
<1>3. Offered' = [Offered EXCEPT ![t] = p]
  BY <1>2, OfferedChanges
<1>4. Offered[t] = None
  BY DEF Offered
<1>5. OnTheWay' = OnTheWay
  BY DEF OnTheWay
<1>6. QED
  BY <1>3, <1>4, <1>5 DEF Channel!Offer, Offered

\* The last piece of a packet is the packet accepted; after a tear, what comes with it is
\* anything.
LEMMA WriteIsAccepted ==
  ASSUME StreamInv, NEW t \in Writers, Write(t)
  PROVE  Channel!Accept(t) \/ Channel!Garble \/ UNCHANGED Channel!vars
<1>1. PICK n \in 1..Len(writer[t].left) :
        /\ wire' = wire \o Start(writer[t].left, n)
        /\ IF Others(writer[t].left, n) = << >>
             THEN writer' = [writer EXCEPT ![t] = NoPacket("idle")]
             ELSE writer' = [writer EXCEPT ![t].left = Others(writer[t].left, n)]
  BY DEF Write, Start, Others
<1>2. /\ TypeOK /\ FragmentIsWritten /\ writer[t].pc = "writing"
      /\ UNCHANGED <<buf, batch, torn>>
  BY DEF StreamInv, Write
<1> DEFINE b == Others(writer[t].left, n)
           w == wire \o Start(writer[t].left, n)
<1>3. /\ \E q \in Seq(Packet) : Framed[buf \o w].packets = OnTheWay \o q
      /\ ~torn /\ b = << >> => Framed[buf \o w].packets = Append(OnTheWay, writer[t].packet)
      /\ ~torn /\ b # << >> => Framed[buf \o w].packets = OnTheWay
  BY <1>2, PieceIsWritten
<1>4. OnTheWay' = Framed[buf \o w].packets
  BY <1>1, <1>2 DEF OnTheWay
<1> HIDE DEF b, w
<1>5. Channel!IsPrefix(OnTheWay, OnTheWay')
  BY <1>2, <1>3, <1>4, OnTheWayFacts, PrefixOfConcat
<1>6. CASE b = << >>
  <2>1. writer' = [writer EXCEPT ![t] = NoPacket("idle")]
    BY <1>1, <1>6 DEF b
  <2>2. writer'[t].packet = None /\ \A u \in Writers : u # t => writer'[u] = writer[u]
    BY <1>2, <2>1, LettingGo
  <2>3. Offered' = [Offered EXCEPT ![t] = None]
    BY <2>2, OfferedChanges
  <2>4. Offered[t] # None /\ Offered[t] = writer[t].packet
    BY <1>2, WriterFacts DEF Offered
  <2>5. IF torn THEN Channel!IsPrefix(OnTheWay, OnTheWay')
                ELSE OnTheWay' = Append(OnTheWay, Offered[t])
    BY <1>3, <1>4, <1>5, <1>6, <2>4
  <2>6. Channel!Accept(t)
    BY <1>2, <2>3, <2>4, <2>5 DEF Channel!Accept, Offered
  <2>7. QED
    BY <2>6
<1>7. CASE b # << >>
  <2>1. writer' = [writer EXCEPT ![t].left = b]
    BY <1>1, <1>7 DEF b
  <2>2. writer[t] \in Writing
    BY <1>2, WriterFacts
  <2>3. \A u \in Writers : writer'[u].packet = writer[u].packet
    BY <1>2, <2>1, <2>2 DEF TypeOK, Writing
  <2>4. Offered' = Offered
    BY <2>3, OfferedStays
  <2>5. CASE torn
    <3>1. Channel!Garble
      BY <1>2, <1>5, <2>4, <2>5 DEF Channel!Garble, Offered
    <3>2. QED
      BY <3>1
  <2>6. CASE ~torn
    <3>1. OnTheWay' = OnTheWay
      BY <1>3, <1>4, <1>7, <2>6
    <3>2. UNCHANGED Channel!vars
      BY <1>2, <2>4, <3>1 DEF Channel!vars, Offered
    <3>3. QED
      BY <3>2
  <2>7. QED
    BY <1>2, <2>5, <2>6 DEF TypeOK
<1>8. QED
  BY <1>6, <1>7

LEMMA LossIsReset ==
  ASSUME StreamInv, Lost, reading' \in BOOLEAN
  PROVE  Channel!Reset
<1>1. (\A t \in Writers : writer'[t].packet = None) /\ OnTheWay' = << >>
  BY AllIsLost
<1>2. Offered' = [t \in Writers |-> None]
  BY <1>1 DEF Offered
<1>3. batch' = << >> /\ torn' = FALSE
  BY DEF Lost
<1>4. QED
  BY <1>1, <1>2, <1>3 DEF Channel!Reset, Offered

\* A write that times out is given up; in the session it ends the connection.
LEMMA TimeOutIsGivenUp ==
  ASSUME StreamInv, NEW t \in Writers, TimeOut(t)
  PROVE  Channel!GiveUp(t) \/ Channel!Reset
<1>1. TypeOK /\ writer[t].pc = "writing" /\ reading' = reading /\ reading \in BOOLEAN
  BY DEF StreamInv, TypeOK, TimeOut
<1>2. CASE writer[t].packet.head # Publish
  BY <1>1, <1>2, LossIsReset DEF TimeOut
<1>3. CASE writer[t].packet.head = Publish
  <2>1. /\ writer' = [writer EXCEPT ![t] = NoPacket("idle")]
        /\ torn' = (torn \/ writer[t].left # Encoded(writer[t].packet))
        /\ UNCHANGED <<wire, buf, batch>>
    BY <1>3 DEF TimeOut
  <2>2. writer'[t].packet = None /\ \A u \in Writers : u # t => writer'[u] = writer[u]
    BY <1>1, <2>1, LettingGo
  <2>3. Offered' = [Offered EXCEPT ![t] = None]
    BY <2>2, OfferedChanges
  <2>4. Offered[t] # None
    BY <1>1, WriterFacts DEF Offered
  <2>5. OnTheWay' = OnTheWay
    BY <2>1 DEF OnTheWay
  <2>6. torn' \in {torn, TRUE}
    BY <1>1, <2>1 DEF TypeOK
  <2>7. Channel!GiveUp(t)
    BY <2>1, <2>3, <2>4, <2>5, <2>6 DEF Channel!GiveUp, Offered
  <2>8. QED
    BY <2>7
<1>4. QED
  BY <1>2, <1>3

\* What the framer hands over is what the client takes.
LEMMA RecvIsTaken ==
  ASSUME StreamInv, Recv
  PROVE  Channel!Take
<1>1. /\ batch' \in Seq(Packet) /\ OnTheWay' \in Seq(Packet)
      /\ OnTheWay = batch' \o OnTheWay'
  BY RecvStep
<1> DEFINE n == Len(batch')
           s == OnTheWay
<1>2. n \in Nat /\ Len(OnTheWay') \in Nat /\ Len(s) = n + Len(OnTheWay') /\ s \in Seq(Packet)
  BY <1>1, LenProperties, ConcatProperties
<1>3. \A i \in 1..Len(s) : s[i] = IF i <= n THEN batch'[i] ELSE OnTheWay'[i - n]
  BY <1>1, <1>2, ConcatProperties
<1> HIDE DEF s
<1>4. n \in 0..Len(s)
  BY <1>2
<1>5. /\ SubSeq(s, 1, n) \in Seq(Packet) /\ Len(SubSeq(s, 1, n)) = n
      /\ SubSeq(s, n + 1, Len(s)) \in Seq(Packet)
      /\ Len(SubSeq(s, n + 1, Len(s))) = Len(s) - n
      /\ \A i \in 1..n : SubSeq(s, 1, n)[i] = s[i]
      /\ \A i \in 1..(Len(s) - n) : SubSeq(s, n + 1, Len(s))[i] = s[n + i]
  <2>1. /\ n - 1 + 1 = n /\ n + 1 \in Nat \ {0} /\ Len(s) \in 0..Len(s)
        /\ Len(s) - (n + 1) + 1 = Len(s) - n
    BY <1>2
  <2>2. \A i \in 1..n : SubSeq(s, 1, n)[i] = s[1 + i - 1] /\ 1 + i - 1 = i
    BY <1>2, <1>4, <2>1, PieceFacts
  <2>3. \A i \in 1..(Len(s) - n) :
          SubSeq(s, n + 1, Len(s))[i] = s[(n + 1) + i - 1] /\ (n + 1) + i - 1 = n + i
    BY <1>2, <2>1, PieceFacts
  <2>4. QED
    BY <1>2, <1>4, <2>2, <2>3, Split
<1>6. batch' = SubSeq(s, 1, n)
  BY <1>1, <1>2, <1>3, <1>5, SeqEqual
<1>7. OnTheWay' = SubSeq(s, n + 1, Len(s))
  <2>1. Len(s) - n = Len(OnTheWay')
    BY <1>2
  <2>2. ASSUME NEW i \in 1..Len(OnTheWay') PROVE SubSeq(s, n + 1, Len(s))[i] = OnTheWay'[i]
    <3>1. n + i \in 1..Len(s) /\ ~(n + i <= n) /\ (n + i) - n = i
      BY <1>2
    <3>2. s[n + i] = OnTheWay'[i]
      BY <1>3, <3>1
    <3>3. QED
      BY <1>5, <2>1, <3>2
  <2>3. QED
    BY <1>1, <1>5, <2>1, <2>2, SeqEqual
<1>8. Offered' = Offered /\ torn' = torn
  BY DEF Recv, Offered
<1>9. QED
  BY <1>4, <1>6, <1>7, <1>8 DEF Channel!Take, s, Offered

LEMMA ChannelInit == Init => Channel!Init
<1> SUFFICES ASSUME Init PROVE Channel!Init
  OBVIOUS
<1>1. \A t \in Writers : writer[t].packet = None
  BY DEF Init, NoPacket
<1>2. Offered = [t \in Writers |-> None]
  BY <1>1 DEF Offered
<1>3. wire = << >> /\ buf = << >> /\ << >> \o << >> = << >>
  BY EmptySeq, ConcatEmptySeq DEF Init
<1>4. OnTheWay = << >>
  BY <1>3, NothingFramed DEF OnTheWay
<1>5. QED
  BY <1>2, <1>4 DEF Channel!Init, Init, Offered

LEMMA ChannelStep == StreamInv /\ [Next]_vars => [Channel!Next]_(Channel!vars)
<1> SUFFICES ASSUME StreamInv, [Next]_vars PROVE Channel!Next \/ UNCHANGED Channel!vars
  OBVIOUS
<1>1. CASE Greet
  <2>1. Engine \in Writers /\ UNCHANGED <<wire, buf, batch, torn>>
    BY <1>1 DEF Writers, Greet
  <2>2. Channel!Offer(Engine)
    BY <1>1, <2>1, GreetStep, WantIsOffered
  <2>3. QED
    BY <2>1, <2>2 DEF Channel!Next
<1>2. CASE Break
  <2>1. Channel!Reset
    BY <1>2, LossIsReset DEF Break, StreamInv, TypeOK
  <2>2. QED
    BY <2>1 DEF Channel!Next
<1>3. CASE Connect \/ Stall \/ UNCHANGED vars
  <2>1. UNCHANGED <<writer, batch, torn>> /\ OnTheWay' = OnTheWay
    BY <1>3, IdleStep
  <2>2. QED
    BY <2>1 DEF Channel!vars
<1>4. CASE Recv
  BY <1>4, RecvIsTaken DEF Channel!Next
<1>5. ASSUME NEW t \in Writers, WriterStep(t) PROVE Channel!Next \/ UNCHANGED Channel!vars
  <2>1. CASE Offer(t)
    <3>1. UNCHANGED <<wire, buf, batch, torn>>
      BY <2>1 DEF Offer
    <3>2. Channel!Offer(t)
      BY <2>1, <3>1, OfferStep, WantIsOffered
    <3>3. QED
      BY <3>2 DEF Channel!Next
  <2>2. CASE Acquire(t) \/ Fail(t)
    <3>1. OnTheWay' = OnTheWay /\ \A u \in Writers : writer'[u].packet = writer[u].packet
      BY <2>2, AcquireStep, FailStep
    <3>2. Offered' = Offered
      BY <3>1, OfferedStays
    <3>3. UNCHANGED <<batch, torn>>
      BY <2>2 DEF Acquire, Fail
    <3>4. QED
      BY <3>1, <3>2, <3>3 DEF Channel!vars, Offered
  <2>3. CASE Write(t)
    BY <2>3, WriteIsAccepted DEF Channel!Next
  <2>4. CASE TimeOut(t)
    BY <2>4, TimeOutIsGivenUp DEF Channel!Next
  <2>5. QED
    BY <1>5, <2>1, <2>2, <2>3, <2>4 DEF WriterStep
<1>6. QED
  BY <1>1, <1>2, <1>3, <1>4, <1>5 DEF Next, SessionStep, ClientStep

\* Packets arrive whole, in order and once, until a write ends half way; and what was accepted
\* before is not spoiled by it (mqtt_session.py's send under its lock, TapBus.publish,
\* Framer.push).
THEOREM StreamIsChannel == Spec => IsChannel
<1>1. QED
  BY StreamInvariant, ChannelInit, ChannelStep, PTL DEF Spec, IsChannel, Channel!Spec
=============================================================================
