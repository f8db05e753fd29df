------------------------ MODULE ProgramImage_proofs ------------------------
(***************************************************************************)
(* Theorems about ProgramImage, for every set of jobs, every value and     *)
(* operand of them, every program of at most 4096 words, every size of a   *)
(* HEX record and every number of faults: words are 32 bits and the hart's *)
(* x0 is 0, every encoded word is decoded as what was meant, an image that *)
(* is accepted is the program that was built, and a hart that has run the  *)
(* load of a constant holds that constant.                                 *)
(*                                                                         *)
(* The argument, from the bottom up: numbers and their bits; what the      *)
(* encoder puts where and what the decode table makes of it, class by      *)
(* class; the shipped programs are lines the encoder knows; the reference  *)
(* hart keeps its types; bytes and words; checksums; the lines of a HEX    *)
(* file, what one of them does and what a spoilt one does; and then the    *)
(* invariant, action by action.  The last part is the load of a constant:  *)
(* what a word is worth by its halves, the two parts LoadImm32 makes of a  *)
(* value, the pc counted in words, and one step of the hart after another. *)
(***************************************************************************)
EXTENDS ProgramImage, SequenceTheorems, FiniteSetTheorems, WellFoundedInduction, TLAPS

-----------------------------------------------------------------------------
(* Induction over the naturals, on a set of numbers: what the library's     *)
(* schemas say of an operator, for a set the provers can be given.          *)
Precedes == {ss \in Nat \X Nat : ss[1] < ss[2]}

LEMMA PrecedesIsWellFounded == IsWellFoundedOn(Precedes, Nat)
  BY NatLessThanWellFounded DEF OpToRel, Precedes

LEMMA LeastOf ==
    ASSUME NEW T, T \subseteq Nat, T # {}
    PROVE  \E x \in T : \A y \in T : x <= y
  <1>1. PICK x \in T : \A y \in T : ~(<<y, x>> \in Precedes)
    BY PrecedesIsWellFounded, WFMin
  <1>2. \A y \in T : ~(y < x)
    BY <1>1 DEF Precedes
  <1> QED BY <1>2

LEMMA Counting ==
    ASSUME NEW X, 0 \in X, \A n \in Nat : n \in X => n + 1 \in X
    PROVE  Nat \subseteq X
  <1> SUFFICES ASSUME Nat \ X # {} PROVE FALSE
    OBVIOUS
  <1>1. PICK x \in Nat \ X : \A y \in Nat \ X : x <= y
    BY LeastOf
  <1>2. x # 0 /\ x - 1 \in Nat
    BY <1>1
  <1>3. x - 1 \in X
    BY <1>1, <1>2
  <1> QED BY <1>1, <1>2, <1>3

(* A recursion over the positions of a sequence has a solution, and it stays *)
(* in the set its steps stay in.                                             *)
Solves(v, base, step, n) ==
    v = [k \in 0..n |-> IF k = 0 THEN base ELSE step[k][v[k - 1]]]

LEMMA SolvesAt ==
    ASSUME NEW n \in Nat, NEW base, NEW step, NEW v, Solves(v, base, step, n)
    PROVE  v[0] = base /\ \A k \in 1..n : v[k] = step[k][v[k - 1]]
  BY DEF Solves

LEMMA Solution ==
    ASSUME NEW D, NEW base \in D, NEW M \in Nat, NEW step \in [1..M -> [D -> D]]
    PROVE  \A n \in 0..M : \E v \in [0..n -> D] : Solves(v, base, step, n)
  <1> DEFINE X == {n \in Nat : n <= M => \E v \in [0..n -> D] : Solves(v, base, step, n)}
  <1>1. 0 \in X
    <2> DEFINE v == [k \in 0..0 |-> base]
    <2>1. v = [k \in 0..0 |-> IF k = 0 THEN base ELSE step[k][v[k - 1]]]
      OBVIOUS
    <2>2. v \in [0..0 -> D] /\ Solves(v, base, step, 0)
      BY <2>1 DEF Solves
    <2> QED BY <2>2
  <1>2. ASSUME NEW n \in Nat, n \in X
        PROVE  n + 1 \in X
    <2> SUFFICES ASSUME n + 1 <= M
                 PROVE  \E v \in [0..(n + 1) -> D] : Solves(v, base, step, n + 1)
      OBVIOUS
    <2>1. PICK v \in [0..n -> D] : Solves(v, base, step, n)
      BY <1>2
    <2>2. \A k \in 0..n : v[k] = IF k = 0 THEN base ELSE step[k][v[k - 1]]
      BY <2>1 DEF Solves
    <2> DEFINE more == [k \in 0..(n + 1) |-> IF k <= n THEN v[k] ELSE step[n + 1][v[n]]]
               next == [k \in 0..(n + 1) |-> IF k = 0 THEN base ELSE step[k][more[k - 1]]]
    <2>3. ASSUME NEW k \in 0..(n + 1)
          PROVE  more[k] = next[k] /\ more[k] \in D
      <3>1. CASE k = 0
        BY <2>2, <3>1
      <3>2. CASE k \in 1..n
        <4>1. more[k] = v[k] /\ more[k - 1] = v[k - 1]
          BY <3>2
        <4>2. next[k] = step[k][v[k - 1]] /\ v[k] = step[k][v[k - 1]] /\ v[k] \in D
          BY <2>2, <3>2, <4>1
        <4> QED BY <4>1, <4>2
      <3>3. CASE k = n + 1
        <4>1. more[k] = step[n + 1][v[n]] /\ more[k - 1] = v[n]
          BY <3>3
        <4>2. next[k] = step[k][v[n]]
          BY <3>3, <4>1
        <4>3. v[n] \in D /\ step[n + 1] \in [D -> D]
          BY <2>1
        <4> QED BY <3>3, <4>1, <4>2, <4>3
      <3> QED BY <3>1, <3>2, <3>3
    <2>4. more = next /\ more \in [0..(n + 1) -> D]
      BY <2>3
    <2>5. Solves(more, base, step, n + 1)
      BY <2>4 DEF Solves
    <2> QED BY <2>4, <2>5
  <1> HIDE DEF X
  <1>3. Nat \subseteq X
    BY <1>1, <1>2, Counting
  <1> QED BY <1>3 DEF X
------------------------------------------------------------------------------
(* Words, one bit after the other.                                           *)
Bit == {0, 1}
Bits32 == [1..32 -> Bit]

(* The provers compute a power of literals, and no other.                    *)
IsPower(k, p) ==
    /\ (k = 0 => p = 2^0) /\ (k = 1 => p = 2^1) /\ (k = 2 => p = 2^2) /\ (k = 3 => p = 2^3)
    /\ (k = 4 => p = 2^4) /\ (k = 5 => p = 2^5) /\ (k = 6 => p = 2^6) /\ (k = 7 => p = 2^7)
    /\ (k = 8 => p = 2^8) /\ (k = 9 => p = 2^9) /\ (k = 10 => p = 2^10) /\ (k = 11 => p = 2^11)
    /\ (k = 12 => p = 2^12) /\ (k = 13 => p = 2^13) /\ (k = 14 => p = 2^14) /\ (k = 15 => p = 2^15)
    /\ (k = 16 => p = 2^16) /\ (k = 17 => p = 2^17) /\ (k = 18 => p = 2^18) /\ (k = 19 => p = 2^19)
    /\ (k = 20 => p = 2^20) /\ (k = 21 => p = 2^21) /\ (k = 22 => p = 2^22) /\ (k = 23 => p = 2^23)
    /\ (k = 24 => p = 2^24) /\ (k = 25 => p = 2^25) /\ (k = 26 => p = 2^26) /\ (k = 27 => p = 2^27)
    /\ (k = 28 => p = 2^28) /\ (k = 29 => p = 2^29) /\ (k = 30 => p = 2^30) /\ (k = 31 => p = 2^31)

LEMMA Powers ==
    ASSUME NEW k
    PROVE  IsPower(k, 2^k)
  BY Zenon DEF IsPower

(* The weight of bit k, up to the sign bit.                                  *)
LEMMA Weights ==
    ASSUME NEW k \in 0..31
    PROVE  2^k \in Nat /\ 2^k > 0
  <1> DEFINE p == 2^k
  <1>1. IsPower(k, p)
    BY Powers, Zenon
  <1> HIDE DEF p
  <1>2. \/ k \in {0, 1, 2, 3, 4, 5, 6, 7} \/ k \in {8, 9, 10, 11, 12, 13, 14, 15}
        \/ k \in {16, 17, 18, 19, 20, 21, 22, 23} \/ k \in {24, 25, 26, 27, 28, 29, 30, 31}
    OBVIOUS
  <1>3. p \in Nat /\ p > 0
    BY <1>1, <1>2 DEF IsPower
  <1> QED BY <1>3 DEF p

LEMMA Doubling ==
    ASSUME NEW k \in 0..30
    PROVE  2^(k + 1) = 2 * 2^k
  <1> DEFINE p == 2^k
             j == k + 1
             r == 2^j
  <1>1. IsPower(k, p) /\ IsPower(j, r)
    BY Powers, Zenon
  <1>2. j = k + 1
    OBVIOUS
  <1> HIDE DEF p, r, j
  <1>3. \/ k \in {0, 1, 2, 3, 4, 5, 6, 7} \/ k \in {8, 9, 10, 11, 12, 13, 14, 15}
        \/ k \in {16, 17, 18, 19, 20, 21, 22, 23} \/ k \in {24, 25, 26, 27, 28, 29, 30}
    OBVIOUS
  <1>4. r = 2 * p
    BY <1>1, <1>2, <1>3 DEF IsPower
  <1> QED BY <1>4 DEF p, r, j

(* One more binary digit of a number.                                        *)
LEMMA Digit ==
    ASSUME NEW v \in Int, NEW k \in 0..30
    PROVE  v % 2^(k + 1) = (v % 2^k) + ((v \div 2^k) % 2) * 2^k
  <1> DEFINE m == 2^k
             q == v \div m
             r == v % m
  <1>1. m \in Nat /\ m > 0 /\ 2^(k + 1) = 2 * m
    <2>1. k \in 0..31
      OBVIOUS
    <2> QED BY <2>1, Weights, Doubling
  <1> HIDE DEF m
  <1>2. q \in Int /\ r \in 0..(m - 1) /\ v = m * q + r
    BY <1>1
  <1> HIDE DEF q, r
  <1> DEFINE h == q \div 2
             b == q % 2
  <1>3. h \in Int /\ b \in 0..1 /\ q = 2 * h + b
    BY <1>2
  <1> HIDE DEF h, b
  <1>4. v = (2 * m) * h + (b * m + r)
    <2>1. m * (2 * h + b) = (2 * m) * h + b * m
      BY <1>1, <1>3
    <2> QED BY <1>1, <1>2, <1>3, <2>1
  <1>5. b * m + r \in 0..(2 * m - 1)
    <2>1. CASE b = 0
      BY <1>1, <1>2, <2>1
    <2>2. CASE b = 1
      BY <1>1, <1>2, <2>2
    <2> QED BY <1>3, <2>1, <2>2
  <1>6. v % (2 * m) = b * m + r
    <2> DEFINE M == 2 * m
               s == b * m + r
    <2>1. M \in Nat /\ M > 0 /\ s \in 0..(M - 1) /\ v = M * h + s /\ h \in Int
      BY <1>1, <1>3, <1>4, <1>5
    <2> HIDE DEF M, s
    <2>2. v % M = s
      BY <2>1
    <2> QED BY <2>2 DEF M, s
  <1> QED BY <1>1, <1>2, <1>3, <1>6 DEF m, q, r, h, b

-----------------------------------------------------------------------------
BitSeq(n) == [1..n -> Bit]

LEMMA BitSeqIsSeq ==
    ASSUME NEW n \in Nat, NEW s \in BitSeq(n)
    PROVE  s \in Seq(Bit) /\ Len(s) = n /\ \A k \in 1..n : s[k] \in Bit
  BY DEF BitSeq

LEMMA BitSeqEqual ==
    ASSUME NEW n \in Nat, NEW s \in BitSeq(n), NEW t \in BitSeq(n), \A k \in 1..n : s[k] = t[k]
    PROVE  s = t
  BY DEF BitSeq

(* A slice of a number is bits, a part of a word is bits, and so are two      *)
(* pieces put together.                                                      *)
LEMMA SliceBits ==
    ASSUME NEW v \in Int, NEW lo \in Nat, NEW n \in Nat, lo + n <= 32
    PROVE  /\ Slice(v, lo, n) \in BitSeq(n)
           /\ \A k \in 1..n : Slice(v, lo, n)[k] = (v \div 2^(lo + k - 1)) % 2
  <1>1. ASSUME NEW k \in 1..n
        PROVE  (v \div 2^(lo + k - 1)) % 2 \in Bit
    <2> DEFINE p == 2^(lo + k - 1)
    <2>1. lo + k - 1 \in 0..31
      OBVIOUS
    <2>2. p \in Nat /\ p > 0
      BY <2>1, Weights, Zenon
    <2> HIDE DEF p
    <2>3. (v \div p) \in Int
      BY <2>2
    <2>4. (v \div p) % 2 \in Bit
      BY <2>3 DEF Bit
    <2> QED BY <2>4 DEF p
  <1> QED BY <1>1, Zenon DEF Slice, BitSeq

LEMMA LowBits ==
    ASSUME NEW v \in Int, NEW n \in 0..32
    PROVE  /\ Low(v, n) \in BitSeq(n)
           /\ \A k \in 1..n : Low(v, n)[k] = (v \div 2^(k - 1)) % 2
  <1>1. n \in Nat /\ 0 + n <= 32
    OBVIOUS
  <1>2. \A k \in 1..n : 0 + k - 1 = k - 1
    OBVIOUS
  <1>3. /\ Slice(v, 0, n) \in BitSeq(n)
        /\ \A k \in 1..n : Slice(v, 0, n)[k] = (v \div 2^(0 + k - 1)) % 2
    BY <1>1, SliceBits, Zenon
  <1> QED BY <1>2, <1>3, Zenon DEF Low

LEMMA PartBits ==
    ASSUME NEW w \in Bits32, NEW lo \in 0..31, NEW hi \in lo..31
    PROVE  /\ Bits(w, hi, lo) \in BitSeq(hi - lo + 1)
           /\ \A k \in 1..(hi - lo + 1) : Bits(w, hi, lo)[k] = w[lo + k]
  <1> DEFINE n == hi - lo + 1
             p == SubSeq(w, lo + 1, hi + 1)
  <1>1. \A i \in (lo + 1)..(hi + 1) : w[i] \in Bit
    BY DEF Bits32
  <1>2. n \in Nat /\ (hi + 1) - (lo + 1) + 1 = n /\ lo + 1 <= hi + 1 /\ lo + 1 \in Int /\ hi + 1 \in Int
    OBVIOUS
  <1>3. p \in Seq(Bit) /\ Len(p) = n /\ \A k \in 1..n : p[k] = w[(lo + 1) + k - 1]
    BY <1>1, <1>2, SubSeqProperties
  <1>4. \A k \in 1..n : (lo + 1) + k - 1 = lo + k
    OBVIOUS
  <1>5. p \in BitSeq(n)
    BY <1>3, LenProperties, Zenon DEF BitSeq
  <1> QED BY <1>3, <1>4, <1>5 DEF Bits

LEMMA JoinBits ==
    ASSUME NEW m \in Nat, NEW n \in Nat, NEW a \in BitSeq(m), NEW b \in BitSeq(n)
    PROVE  /\ a \o b \in BitSeq(m + n)
           /\ \A k \in 1..m : (a \o b)[k] = a[k]
           /\ \A k \in 1..n : (a \o b)[m + k] = b[k]
  <1>1. Len(a) = m /\ Len(b) = n /\ a \in Seq(Bit) /\ b \in Seq(Bit)
    BY BitSeqIsSeq
  <1> DEFINE c == a \o b
  <1>2. /\ c \in Seq(Bit) /\ Len(c) = m + n
        /\ \A k \in 1..(m + n) : c[k] = IF k <= m THEN a[k] ELSE b[k - m]
    BY <1>1, ConcatProperties
  <1> HIDE DEF c
  <1>3. c \in BitSeq(m + n)
    BY <1>2, LenProperties, Zenon DEF BitSeq
  <1>4. \A k \in 1..m : c[k] = a[k]
    BY <1>2
  <1>5. \A k \in 1..n : c[m + k] = b[k]
    BY <1>2
  <1> QED BY <1>3, <1>4, <1>5 DEF c

LEMMA SliceJoin ==
    ASSUME NEW v \in Int, NEW lo \in Nat, NEW m \in Nat, NEW n \in Nat, lo + m + n <= 32
    PROVE  Slice(v, lo, m) \o Slice(v, lo + m, n) = Slice(v, lo, m + n)
  <1> DEFINE a == Slice(v, lo, m)
             b == Slice(v, lo + m, n)
             c == Slice(v, lo, m + n)
  <1>1. /\ a \in BitSeq(m) /\ b \in BitSeq(n) /\ c \in BitSeq(m + n)
        /\ \A k \in 1..m : a[k] = (v \div 2^(lo + k - 1)) % 2
        /\ \A k \in 1..n : b[k] = (v \div 2^((lo + m) + k - 1)) % 2
        /\ \A k \in 1..(m + n) : c[k] = (v \div 2^(lo + k - 1)) % 2
    <2>1. lo + m \in Nat /\ m + n \in Nat /\ lo + m <= 32 /\ (lo + m) + n <= 32 /\ lo + (m + n) <= 32
      OBVIOUS
    <2> QED BY <2>1, SliceBits, Zenon
  <1> HIDE DEF a, b, c
  <1>2. /\ a \o b \in BitSeq(m + n)
        /\ \A k \in 1..m : (a \o b)[k] = a[k]
        /\ \A k \in 1..n : (a \o b)[m + k] = b[k]
    BY <1>1, JoinBits
  <1>3. ASSUME NEW k \in 1..(m + n)
        PROVE  (a \o b)[k] = c[k]
    <2>1. CASE k \in 1..m
      BY <1>1, <1>2, <2>1
    <2>2. CASE k \notin 1..m
      <3> DEFINE j == k - m
      <3>1. j \in 1..n /\ k = m + j /\ (lo + m) + j - 1 = lo + k - 1
        BY <2>2
      <3> HIDE DEF j
      <3>2. (a \o b)[k] = b[j]
        BY <1>2, <3>1
      <3> QED BY <1>1, <3>1, <3>2
    <2> QED BY <2>1, <2>2
  <1>4. a \o b = c
    <2>1. m + n \in Nat
      OBVIOUS
    <2> QED BY <1>1, <1>2, <1>3, <2>1, BitSeqEqual, Zenon
  <1> QED BY <1>4 DEF a, b, c
------------------------------------------------------------------------------
(* Two recursions that take the same steps are alike.                        *)
InStep(n, v, w) == v[0] = w[0] /\ \A k \in 1..n : v[k - 1] = w[k - 1] => v[k] = w[k]

LEMMA Alike ==
    ASSUME NEW n \in Nat, NEW v, NEW w, InStep(n, v, w)
    PROVE  \A k \in 0..n : v[k] = w[k]
  <1> DEFINE X == {k \in Nat : k <= n => v[k] = w[k]}
  <1>1. 0 \in X
    BY DEF InStep
  <1>2. ASSUME NEW k \in Nat, k \in X
        PROVE  k + 1 \in X
    <2> SUFFICES ASSUME k + 1 <= n PROVE v[k + 1] = w[k + 1]
      OBVIOUS
    <2>1. v[k] = w[k] /\ (k + 1) - 1 = k /\ k + 1 \in 1..n
      BY <1>2
    <2> QED BY <2>1 DEF InStep
  <1> HIDE DEF X
  <1>3. Nat \subseteq X
    BY <1>1, <1>2, Counting
  <1> QED BY <1>3 DEF X

(* The number that bits spell.                                               *)
Spells(v, bits, n) ==
    v = [k \in 0..n |-> IF k = 0 THEN 0 ELSE v[k - 1] + bits[k] * 2^(k - 1)]

LEMMA UIntRuns ==
    ASSUME NEW n \in 0..32, NEW bits \in BitSeq(n)
    PROVE  \E v \in [0..n -> Nat] :
             /\ UInt(bits) = v[n] /\ v[0] = 0
             /\ \A k \in 1..n : v[k] = v[k - 1] + bits[k] * 2^(k - 1)
  <1> DEFINE step == [k \in 1..n |-> [x \in Nat |-> x + bits[k] * 2^(k - 1)]]
  <1>1. \A k \in 1..n : bits[k] * 2^(k - 1) \in Nat
    <2> TAKE k \in 1..n
    <2>1. k - 1 \in 0..31 /\ bits[k] \in {0, 1}
      BY DEF BitSeq, Bit
    <2>2. 2^(k - 1) \in Nat
      BY <2>1, Weights, Zenon
    <2> QED BY <2>1, <2>2
  <1>2. step \in [1..n -> [Nat -> Nat]]
    BY <1>1
  <1>3. PICK v \in [0..n -> Nat] : Solves(v, 0, step, n)
    <2>1. n \in Nat /\ n \in 0..n
      OBVIOUS
    <2> QED BY <1>2, <2>1, Solution
  <1>4. \A k \in 1..n : v[k] = v[k - 1] + bits[k] * 2^(k - 1)
    <2> TAKE k \in 1..n
    <2>1. v[k] = step[k][v[k - 1]] /\ v[k - 1] \in Nat
      <3>1. k \in 0..n /\ k # 0 /\ k - 1 \in 0..n
        OBVIOUS
      <3> HIDE DEF step
      <3>2. v[k] = step[k][v[k - 1]]
        BY <1>3, <3>1 DEF Solves
      <3> QED BY <3>1, <3>2
    <2> QED BY <2>1
  <1>5. v[0] = 0
    BY <1>3 DEF Solves
  <1>6. Spells(v, bits, n)
    BY <1>4, <1>5 DEF Spells
  <1> DEFINE u == CHOOSE w : Spells(w, bits, n)
  <1>7. Spells(u, bits, n)
    BY <1>6
  <1>8. UInt(bits) = u[n]
    <2>1. Len(bits) = n
      BY BitSeqIsSeq
    <2> QED BY <2>1, Zenon DEF UInt, Spells
  <1> HIDE DEF u, step
  <1>9. \A k \in 0..n : u[k] = v[k]
    <2>1. u[0] = v[0]
      BY <1>5, <1>7 DEF Spells
    <2>2. \A k \in 1..n : u[k] = u[k - 1] + bits[k] * 2^(k - 1)
      BY <1>7 DEF Spells
    <2>3. n \in Nat
      OBVIOUS
    <2>4. ASSUME NEW k \in 1..n, u[k - 1] = v[k - 1] PROVE u[k] = v[k]
      <3>1. u[k] = u[k - 1] + bits[k] * 2^(k - 1) /\ v[k] = v[k - 1] + bits[k] * 2^(k - 1)
        BY <1>4, <2>2
      <3> QED BY <2>4, <3>1
    <2>5. InStep(n, u, v)
      BY <2>1, <2>4 DEF InStep
    <2> QED BY <2>3, <2>5, Alike, ZenonT(60)
  <1>10. n \in 0..n
    OBVIOUS
  <1> QED BY <1>4, <1>5, <1>8, <1>9, <1>10

LEMMA UIntRange ==
    ASSUME NEW n \in 0..31, NEW bits \in BitSeq(n)
    PROVE  UInt(bits) \in 0..(2^n - 1)
  <1>1. PICK v \in [0..n -> Nat] :
             /\ UInt(bits) = v[n] /\ v[0] = 0
             /\ \A k \in 1..n : v[k] = v[k - 1] + bits[k] * 2^(k - 1)
    <2>1. n \in 0..32
      OBVIOUS
    <2> QED BY <2>1, UIntRuns
  <1> DEFINE X == {k \in Nat : k <= n => v[k] <= 2^k - 1}
  <1>2. 0 \in X
    BY <1>1
  <1>3. ASSUME NEW k \in Nat, k \in X
        PROVE  k + 1 \in X
    <2> SUFFICES ASSUME k + 1 <= n PROVE v[k + 1] <= 2^(k + 1) - 1
      OBVIOUS
    <2> DEFINE p == 2^k
    <2>1. p \in Nat /\ 2^(k + 1) = 2 * p
      <3>1. k \in 0..30 /\ k \in 0..31
        OBVIOUS
      <3> QED BY <3>1, Weights, Doubling, Zenon
    <2>2. v[k + 1] = v[k] + bits[k + 1] * p
      BY <1>1
    <2>3. v[k] <= p - 1 /\ v[k] \in Nat /\ bits[k + 1] \in {0, 1}
      BY <1>1, <1>3 DEF BitSeq, Bit
    <2> HIDE DEF p
    <2>4. v[k] + bits[k + 1] * p <= 2 * p - 1
      BY <2>1, <2>3
    <2> QED BY <2>1, <2>2, <2>4
  <1> HIDE DEF X
  <1>4. Nat \subseteq X
    BY <1>2, <1>3, Counting
  <1>5. v[n] \in Nat /\ n \in X /\ n <= n /\ 2^n \in Nat
    <2>1. n \in Nat /\ n \in 0..n /\ n <= n
      OBVIOUS
    <2> QED BY <1>1, <1>4, <2>1, Weights
  <1>6. v[n] <= 2^n - 1
    BY <1>5 DEF X
  <1> QED BY <1>1, <1>5, <1>6

LEMMA UIntLow ==
    ASSUME NEW v \in Int, NEW n \in 0..31
    PROVE  UInt(Low(v, n)) = v % 2^n
  <1> DEFINE bits == Low(v, n)
  <1>1. bits \in BitSeq(n) /\ \A k \in 1..n : bits[k] = (v \div 2^(k - 1)) % 2
    <2>1. n \in 0..32
      OBVIOUS
    <2> QED BY <2>1, LowBits
  <1> HIDE DEF bits
  <1>2. PICK u \in [0..n -> Nat] :
             /\ UInt(bits) = u[n] /\ u[0] = 0
             /\ \A k \in 1..n : u[k] = u[k - 1] + bits[k] * 2^(k - 1)
    <2>1. n \in 0..32
      OBVIOUS
    <2> QED BY <1>1, <2>1, UIntRuns
  <1> DEFINE w == [k \in 0..n |-> v % 2^k]
  <1>3. u[0] = w[0]
    BY <1>2
  <1>4. \A k \in 1..n : w[k] = w[k - 1] + bits[k] * 2^(k - 1)
    <2> TAKE k \in 1..n
    <2> DEFINE j == k - 1
    <2>1. j \in 0..30 /\ k = j + 1 /\ j \in 0..n
      OBVIOUS
    <2>2. w[k] = v % 2^k /\ w[j] = v % 2^j /\ bits[k] = (v \div 2^j) % 2
      BY <1>1, <2>1
    <2> HIDE DEF j, w
    <2>3. v % 2^(j + 1) = (v % 2^j) + ((v \div 2^j) % 2) * 2^j
      BY <2>1, Digit
    <2>4. w[k] = w[j] + bits[k] * 2^j
      BY <2>1, <2>2, <2>3, Zenon
    <2> QED BY <2>4 DEF j
  <1> HIDE DEF w
  <1>5. \A k \in 0..n : u[k] = w[k]
    <2>1. n \in Nat
      OBVIOUS
    <2>2. ASSUME NEW k \in 1..n, u[k - 1] = w[k - 1] PROVE u[k] = w[k]
      <3>1. u[k] = u[k - 1] + bits[k] * 2^(k - 1) /\ w[k] = w[k - 1] + bits[k] * 2^(k - 1)
        BY <1>2, <1>4
      <3> QED BY <2>2, <3>1
    <2>3. InStep(n, u, w)
      BY <1>3, <2>2 DEF InStep
    <2> QED BY <2>1, <2>3, Alike, ZenonT(60)
  <1>6. w[n] = v % 2^n
    BY DEF w
  <1>7. n \in 0..n
    OBVIOUS
  <1> QED BY <1>2, <1>5, <1>6, <1>7 DEF bits

-----------------------------------------------------------------------------
(* A word of the encoder, piece by piece: w holds the n bits of s from lo up. *)
Holds(w, lo, s, n) == \A k \in 1..n : w[lo + k] = s[k]

LEMMA Extended ==
    ASSUME NEW m \in Nat, NEW n \in Nat, NEW w \in BitSeq(m), NEW b \in BitSeq(n)
    PROVE  /\ w \o b \in BitSeq(m + n) /\ Holds(w \o b, m, b, n)
           /\ \A lo \in Nat, j \in Nat : \A s : lo + j <= m /\ Holds(w, lo, s, j) => Holds(w \o b, lo, s, j)
  <1> DEFINE c == w \o b
  <1>1. c \in BitSeq(m + n)
    BY JoinBits
  <1>2. /\ \A k \in 1..m : c[k] = w[k]
        /\ \A k \in 1..n : c[m + k] = b[k]
    BY JoinBits
  <1> HIDE DEF c
  <1>3. ASSUME NEW lo \in Nat, NEW j \in Nat, NEW s, lo + j <= m, Holds(w, lo, s, j)
        PROVE  Holds(c, lo, s, j)
    <2>1. \A k \in 1..j : lo + k \in 1..m
      BY <1>3
    <2> QED BY <1>2, <1>3, <2>1 DEF Holds
  <1>4. Holds(c, m, b, n)
    BY <1>2 DEF Holds
  <1> QED BY <1>1, <1>3, <1>4, Zenon DEF c

LEMMA PartHeld ==
    ASSUME NEW w \in Bits32, NEW lo \in 0..31, NEW n \in 1..(32 - lo), NEW s \in BitSeq(n),
           Holds(w, lo, s, n)
    PROVE  Bits(w, lo + n - 1, lo) = s
  <1> DEFINE hi == lo + n - 1
             p == Bits(w, hi, lo)
  <1>1. hi \in lo..31 /\ hi - lo + 1 = n /\ n \in Nat
    OBVIOUS
  <1>2. p \in BitSeq(n) /\ \A k \in 1..n : p[k] = w[lo + k]
    <2>1. p \in BitSeq(hi - lo + 1) /\ \A k \in 1..(hi - lo + 1) : p[k] = w[lo + k]
      <3> HIDE DEF hi
      <3> QED BY <1>1, PartBits, Zenon
    <2> HIDE DEF p
    <2> QED BY <1>1, <2>1
  <1> HIDE DEF p
  <1>3. p = s
    BY <1>1, <1>2, BitSeqEqual DEF Holds
  <1> QED BY <1>3 DEF p

(* The formats, as sequences of pieces: w holds each where its format has it. *)
LEMMA RFormat ==
    ASSUME NEW opcode \in Int, NEW rd \in Int, NEW funct3 \in Int, NEW rs1 \in Int, NEW rs2 \in
           Int, NEW funct7 \in Int
    PROVE  LET w == EncodeR(opcode, rd, funct3, rs1, rs2, funct7)
           IN /\ w \in Bits32
              /\ Holds(w, 0, Low(opcode, 7), 7) /\ Holds(w, 7, Low(rd, 5), 5)
              /\ Holds(w, 12, Low(funct3, 3), 3) /\ Holds(w, 15, Low(rs1, 5), 5)
              /\ Holds(w, 20, Low(rs2, 5), 5) /\ Holds(w, 25, Low(funct7, 7), 7)
  <1> DEFINE a == Low(opcode, 7)
             b == Low(rd, 5)
             c == Low(funct3, 3)
             d == Low(rs1, 5)
             e == Low(rs2, 5)
             f == Low(funct7, 7)
             w2 == a \o b
             w3 == w2 \o c
             w4 == w3 \o d
             w5 == w4 \o e
             w6 == w5 \o f
  <1>1. a \in BitSeq(7)
    BY LowBits
  <1>2. b \in BitSeq(5)
    BY LowBits
  <1>3. c \in BitSeq(3)
    BY LowBits
  <1>4. d \in BitSeq(5)
    BY LowBits
  <1>5. e \in BitSeq(5)
    BY LowBits
  <1>6. f \in BitSeq(7)
    BY LowBits
  <1>7. w6 = EncodeR(opcode, rd, funct3, rs1, rs2, funct7)
    BY DEF EncodeR
  <1> HIDE DEF a, b, c, d, e, f
  <1>8. Holds(a, 0, a, 7)
    BY DEF Holds
  <1>9. w2 \in BitSeq(12) /\ Holds(w2, 0, a, 7) /\ Holds(w2, 7, b, 5)
    BY <1>1, <1>2, <1>8, Extended
  <1> HIDE DEF w2
  <1>10. w3 \in BitSeq(15) /\ Holds(w3, 0, a, 7) /\ Holds(w3, 7, b, 5) /\ Holds(w3, 12, c, 3)
    BY <1>3, <1>9, Extended
  <1> HIDE DEF w3
  <1>11. /\ w4 \in BitSeq(20) /\ Holds(w4, 0, a, 7) /\ Holds(w4, 7, b, 5) /\ Holds(w4, 12, c, 3)
        /\ Holds(w4, 15, d, 5)
    BY <1>4, <1>10, Extended
  <1> HIDE DEF w4
  <1>12. /\ w5 \in BitSeq(25) /\ Holds(w5, 0, a, 7) /\ Holds(w5, 7, b, 5) /\ Holds(w5, 12, c, 3)
        /\ Holds(w5, 15, d, 5) /\ Holds(w5, 20, e, 5)
    BY <1>5, <1>11, Extended
  <1> HIDE DEF w5
  <1>13. /\ w6 \in BitSeq(32) /\ Holds(w6, 0, a, 7) /\ Holds(w6, 7, b, 5) /\ Holds(w6, 12, c, 3)
        /\ Holds(w6, 15, d, 5) /\ Holds(w6, 20, e, 5) /\ Holds(w6, 25, f, 7)
    BY <1>6, <1>12, Extended
  <1> HIDE DEF w6
  <1> QED BY <1>7, <1>13 DEF a, b, c, d, e, f, BitSeq, Bits32

LEMMA IFormat ==
    ASSUME NEW opcode \in Int, NEW rd \in Int, NEW funct3 \in Int, NEW rs1 \in Int, NEW imm \in
           Int
    PROVE  LET w == EncodeI(opcode, rd, funct3, rs1, imm)
           IN /\ w \in Bits32
              /\ Holds(w, 0, Low(opcode, 7), 7) /\ Holds(w, 7, Low(rd, 5), 5)
              /\ Holds(w, 12, Low(funct3, 3), 3) /\ Holds(w, 15, Low(rs1, 5), 5)
              /\ Holds(w, 20, Low(imm, 12), 12)
  <1> DEFINE a == Low(opcode, 7)
             b == Low(rd, 5)
             c == Low(funct3, 3)
             d == Low(rs1, 5)
             e == Low(imm, 12)
             w2 == a \o b
             w3 == w2 \o c
             w4 == w3 \o d
             w5 == w4 \o e
  <1>1. a \in BitSeq(7)
    BY LowBits
  <1>2. b \in BitSeq(5)
    BY LowBits
  <1>3. c \in BitSeq(3)
    BY LowBits
  <1>4. d \in BitSeq(5)
    BY LowBits
  <1>5. e \in BitSeq(12)
    BY LowBits
  <1>6. w5 = EncodeI(opcode, rd, funct3, rs1, imm)
    BY DEF EncodeI
  <1> HIDE DEF a, b, c, d, e
  <1>7. Holds(a, 0, a, 7)
    BY DEF Holds
  <1>8. w2 \in BitSeq(12) /\ Holds(w2, 0, a, 7) /\ Holds(w2, 7, b, 5)
    BY <1>1, <1>2, <1>7, Extended
  <1> HIDE DEF w2
  <1>9. w3 \in BitSeq(15) /\ Holds(w3, 0, a, 7) /\ Holds(w3, 7, b, 5) /\ Holds(w3, 12, c, 3)
    BY <1>3, <1>8, Extended
  <1> HIDE DEF w3
  <1>10. /\ w4 \in BitSeq(20) /\ Holds(w4, 0, a, 7) /\ Holds(w4, 7, b, 5) /\ Holds(w4, 12, c, 3)
        /\ Holds(w4, 15, d, 5)
    BY <1>4, <1>9, Extended
  <1> HIDE DEF w4
  <1>11. /\ w5 \in BitSeq(32) /\ Holds(w5, 0, a, 7) /\ Holds(w5, 7, b, 5) /\ Holds(w5, 12, c, 3)
        /\ Holds(w5, 15, d, 5) /\ Holds(w5, 20, e, 12)
    BY <1>5, <1>10, Extended
  <1> HIDE DEF w5
  <1> QED BY <1>6, <1>11 DEF a, b, c, d, e, BitSeq, Bits32

LEMMA SFormat ==
    ASSUME NEW opcode \in Int, NEW funct3 \in Int, NEW rs1 \in Int, NEW rs2 \in Int, NEW imm
           \in Int
    PROVE  LET w == EncodeS(opcode, funct3, rs1, rs2, imm)
           IN /\ w \in Bits32
              /\ Holds(w, 0, Low(opcode, 7), 7) /\ Holds(w, 7, Low(imm, 5), 5)
              /\ Holds(w, 12, Low(funct3, 3), 3) /\ Holds(w, 15, Low(rs1, 5), 5)
              /\ Holds(w, 20, Low(rs2, 5), 5) /\ Holds(w, 25, Slice(imm, 5, 7), 7)
  <1> DEFINE a == Low(opcode, 7)
             b == Low(imm, 5)
             c == Low(funct3, 3)
             d == Low(rs1, 5)
             e == Low(rs2, 5)
             f == Slice(imm, 5, 7)
             w2 == a \o b
             w3 == w2 \o c
             w4 == w3 \o d
             w5 == w4 \o e
             w6 == w5 \o f
  <1>1. a \in BitSeq(7)
    BY LowBits
  <1>2. b \in BitSeq(5)
    BY LowBits
  <1>3. c \in BitSeq(3)
    BY LowBits
  <1>4. d \in BitSeq(5)
    BY LowBits
  <1>5. e \in BitSeq(5)
    BY LowBits
  <1>6. f \in BitSeq(7)
    BY SliceBits
  <1>7. w6 = EncodeS(opcode, funct3, rs1, rs2, imm)
    BY DEF EncodeS
  <1> HIDE DEF a, b, c, d, e, f
  <1>8. Holds(a, 0, a, 7)
    BY DEF Holds
  <1>9. w2 \in BitSeq(12) /\ Holds(w2, 0, a, 7) /\ Holds(w2, 7, b, 5)
    BY <1>1, <1>2, <1>8, Extended
  <1> HIDE DEF w2
  <1>10. w3 \in BitSeq(15) /\ Holds(w3, 0, a, 7) /\ Holds(w3, 7, b, 5) /\ Holds(w3, 12, c, 3)
    BY <1>3, <1>9, Extended
  <1> HIDE DEF w3
  <1>11. /\ w4 \in BitSeq(20) /\ Holds(w4, 0, a, 7) /\ Holds(w4, 7, b, 5) /\ Holds(w4, 12, c, 3)
        /\ Holds(w4, 15, d, 5)
    BY <1>4, <1>10, Extended
  <1> HIDE DEF w4
  <1>12. /\ w5 \in BitSeq(25) /\ Holds(w5, 0, a, 7) /\ Holds(w5, 7, b, 5) /\ Holds(w5, 12, c, 3)
        /\ Holds(w5, 15, d, 5) /\ Holds(w5, 20, e, 5)
    BY <1>5, <1>11, Extended
  <1> HIDE DEF w5
  <1>13. /\ w6 \in BitSeq(32) /\ Holds(w6, 0, a, 7) /\ Holds(w6, 7, b, 5) /\ Holds(w6, 12, c, 3)
        /\ Holds(w6, 15, d, 5) /\ Holds(w6, 20, e, 5) /\ Holds(w6, 25, f, 7)
    BY <1>6, <1>12, Extended
  <1> HIDE DEF w6
  <1> QED BY <1>7, <1>13 DEF a, b, c, d, e, f, BitSeq, Bits32

LEMMA BFormat ==
    ASSUME NEW opcode \in Int, NEW funct3 \in Int, NEW rs1 \in Int, NEW rs2 \in Int, NEW offset
           \in Int
    PROVE  LET w == EncodeB(opcode, funct3, rs1, rs2, offset)
           IN /\ w \in Bits32
              /\ Holds(w, 0, Low(opcode, 7), 7) /\ Holds(w, 7, Slice(offset, 11, 1), 1)
              /\ Holds(w, 8, Slice(offset, 1, 4), 4) /\ Holds(w, 12, Low(funct3, 3), 3)
              /\ Holds(w, 15, Low(rs1, 5), 5) /\ Holds(w, 20, Low(rs2, 5), 5)
              /\ Holds(w, 25, Slice(offset, 5, 6), 6) /\ Holds(w, 31, Slice(offset, 12, 1), 1)
  <1> DEFINE a == Low(opcode, 7)
             b == Slice(offset, 11, 1)
             c == Slice(offset, 1, 4)
             d == Low(funct3, 3)
             e == Low(rs1, 5)
             f == Low(rs2, 5)
             g == Slice(offset, 5, 6)
             h == Slice(offset, 12, 1)
             w2 == a \o b
             w3 == w2 \o c
             w4 == w3 \o d
             w5 == w4 \o e
             w6 == w5 \o f
             w7 == w6 \o g
             w8 == w7 \o h
  <1>1. a \in BitSeq(7)
    BY LowBits
  <1>2. b \in BitSeq(1)
    BY SliceBits
  <1>3. c \in BitSeq(4)
    BY SliceBits
  <1>4. d \in BitSeq(3)
    BY LowBits
  <1>5. e \in BitSeq(5)
    BY LowBits
  <1>6. f \in BitSeq(5)
    BY LowBits
  <1>7. g \in BitSeq(6)
    BY SliceBits
  <1>8. h \in BitSeq(1)
    BY SliceBits
  <1>9. w8 = EncodeB(opcode, funct3, rs1, rs2, offset)
    BY DEF EncodeB
  <1> HIDE DEF a, b, c, d, e, f, g, h
  <1>10. Holds(a, 0, a, 7)
    BY DEF Holds
  <1>11. w2 \in BitSeq(8) /\ Holds(w2, 0, a, 7) /\ Holds(w2, 7, b, 1)
    BY <1>1, <1>2, <1>10, Extended
  <1> HIDE DEF w2
  <1>12. w3 \in BitSeq(12) /\ Holds(w3, 0, a, 7) /\ Holds(w3, 7, b, 1) /\ Holds(w3, 8, c, 4)
    BY <1>3, <1>11, Extended
  <1> HIDE DEF w3
  <1>13. /\ w4 \in BitSeq(15) /\ Holds(w4, 0, a, 7) /\ Holds(w4, 7, b, 1) /\ Holds(w4, 8, c, 4)
        /\ Holds(w4, 12, d, 3)
    BY <1>4, <1>12, Extended
  <1> HIDE DEF w4
  <1>14. /\ w5 \in BitSeq(20) /\ Holds(w5, 0, a, 7) /\ Holds(w5, 7, b, 1) /\ Holds(w5, 8, c, 4)
        /\ Holds(w5, 12, d, 3) /\ Holds(w5, 15, e, 5)
    BY <1>5, <1>13, Extended
  <1> HIDE DEF w5
  <1>15. /\ w6 \in BitSeq(25) /\ Holds(w6, 0, a, 7) /\ Holds(w6, 7, b, 1) /\ Holds(w6, 8, c, 4)
        /\ Holds(w6, 12, d, 3) /\ Holds(w6, 15, e, 5) /\ Holds(w6, 20, f, 5)
    BY <1>6, <1>14, Extended
  <1> HIDE DEF w6
  <1>16. /\ w7 \in BitSeq(31) /\ Holds(w7, 0, a, 7) /\ Holds(w7, 7, b, 1) /\ Holds(w7, 8, c, 4)
        /\ Holds(w7, 12, d, 3) /\ Holds(w7, 15, e, 5) /\ Holds(w7, 20, f, 5) /\ Holds(w7, 25, g, 6)
    BY <1>7, <1>15, Extended
  <1> HIDE DEF w7
  <1>17. /\ w8 \in BitSeq(32) /\ Holds(w8, 0, a, 7) /\ Holds(w8, 7, b, 1) /\ Holds(w8, 8, c, 4)
        /\ Holds(w8, 12, d, 3) /\ Holds(w8, 15, e, 5) /\ Holds(w8, 20, f, 5) /\ Holds(w8, 25, g, 6)
        /\ Holds(w8, 31, h, 1)
    BY <1>8, <1>16, Extended
  <1> HIDE DEF w8
  <1> QED BY <1>9, <1>17 DEF a, b, c, d, e, f, g, h, BitSeq, Bits32

LEMMA UFormat ==
    ASSUME NEW opcode \in Int, NEW rd \in Int, NEW imm \in Int
    PROVE  LET w == EncodeU(opcode, rd, imm)
           IN /\ w \in Bits32
              /\ Holds(w, 0, Low(opcode, 7), 7) /\ Holds(w, 7, Low(rd, 5), 5)
              /\ Holds(w, 12, Low(imm, 20), 20)
  <1> DEFINE a == Low(opcode, 7)
             b == Low(rd, 5)
             c == Low(imm, 20)
             w2 == a \o b
             w3 == w2 \o c
  <1>1. a \in BitSeq(7)
    BY LowBits
  <1>2. b \in BitSeq(5)
    BY LowBits
  <1>3. c \in BitSeq(20)
    BY LowBits
  <1>4. w3 = EncodeU(opcode, rd, imm)
    BY DEF EncodeU
  <1> HIDE DEF a, b, c
  <1>5. Holds(a, 0, a, 7)
    BY DEF Holds
  <1>6. w2 \in BitSeq(12) /\ Holds(w2, 0, a, 7) /\ Holds(w2, 7, b, 5)
    BY <1>1, <1>2, <1>5, Extended
  <1> HIDE DEF w2
  <1>7. w3 \in BitSeq(32) /\ Holds(w3, 0, a, 7) /\ Holds(w3, 7, b, 5) /\ Holds(w3, 12, c, 20)
    BY <1>3, <1>6, Extended
  <1> HIDE DEF w3
  <1> QED BY <1>4, <1>7 DEF a, b, c, BitSeq, Bits32

LEMMA JFormat ==
    ASSUME NEW opcode \in Int, NEW rd \in Int, NEW offset \in Int
    PROVE  LET w == EncodeJ(opcode, rd, offset)
           IN /\ w \in Bits32
              /\ Holds(w, 0, Low(opcode, 7), 7) /\ Holds(w, 7, Low(rd, 5), 5)
              /\ Holds(w, 12, Slice(offset, 12, 8), 8) /\ Holds(w, 20, Slice(offset, 11, 1), 1)
              /\ Holds(w, 21, Slice(offset, 1, 10), 10) /\ Holds(w, 31, Slice(offset, 20, 1), 1)
  <1> DEFINE a == Low(opcode, 7)
             b == Low(rd, 5)
             c == Slice(offset, 12, 8)
             d == Slice(offset, 11, 1)
             e == Slice(offset, 1, 10)
             f == Slice(offset, 20, 1)
             w2 == a \o b
             w3 == w2 \o c
             w4 == w3 \o d
             w5 == w4 \o e
             w6 == w5 \o f
  <1>1. a \in BitSeq(7)
    BY LowBits
  <1>2. b \in BitSeq(5)
    BY LowBits
  <1>3. c \in BitSeq(8)
    BY SliceBits
  <1>4. d \in BitSeq(1)
    BY SliceBits
  <1>5. e \in BitSeq(10)
    BY SliceBits
  <1>6. f \in BitSeq(1)
    BY SliceBits
  <1>7. w6 = EncodeJ(opcode, rd, offset)
    BY DEF EncodeJ
  <1> HIDE DEF a, b, c, d, e, f
  <1>8. Holds(a, 0, a, 7)
    BY DEF Holds
  <1>9. w2 \in BitSeq(12) /\ Holds(w2, 0, a, 7) /\ Holds(w2, 7, b, 5)
    BY <1>1, <1>2, <1>8, Extended
  <1> HIDE DEF w2
  <1>10. w3 \in BitSeq(20) /\ Holds(w3, 0, a, 7) /\ Holds(w3, 7, b, 5) /\ Holds(w3, 12, c, 8)
    BY <1>3, <1>9, Extended
  <1> HIDE DEF w3
  <1>11. /\ w4 \in BitSeq(21) /\ Holds(w4, 0, a, 7) /\ Holds(w4, 7, b, 5) /\ Holds(w4, 12, c, 8)
        /\ Holds(w4, 20, d, 1)
    BY <1>4, <1>10, Extended
  <1> HIDE DEF w4
  <1>12. /\ w5 \in BitSeq(31) /\ Holds(w5, 0, a, 7) /\ Holds(w5, 7, b, 5) /\ Holds(w5, 12, c, 8)
        /\ Holds(w5, 20, d, 1) /\ Holds(w5, 21, e, 10)
    BY <1>5, <1>11, Extended
  <1> HIDE DEF w5
  <1>13. /\ w6 \in BitSeq(32) /\ Holds(w6, 0, a, 7) /\ Holds(w6, 7, b, 5) /\ Holds(w6, 12, c, 8)
        /\ Holds(w6, 20, d, 1) /\ Holds(w6, 21, e, 10) /\ Holds(w6, 31, f, 1)
    BY <1>6, <1>12, Extended
  <1> HIDE DEF w6
  <1> QED BY <1>7, <1>13 DEF a, b, c, d, e, f, BitSeq, Bits32

-----------------------------------------------------------------------------
(* The decode table, class by class.                                         *)
LEMMA Rows ==
    /\ \A m \in DOMAIN Op     : instructions[m] = RowR(Op[m][1], Op[m][2])
    /\ \A m \in DOMAIN OpImm  : instructions[m] = RowI(19, OpImm[m])
    /\ \A m \in DOMAIN Shift  : instructions[m] = RowSh(Shift[m][1], Shift[m][2] \div 32)
    /\ \A m \in DOMAIN Load   : instructions[m] = RowI(3, Load[m])
    /\ \A m \in DOMAIN Store  : instructions[m] = Row("S", 35, Store[m], DontCare, DontCare)
    /\ \A m \in DOMAIN Branch : instructions[m] = Row("B", 99, Branch[m], DontCare, DontCare)
    /\ \A m \in DOMAIN Upper  : instructions[m] = Row("U", Upper[m], DontCare, DontCare, DontCare)
    /\ \A m \in DOMAIN Csr    : instructions[m] = RowI(115, Csr[m])
    /\ instructions["JAL"] = Row("J", 111, DontCare, DontCare, DontCare)
    /\ instructions["JALR"] = RowI(103, 0)
    /\ instructions["ECALL"] = RowSys(0) /\ instructions["EBREAK"] = RowSys(1)
    /\ instructions["MRET"] = RowSys(770)
  <1>1. \A m \in DOMAIN Op     : instructions[m] = RowR(Op[m][1], Op[m][2])
    BY DEF instructions, Op, RowR
  <1>2. \A m \in DOMAIN OpImm  : instructions[m] = RowI(19, OpImm[m])
    BY DEF instructions, OpImm, RowI
  <1>3. \A m \in DOMAIN Shift  : instructions[m] = RowSh(Shift[m][1], Shift[m][2] \div 32)
    BY DEF instructions, Shift, RowSh
  <1>4. \A m \in DOMAIN Load   : instructions[m] = RowI(3, Load[m])
    BY DEF instructions, Load, RowI
  <1>5. \A m \in DOMAIN Store  : instructions[m] = Row("S", 35, Store[m], DontCare, DontCare)
    BY DEF instructions, Store
  <1>6. \A m \in DOMAIN Branch : instructions[m] = Row("B", 99, Branch[m], DontCare, DontCare)
    BY DEF instructions, Branch
  <1>7. \A m \in DOMAIN Upper  : instructions[m] = Row("U", Upper[m], DontCare, DontCare, DontCare)
    BY DEF instructions, Upper
  <1>8. \A m \in DOMAIN Csr    : instructions[m] = RowI(115, Csr[m])
    BY DEF instructions, Csr, RowI
  <1>9. /\ instructions["JAL"] = Row("J", 111, DontCare, DontCare, DontCare)
        /\ instructions["JALR"] = RowI(103, 0)
        /\ instructions["ECALL"] = RowSys(0) /\ instructions["EBREAK"] = RowSys(1)
        /\ instructions["MRET"] = RowSys(770)
    BY DEF instructions, RowI, RowSys
  <1> QED BY <1>1, <1>2, <1>3, <1>4, <1>5, <1>6, <1>7, <1>8, <1>9, Zenon

LEMMA Classes ==
    DOMAIN instructions =
      UNION {DOMAIN Op, DOMAIN OpImm, DOMAIN Shift, DOMAIN Load, DOMAIN Store, DOMAIN Branch, DOMAIN Upper,
             DOMAIN Csr, {"JAL", "JALR", "ECALL", "EBREAK", "MRET"}}
  BY DEF instructions, Op, OpImm, Shift, Load, Store, Branch, Upper, Csr

(* No two rows of a class have the same functions.                           *)
LEMMA RowsDiffer ==
    /\ \A m, n \in DOMAIN Op     : Op[m] = Op[n] => m = n
    /\ \A m, n \in DOMAIN OpImm  : OpImm[m] = OpImm[n] => m = n
    /\ \A m, n \in DOMAIN Shift  : Shift[m][1] = Shift[n][1] /\ Shift[m][2] \div 32 = Shift[n][2] \div 32 => m = n
    /\ \A m, n \in DOMAIN Load   : Load[m] = Load[n] => m = n
    /\ \A m, n \in DOMAIN Store  : Store[m] = Store[n] => m = n
    /\ \A m, n \in DOMAIN Branch : Branch[m] = Branch[n] => m = n
    /\ \A m, n \in DOMAIN Upper  : Upper[m] = Upper[n] => m = n
    /\ \A m, n \in DOMAIN Csr    : Csr[m] = Csr[n] => m = n
  <1>1. \A m, n \in DOMAIN Op     : Op[m] = Op[n] => m = n
    BY DEF Op
  <1>2. \A m, n \in DOMAIN OpImm  : OpImm[m] = OpImm[n] => m = n
    BY DEF OpImm
  <1>3. \A m, n \in DOMAIN Shift  : Shift[m][1] = Shift[n][1] /\ Shift[m][2] \div 32 = Shift[n][2] \div 32 => m = n
    BY DEF Shift
  <1>4. \A m, n \in DOMAIN Load   : Load[m] = Load[n] => m = n
    BY DEF Load
  <1>5. \A m, n \in DOMAIN Store  : Store[m] = Store[n] => m = n
    BY DEF Store
  <1>6. \A m, n \in DOMAIN Branch : Branch[m] = Branch[n] => m = n
    BY DEF Branch
  <1>7. \A m, n \in DOMAIN Upper  : Upper[m] = Upper[n] => m = n
    BY DEF Upper
  <1>8. \A m, n \in DOMAIN Csr    : Csr[m] = Csr[n] => m = n
    BY DEF Csr
  <1> QED BY <1>1, <1>2, <1>3, <1>4, <1>5, <1>6, <1>7, <1>8, Zenon

LEMMA Functs ==
    /\ \A m \in DOMAIN Op     : Op[m][1] \in 0..7 /\ Op[m][2] \in {0, 32} /\ Op[m] = <<Op[m][1], Op[m][2]>>
    /\ \A m \in DOMAIN OpImm  : OpImm[m] \in {0, 2, 3, 4, 6, 7}
    /\ \A m \in DOMAIN Shift  : Shift[m][1] \in {1, 5} /\ Shift[m][2] \in {0, 1024}
    /\ \A m \in DOMAIN Load   : Load[m] \in 0..7
    /\ \A m \in DOMAIN Store  : Store[m] \in 0..7
    /\ \A m \in DOMAIN Branch : Branch[m] \in 0..7
    /\ \A m \in DOMAIN Upper  : Upper[m] \in {55, 23}
    /\ \A m \in DOMAIN Csr    : Csr[m] \in {1, 2, 3, 5, 6, 7}
  <1>1. \A m \in DOMAIN Op     : Op[m][1] \in 0..7 /\ Op[m][2] \in {0, 32} /\ Op[m] = <<Op[m][1], Op[m][2]>>
    BY DEF Op
  <1>2. \A m \in DOMAIN OpImm  : OpImm[m] \in {0, 2, 3, 4, 6, 7}
    BY DEF OpImm
  <1>3. \A m \in DOMAIN Shift  : Shift[m][1] \in {1, 5} /\ Shift[m][2] \in {0, 1024}
    BY DEF Shift
  <1>4. \A m \in DOMAIN Load   : Load[m] \in 0..7
    BY DEF Load
  <1>5. \A m \in DOMAIN Store  : Store[m] \in 0..7
    BY DEF Store
  <1>6. \A m \in DOMAIN Branch : Branch[m] \in 0..7
    BY DEF Branch
  <1>7. \A m \in DOMAIN Upper  : Upper[m] \in {55, 23}
    BY DEF Upper
  <1>8. \A m \in DOMAIN Csr    : Csr[m] \in {1, 2, 3, 5, 6, 7}
    BY DEF Csr
  <1> QED BY <1>1, <1>2, <1>3, <1>4, <1>5, <1>6, <1>7, <1>8, Zenon

-----------------------------------------------------------------------------
(* Which class of instructions an opcode is for.                             *)
LEMMA Opcodes ==
    \A m \in DOMAIN instructions :
      LET opcode == instructions[m].opcode
      IN /\ opcode = 51 => m \in DOMAIN Op
         /\ opcode = 19 => m \in DOMAIN OpImm \cup DOMAIN Shift
         /\ opcode = 3 => m \in DOMAIN Load
         /\ opcode = 35 => m \in DOMAIN Store
         /\ opcode = 99 => m \in DOMAIN Branch
         /\ opcode \in {55, 23} => m \in DOMAIN Upper
         /\ opcode = 111 => m = "JAL"
         /\ opcode = 103 => m = "JALR"
         /\ opcode = 115 => m \in DOMAIN Csr \cup {"ECALL", "EBREAK", "MRET"}
  <1>1. \A m \in DOMAIN instructions : instructions[m].opcode = 51 => m \in DOMAIN Op
    BY SMT DEF instructions, Row, RowR, RowI, RowSh, RowSys, Op
  <1>2. \A m \in DOMAIN instructions : instructions[m].opcode = 19 => m \in DOMAIN OpImm \cup DOMAIN Shift
    BY SMT DEF instructions, Row, RowR, RowI, RowSh, RowSys, OpImm, Shift
  <1>3. \A m \in DOMAIN instructions : instructions[m].opcode = 3 => m \in DOMAIN Load
    BY SMT DEF instructions, Row, RowR, RowI, RowSh, RowSys, Load
  <1>4. \A m \in DOMAIN instructions : instructions[m].opcode = 35 => m \in DOMAIN Store
    BY SMT DEF instructions, Row, RowR, RowI, RowSh, RowSys, Store
  <1>5. \A m \in DOMAIN instructions : instructions[m].opcode = 99 => m \in DOMAIN Branch
    BY SMT DEF instructions, Row, RowR, RowI, RowSh, RowSys, Branch
  <1>6. \A m \in DOMAIN instructions : instructions[m].opcode \in {55, 23} => m \in DOMAIN Upper
    BY SMT DEF instructions, Row, RowR, RowI, RowSh, RowSys, Upper
  <1>7. \A m \in DOMAIN instructions : /\ instructions[m].opcode = 111 => m = "JAL"
                                       /\ instructions[m].opcode = 103 => m = "JALR"
    BY SMT DEF instructions, Row, RowR, RowI, RowSh, RowSys
  <1>8. \A m \in DOMAIN instructions :
           instructions[m].opcode = 115 => m \in DOMAIN Csr \cup {"ECALL", "EBREAK", "MRET"}
    BY SMT DEF instructions, Row, RowR, RowI, RowSh, RowSys, Csr
  <1> QED BY <1>1, <1>2, <1>3, <1>4, <1>5, <1>6, <1>7, <1>8, ZenonT(60)

(* A row takes a word for its instruction.                                   *)
Matches(m, w) ==
    /\ instructions[m].opcode = get_opcode(w)
    /\ instructions[m].funct3 \in {DontCare, get_funct3(w)}
    /\ instructions[m].funct7 \in {DontCare, get_funct7(w)}
    /\ instructions[m].imm12  \in {DontCare, get_imm_i(w)}

LEMMA OneRow ==
    ASSUME NEW w, NEW m \in DOMAIN instructions, Matches(m, w),
           \A x \in DOMAIN instructions : Matches(x, w) => x = m
    PROVE  Decoded(w) = {m}
  <1>1. Decoded(w) = {x \in DOMAIN instructions : Matches(x, w)}
    BY Zenon DEF Decoded, Matches
  <1> QED BY <1>1, Zenon

LEMMA OpDecoded ==
    ASSUME NEW m \in DOMAIN Op, NEW w,
           get_opcode(w) = 51, get_funct3(w) = Op[m][1], get_funct7(w) = Op[m][2]
    PROVE  Decoded(w) = {m}
  <1>1. m \in DOMAIN instructions
    BY Classes, Zenon
  <1>2. Matches(m, w)
    <2>1. instructions[m] = RowR(Op[m][1], Op[m][2])
      BY Rows, Zenon
    <2> QED BY <2>1 DEF Matches, RowR, Row
  <1>3. ASSUME NEW x \in DOMAIN instructions, Matches(x, w) PROVE x = m
    <2>1. x \in DOMAIN Op
      BY <1>3, Opcodes, Zenon DEF Matches
    <2>2. instructions[x] = RowR(Op[x][1], Op[x][2]) /\ Op[x][1] \in 0..7 /\ Op[x][2] \in {0, 32}
      BY <2>1, Rows, Functs
    <2>3. Op[x][1] = Op[m][1] /\ Op[x][2] = Op[m][2]
      BY <1>3, <2>2 DEF Matches, RowR, Row, DontCare
    <2>4. Op[x] = <<Op[x][1], Op[x][2]>> /\ Op[m] = <<Op[m][1], Op[m][2]>>
      BY <2>1, Functs
    <2>5. Op[x] = Op[m]
      BY <2>3, <2>4, Zenon
    <2> QED BY <2>1, <2>5, RowsDiffer, Zenon
  <1> QED BY <1>1, <1>2, <1>3, OneRow, Zenon

LEMMA OpImmDecoded ==
    ASSUME NEW m \in DOMAIN OpImm, NEW w, get_opcode(w) = 19, get_funct3(w) = OpImm[m]
    PROVE  Decoded(w) = {m}
  <1>1. m \in DOMAIN instructions
    BY Classes, Zenon
  <1>2. Matches(m, w)
    <2>1. instructions[m] = RowI(19, OpImm[m])
      BY Rows, ZenonT(60)
    <2> QED BY <2>1 DEF Matches, RowI, Row
  <1>3. ASSUME NEW x \in DOMAIN instructions, Matches(x, w) PROVE x = m
    <2>1. x \in DOMAIN OpImm \cup DOMAIN Shift
      BY <1>3, Opcodes, Zenon DEF Matches
    <2>2. CASE x \in DOMAIN Shift
      <3>1. instructions[x] = RowSh(Shift[x][1], Shift[x][2] \div 32) /\ Shift[x][1] \in {1, 5}
        <4>1. Shift[x][1] \in {1, 5}
          BY <2>2, Functs
        <4> QED BY <2>2, <4>1, Rows, Zenon
      <3>2. OpImm[m] \in {0, 2, 3, 4, 6, 7}
        BY Functs
      <3> QED BY <1>3, <3>1, <3>2 DEF Matches, RowSh, Row, DontCare
    <2>3. CASE x \in DOMAIN OpImm
      <3>1. instructions[x] = RowI(19, OpImm[x]) /\ OpImm[x] \in {0, 2, 3, 4, 6, 7}
        BY <2>3, Rows, Functs
      <3>2. OpImm[x] = OpImm[m]
        BY <1>3, <3>1 DEF Matches, RowI, Row, DontCare
      <3> QED BY <2>3, <3>2, RowsDiffer, Zenon
    <2> QED BY <2>1, <2>2, <2>3, Zenon
  <1> QED BY <1>1, <1>2, <1>3, OneRow, Zenon

LEMMA ShiftDecoded ==
    ASSUME NEW m \in DOMAIN Shift, NEW w, get_opcode(w) = 19, get_funct3(w) = Shift[m][1],
           get_funct7(w) = Shift[m][2] \div 32
    PROVE  Decoded(w) = {m}
  <1>1. m \in DOMAIN instructions
    BY Classes, Zenon
  <1>2. Matches(m, w)
    <2>1. instructions[m] = RowSh(Shift[m][1], Shift[m][2] \div 32)
      BY Rows, Zenon
    <2> QED BY <2>1 DEF Matches, RowSh, Row
  <1>3. ASSUME NEW x \in DOMAIN instructions, Matches(x, w) PROVE x = m
    <2>1. x \in DOMAIN OpImm \cup DOMAIN Shift
      BY <1>3, Opcodes, Zenon DEF Matches
    <2>2. CASE x \in DOMAIN OpImm
      <3>1. instructions[x] = RowI(19, OpImm[x]) /\ OpImm[x] \in {0, 2, 3, 4, 6, 7}
        BY <2>2, Rows, Functs
      <3>2. Shift[m][1] \in {1, 5}
        BY Functs
      <3> QED BY <1>3, <3>1, <3>2 DEF Matches, RowI, Row, DontCare
    <2>3. CASE x \in DOMAIN Shift
      <3> DEFINE f == Shift[x][1]
                 g == Shift[x][2] \div 32
      <3>1. instructions[x] = RowSh(f, g)
        BY <2>3, Rows, ZenonT(60)
      <3>2. f \in {1, 5} /\ g \in {0, 32}
        <4>1. f \in {1, 5} /\ Shift[x][2] \in {0, 1024}
          BY <2>3, Functs
        <4> QED BY <4>1
      <3> HIDE DEF f, g
      <3>3. f = Shift[m][1] /\ g = Shift[m][2] \div 32
        BY <1>3, <3>1, <3>2 DEF Matches, RowSh, Row, DontCare
      <3> QED BY <2>3, <3>3, RowsDiffer, Zenon DEF f, g
    <2> QED BY <2>1, <2>2, <2>3, Zenon
  <1> QED BY <1>1, <1>2, <1>3, OneRow, Zenon

LEMMA LoadDecoded ==
    ASSUME NEW m \in DOMAIN Load, NEW w, get_opcode(w) = 3, get_funct3(w) = Load[m]
    PROVE  Decoded(w) = {m}
  <1>1. m \in DOMAIN instructions
    BY Classes, Zenon
  <1>2. Matches(m, w)
    <2>1. instructions[m] = RowI(3, Load[m])
      BY Rows, ZenonT(60)
    <2> QED BY <2>1 DEF Matches, RowI, Row
  <1>3. ASSUME NEW x \in DOMAIN instructions, Matches(x, w) PROVE x = m
    <2>1. x \in DOMAIN Load
      BY <1>3, Opcodes, Zenon DEF Matches
    <2>2. instructions[x] = RowI(3, Load[x]) /\ Load[x] \in 0..7
      BY <2>1, Rows, Functs
    <2>3. Load[x] = Load[m]
      BY <1>3, <2>2 DEF Matches, RowI, Row, DontCare
    <2> QED BY <2>1, <2>3, RowsDiffer, Zenon
  <1> QED BY <1>1, <1>2, <1>3, OneRow, Zenon

LEMMA StoreDecoded ==
    ASSUME NEW m \in DOMAIN Store, NEW w, get_opcode(w) = 35, get_funct3(w) = Store[m]
    PROVE  Decoded(w) = {m}
  <1>1. m \in DOMAIN instructions
    BY Classes, Zenon
  <1>2. Matches(m, w)
    <2>1. instructions[m] = Row("S", 35, Store[m], DontCare, DontCare)
      BY Rows, Zenon
    <2> QED BY <2>1 DEF Matches, Row
  <1>3. ASSUME NEW x \in DOMAIN instructions, Matches(x, w) PROVE x = m
    <2>1. x \in DOMAIN Store
      BY <1>3, Opcodes, Zenon DEF Matches
    <2>2. instructions[x] = Row("S", 35, Store[x], DontCare, DontCare) /\ Store[x] \in 0..7
      BY <2>1, Rows, Functs
    <2>3. Store[x] = Store[m]
      BY <1>3, <2>2 DEF Matches, Row, DontCare
    <2> QED BY <2>1, <2>3, RowsDiffer, Zenon
  <1> QED BY <1>1, <1>2, <1>3, OneRow, Zenon

LEMMA BranchDecoded ==
    ASSUME NEW m \in DOMAIN Branch, NEW w, get_opcode(w) = 99, get_funct3(w) = Branch[m]
    PROVE  Decoded(w) = {m}
  <1>1. m \in DOMAIN instructions
    BY Classes, Zenon
  <1>2. Matches(m, w)
    <2>1. instructions[m] = Row("B", 99, Branch[m], DontCare, DontCare)
      BY Rows, Zenon
    <2> QED BY <2>1 DEF Matches, Row
  <1>3. ASSUME NEW x \in DOMAIN instructions, Matches(x, w) PROVE x = m
    <2>1. x \in DOMAIN Branch
      BY <1>3, Opcodes, Zenon DEF Matches
    <2>2. instructions[x] = Row("B", 99, Branch[x], DontCare, DontCare) /\ Branch[x] \in 0..7
      BY <2>1, Rows, Functs
    <2>3. Branch[x] = Branch[m]
      BY <1>3, <2>2 DEF Matches, Row, DontCare
    <2> QED BY <2>1, <2>3, RowsDiffer, Zenon
  <1> QED BY <1>1, <1>2, <1>3, OneRow, Zenon

LEMMA UpperDecoded ==
    ASSUME NEW m \in DOMAIN Upper, NEW w, get_opcode(w) = Upper[m]
    PROVE  Decoded(w) = {m}
  <1>1. m \in DOMAIN instructions
    BY Classes, Zenon
  <1>2. Matches(m, w)
    <2>1. instructions[m] = Row("U", Upper[m], DontCare, DontCare, DontCare)
      BY Rows, Zenon
    <2> QED BY <2>1 DEF Matches, Row
  <1>3. ASSUME NEW x \in DOMAIN instructions, Matches(x, w) PROVE x = m
    <2>1. Upper[m] \in {55, 23}
      BY Functs
    <2>2. x \in DOMAIN Upper
      <3>1. instructions[x].opcode \in {55, 23}
        BY <1>3, <2>1, Zenon DEF Matches
      <3> QED BY <3>1, Opcodes, Zenon
    <2>3. instructions[x] = Row("U", Upper[x], DontCare, DontCare, DontCare)
      BY <2>2, Rows
    <2>4. Upper[x] = Upper[m]
      BY <1>3, <2>3 DEF Matches, Row
    <2> QED BY <2>2, <2>4, RowsDiffer, Zenon
  <1> QED BY <1>1, <1>2, <1>3, OneRow, Zenon

LEMMA JumpsDecoded ==
    ASSUME NEW w
    PROVE  /\ get_opcode(w) = 111 => Decoded(w) = {"JAL"}
           /\ get_opcode(w) = 103 /\ get_funct3(w) = 0 => Decoded(w) = {"JALR"}
  <1>1. "JAL" \in DOMAIN instructions /\ "JALR" \in DOMAIN instructions
    BY Classes, Zenon
  <1>2. CASE get_opcode(w) = 111
    <2>1. Matches("JAL", w)
      <3>1. instructions["JAL"] = Row("J", 111, DontCare, DontCare, DontCare)
        BY Rows, Zenon
      <3> QED BY <1>2, <3>1 DEF Matches, Row
    <2>2. ASSUME NEW x \in DOMAIN instructions, Matches(x, w) PROVE x = "JAL"
      BY <1>2, <2>2, Opcodes, Zenon DEF Matches
    <2>3. Decoded(w) = {"JAL"}
      BY <1>1, <2>1, <2>2, OneRow, Zenon
    <2> QED BY <1>2, <2>3
  <1>3. CASE get_opcode(w) = 103 /\ get_funct3(w) = 0
    <2>1. Matches("JALR", w)
      <3>1. instructions["JALR"] = RowI(103, 0)
        BY Rows, Zenon
      <3> QED BY <1>3, <3>1 DEF Matches, RowI, Row
    <2>2. ASSUME NEW x \in DOMAIN instructions, Matches(x, w) PROVE x = "JALR"
      BY <1>3, <2>2, Opcodes, ZenonT(60) DEF Matches
    <2>3. Decoded(w) = {"JALR"}
      BY <1>1, <2>1, <2>2, OneRow, Zenon
    <2> QED BY <1>3, <2>3
  <1> QED BY <1>2, <1>3, Zenon

LEMMA CsrDecoded ==
    ASSUME NEW m \in DOMAIN Csr, NEW w, get_opcode(w) = 115, get_funct3(w) = Csr[m]
    PROVE  Decoded(w) = {m}
  <1>1. m \in DOMAIN instructions
    BY Classes, Zenon
  <1>2. Matches(m, w)
    <2>1. instructions[m] = RowI(115, Csr[m])
      BY Rows, Zenon
    <2> QED BY <2>1 DEF Matches, RowI, Row
  <1>3. ASSUME NEW x \in DOMAIN instructions, Matches(x, w) PROVE x = m
    <2>1. x \in DOMAIN Csr \cup {"ECALL", "EBREAK", "MRET"}
      BY <1>3, Opcodes, ZenonT(60) DEF Matches
    <2>2. CASE x \in {"ECALL", "EBREAK", "MRET"}
      <3>1. instructions[x].funct3 = 0
        BY <2>2, Rows DEF RowSys, Row
      <3>2. Csr[m] \in {1, 2, 3, 5, 6, 7}
        BY Functs
      <3> QED BY <1>3, <3>1, <3>2 DEF Matches, DontCare
    <2>3. CASE x \in DOMAIN Csr
      <3>1. instructions[x] = RowI(115, Csr[x]) /\ Csr[x] \in {1, 2, 3, 5, 6, 7}
        BY <2>3, Rows, Functs
      <3>2. Csr[x] = Csr[m]
        BY <1>3, <3>1 DEF Matches, RowI, Row, DontCare
      <3> QED BY <2>3, <3>2, RowsDiffer, Zenon
    <2> QED BY <2>1, <2>2, <2>3, Zenon
  <1> QED BY <1>1, <1>2, <1>3, OneRow, Zenon

LEMMA SystemDecoded ==
    ASSUME NEW m \in {"ECALL", "EBREAK", "MRET"}, NEW w, get_opcode(w) = 115, get_funct3(w) = 0,
           get_imm_i(w) = IF m = "ECALL" THEN 0 ELSE IF m = "EBREAK" THEN 1 ELSE 770
    PROVE  Decoded(w) = {m}
  <1>1. m \in DOMAIN instructions
    BY Classes, Zenon
  <1>2. Matches(m, w)
    <2>1. instructions[m] = RowSys(get_imm_i(w))
      BY Rows
    <2> QED BY <2>1 DEF Matches, RowSys, Row
  <1>3. ASSUME NEW x \in DOMAIN instructions, Matches(x, w) PROVE x = m
    <2>1. x \in DOMAIN Csr \cup {"ECALL", "EBREAK", "MRET"}
      <3>1. instructions[x].opcode = 115
        BY <1>3, Zenon DEF Matches
      <3> QED BY <3>1, Opcodes, ZenonT(60)
    <2>2. CASE x \in {"ECALL", "EBREAK", "MRET"}
      <3>1. instructions[x].imm12 = IF x = "ECALL" THEN 0 ELSE IF x = "EBREAK" THEN 1 ELSE 770
        BY <2>2, Rows DEF RowSys, Row
      <3> QED BY <1>3, <2>2, <3>1 DEF Matches, DontCare
    <2>3. CASE x \in DOMAIN Csr
      <3>1. instructions[x] = RowI(115, Csr[x]) /\ Csr[x] \in {1, 2, 3, 5, 6, 7}
        BY <2>3, Rows, Functs
      <3> QED BY <1>3, <3>1 DEF Matches, RowI, Row, DontCare
    <2> QED BY <2>1, <2>2, <2>3, Zenon
  <1> QED BY <1>1, <1>2, <1>3, OneRow, Zenon

-----------------------------------------------------------------------------
Line == [op : Mnemonics, rd : Int, rs1 : Int, rs2 : Int, imm : Int]

LEMMA FieldRead ==
    ASSUME NEW w \in Bits32, NEW v \in Int, NEW lo \in 0..31, NEW n \in 1..(32 - lo), n <= 31,
           Holds(w, lo, Low(v, n), n)
    PROVE  Bits(w, lo + n - 1, lo) = Low(v, n) /\ UInt(Bits(w, lo + n - 1, lo)) = v % 2^n
  <1>1. n \in 0..31 /\ n \in 0..32
    OBVIOUS
  <1>2. Low(v, n) \in BitSeq(n) /\ UInt(Low(v, n)) = v % 2^n
    BY <1>1, LowBits, UIntLow, Zenon
  <1>3. Bits(w, lo + n - 1, lo) = Low(v, n)
    BY <1>2, PartHeld, Zenon
  <1> QED BY <1>2, <1>3, Zenon

(* What a field's getter makes of a number put into it.                      *)
LEMMA FieldsRead ==
    ASSUME NEW w \in Bits32, NEW v \in Int
    PROVE  /\ Holds(w, 0, Low(v, 7), 7) => get_opcode(w) = v % 128
           /\ Holds(w, 7, Low(v, 5), 5) => get_rd(w) = v % 32
           /\ Holds(w, 12, Low(v, 3), 3) => get_funct3(w) = v % 8
           /\ Holds(w, 15, Low(v, 5), 5) => get_rs1(w) = v % 32
           /\ Holds(w, 20, Low(v, 5), 5) => get_rs2(w) = v % 32
           /\ Holds(w, 25, Low(v, 7), 7) => get_funct7(w) = v % 128
           /\ Holds(w, 20, Low(v, 12), 12) => Bits(w, 31, 20) = Low(v, 12) /\ get_imm_i(w) = v % 4096
  <1> DEFINE Read(lo, n) == Bits(w, lo + n - 1, lo) = Low(v, n) /\ UInt(Bits(w, lo + n - 1, lo)) = v % 2^n
  <1>1. \A lo \in 0..31, n \in 1..31 : n <= 32 - lo /\ Holds(w, lo, Low(v, n), n) => Read(lo, n)
    <2> TAKE lo \in 0..31, n \in 1..31
    <2> HAVE n <= 32 - lo /\ Holds(w, lo, Low(v, n), n)
    <2>1. n \in 1..(32 - lo) /\ n <= 31
      OBVIOUS
    <2> QED BY <2>1, FieldRead, Zenon
  <1>2. /\ Read(0, 7) => get_opcode(w) = v % 128
        /\ Read(7, 5) => get_rd(w) = v % 32
        /\ Read(12, 3) => get_funct3(w) = v % 8
        /\ Read(15, 5) => get_rs1(w) = v % 32
        /\ Read(20, 5) => get_rs2(w) = v % 32
        /\ Read(25, 7) => get_funct7(w) = v % 128
        /\ Read(20, 12) => Bits(w, 31, 20) = Low(v, 12) /\ get_imm_i(w) = v % 4096
    BY SMT DEF get_opcode, get_rd, get_funct3, get_rs1, get_rs2, get_funct7, get_imm_i
  <1> HIDE DEF Read
  <1>3. /\ Holds(w, 0, Low(v, 7), 7) => Read(0, 7)
        /\ Holds(w, 7, Low(v, 5), 5) => Read(7, 5)
        /\ Holds(w, 12, Low(v, 3), 3) => Read(12, 3)
        /\ Holds(w, 15, Low(v, 5), 5) => Read(15, 5)
        /\ Holds(w, 20, Low(v, 5), 5) => Read(20, 5)
        /\ Holds(w, 25, Low(v, 7), 7) => Read(25, 7)
        /\ Holds(w, 20, Low(v, 12), 12) => Read(20, 12)
    BY <1>1, SMT
  <1> QED BY <1>2, <1>3, SMT

(* No mnemonic is in two classes.                                            *)
LEMMA OneClass ==
    ASSUME NEW m
    PROVE  /\ m \in DOMAIN Op => m \notin UNION {DOMAIN OpImm, DOMAIN Shift, DOMAIN Load, DOMAIN Store,
                DOMAIN Branch, DOMAIN Upper, DOMAIN Csr, DOMAIN System, {"JAL", "JALR"}}
           /\ m \in DOMAIN OpImm => m \notin UNION {DOMAIN Shift, DOMAIN Load, DOMAIN Store,
                DOMAIN Branch, DOMAIN Upper, DOMAIN Csr, DOMAIN System, {"JAL", "JALR"}}
           /\ m \in DOMAIN Shift => m \notin UNION {DOMAIN Load, DOMAIN Store,
                DOMAIN Branch, DOMAIN Upper, DOMAIN Csr, DOMAIN System, {"JAL", "JALR"}}
           /\ m \in DOMAIN Load => m \notin UNION {DOMAIN Store,
                DOMAIN Branch, DOMAIN Upper, DOMAIN Csr, DOMAIN System, {"JAL", "JALR"}}
           /\ m \in DOMAIN Store => m \notin UNION {
                DOMAIN Branch, DOMAIN Upper, DOMAIN Csr, DOMAIN System, {"JAL", "JALR"}}
           /\ m \in DOMAIN Branch => m \notin UNION {DOMAIN Upper, DOMAIN Csr, DOMAIN System, {"JAL", "JALR"}}
           /\ m \in DOMAIN Upper => m \notin UNION {DOMAIN Csr, DOMAIN System, {"JAL", "JALR"}}
           /\ m \in DOMAIN Csr => m \notin UNION {DOMAIN System, {"JAL", "JALR"}}
           /\ m \in DOMAIN System => m \notin {"JAL", "JALR"}
  BY SMT DEF Op, OpImm, Shift, Load, Store, Branch, Upper, Csr, System

LEMMA EncodedByClass ==
    ASSUME NEW i
    PROVE  /\ i.op \in DOMAIN Op =>
                Encoded(i) = EncodeR(51, i.rd, Op[i.op][1], i.rs1, i.rs2, Op[i.op][2])
           /\ i.op \in DOMAIN OpImm  => Encoded(i) = EncodeI(19, i.rd, OpImm[i.op], i.rs1, i.imm)
           /\ i.op \in DOMAIN Shift  =>
                Encoded(i) = EncodeI(19, i.rd, Shift[i.op][1], i.rs1, (i.imm % 32) + Shift[i.op][2])
           /\ i.op \in DOMAIN Load   => Encoded(i) = EncodeI(3, i.rd, Load[i.op], i.rs1, i.imm)
           /\ i.op \in DOMAIN Store  => Encoded(i) = EncodeS(35, Store[i.op], i.rs1, i.rs2, i.imm)
           /\ i.op \in DOMAIN Branch => Encoded(i) = EncodeB(99, Branch[i.op], i.rs1, i.rs2, i.imm)
           /\ i.op \in DOMAIN Upper  => Encoded(i) = EncodeU(Upper[i.op], i.rd, i.imm)
           /\ i.op = "JAL"           => Encoded(i) = EncodeJ(111, i.rd, i.imm)
           /\ i.op = "JALR"          => Encoded(i) = EncodeI(103, i.rd, 0, i.rs1, i.imm)
           /\ i.op \in DOMAIN Csr    => Encoded(i) = EncodeI(115, i.rd, Csr[i.op], i.rs1, i.imm)
           /\ i.op \in DOMAIN System => Encoded(i) = Low(System[i.op], 31) \o <<0>>
  <1> DEFINE m == i.op
             a == m \in DOMAIN Op
             b == m \in DOMAIN OpImm
             c == m \in DOMAIN Shift
             d == m \in DOMAIN Load
             e == m \in DOMAIN Store
             f == m \in DOMAIN Branch
             g == m \in DOMAIN Upper
             h == m = "JAL"
             j == m = "JALR"
             k == m \in DOMAIN Csr
             l == m \in DOMAIN System
  <1>1. /\ a => ~b /\ ~c /\ ~d /\ ~e /\ ~f /\ ~g /\ ~h /\ ~j /\ ~k /\ ~l
        /\ b => ~c /\ ~d /\ ~e /\ ~f /\ ~g /\ ~h /\ ~j /\ ~k /\ ~l
        /\ c => ~d /\ ~e /\ ~f /\ ~g /\ ~h /\ ~j /\ ~k /\ ~l
        /\ d => ~e /\ ~f /\ ~g /\ ~h /\ ~j /\ ~k /\ ~l
        /\ e => ~f /\ ~g /\ ~h /\ ~j /\ ~k /\ ~l
        /\ f => ~g /\ ~h /\ ~j /\ ~k /\ ~l
        /\ g => ~h /\ ~j /\ ~k /\ ~l
        /\ h => ~j /\ ~k /\ ~l
        /\ j => ~k /\ ~l
        /\ k => ~l
    BY OneClass
  <1> QED BY <1>1, SMT DEF Encoded

LEMMA Formats ==
    /\ \A m \in DOMAIN Op     : instructions[m].format = "R"
    /\ \A m \in UNION {DOMAIN OpImm, DOMAIN Shift, DOMAIN Load, DOMAIN Csr} : instructions[m].format = "I"
    /\ \A m \in DOMAIN Store  : instructions[m].format = "S"
    /\ \A m \in DOMAIN Branch : instructions[m].format = "B"
    /\ \A m \in DOMAIN Upper  : instructions[m].format = "U"
    /\ instructions["JAL"].format = "J" /\ instructions["JALR"].format = "I"
  <1>1. \A m \in DOMAIN Op : instructions[m].format = "R"
    BY SMT DEF instructions, Op, RowR, Row
  <1>2. \A m \in DOMAIN OpImm \cup DOMAIN Shift : instructions[m].format = "I"
    BY SMT DEF instructions, OpImm, Shift, RowI, RowSh, Row
  <1>3. \A m \in DOMAIN Load \cup DOMAIN Csr : instructions[m].format = "I"
    BY SMT DEF instructions, Load, Csr, RowI, Row
  <1>4. /\ \A m \in DOMAIN Store : instructions[m].format = "S"
        /\ \A m \in DOMAIN Branch : instructions[m].format = "B"
        /\ \A m \in DOMAIN Upper : instructions[m].format = "U"
        /\ instructions["JAL"].format = "J" /\ instructions["JALR"].format = "I"
    BY SMTT(30) DEF instructions, Store, Branch, Upper, RowI, Row
  <1> QED BY <1>1, <1>2, <1>3, <1>4, Zenon

(* The encoder's word for a line is the table's row for its mnemonic.        *)
Meant(i) == /\ Encoded(i) \in Bits32 /\ Decoded(Encoded(i)) = {i.op}
            /\ i.op \notin DOMAIN System => OperandsKept(i, Encoded(i))

LEMMA OpMeant ==
    ASSUME NEW i \in Line, i.op \in DOMAIN Op
    PROVE  Meant(i)
  <1> DEFINE f3 == Op[i.op][1]
             f7 == Op[i.op][2]
             w  == EncodeR(51, i.rd, f3, i.rs1, i.rs2, f7)
  <1>1. i.rd \in Int /\ i.rs1 \in Int /\ i.rs2 \in Int /\ f3 \in 0..7 /\ f7 \in {0, 32}
    BY Functs DEF Line
  <1>2. Encoded(i) = w
    BY EncodedByClass, Zenon
  <1>3. instructions[i.op].format = "R"
    BY Formats, Zenon
  <1>4. i.op \notin DOMAIN Shift
    BY OneClass, Zenon
  <1> HIDE DEF f3, f7
  <1>5. /\ w \in Bits32
        /\ Holds(w, 0, Low(51, 7), 7) /\ Holds(w, 7, Low(i.rd, 5), 5)
        /\ Holds(w, 12, Low(f3, 3), 3) /\ Holds(w, 15, Low(i.rs1, 5), 5)
        /\ Holds(w, 20, Low(i.rs2, 5), 5) /\ Holds(w, 25, Low(f7, 7), 7)
    <2>1. 51 \in Int /\ f3 \in Int /\ f7 \in Int
      BY <1>1
    <2> HIDE DEF w
    <2> QED BY <1>1, <2>1, RFormat, Zenon DEF w
  <1> HIDE DEF w
  <1>6. /\ get_opcode(w) = 51 % 128 /\ get_rd(w) = i.rd % 32 /\ get_funct3(w) = f3 % 8
        /\ get_rs1(w) = i.rs1 % 32 /\ get_rs2(w) = i.rs2 % 32 /\ get_funct7(w) = f7 % 128
    <2>1. 51 \in Int /\ f3 \in Int /\ f7 \in Int
      BY <1>1
    <2> QED BY <1>1, <1>5, <2>1, FieldsRead
  <1>7. get_opcode(w) = 51 /\ get_funct3(w) = f3 /\ get_funct7(w) = f7
    BY <1>1, <1>6
  <1>8. Decoded(w) = {i.op}
    BY <1>7, OpDecoded, Zenon DEF f3, f7
  <1>9. OperandsKept(i, w)
    BY <1>3, <1>4, <1>6 DEF OperandsKept
  <1> QED BY <1>2, <1>5, <1>8, <1>9 DEF Meant

LEMMA OpImmMeant ==
    ASSUME NEW i \in Line, i.op \in DOMAIN OpImm
    PROVE  Meant(i)
  <1> DEFINE f3 == OpImm[i.op]
             w  == EncodeI(19, i.rd, f3, i.rs1, i.imm)
  <1>1. i.rd \in Int /\ i.rs1 \in Int /\ i.imm \in Int /\ f3 \in 0..7
    BY Functs DEF Line
  <1>2. Encoded(i) = w
    BY EncodedByClass, Zenon
  <1>3. instructions[i.op].format = "I"
    BY Formats, Zenon
  <1>4. i.op \notin DOMAIN Shift
    BY OneClass, Zenon
  <1> HIDE DEF f3
  <1>5. /\ w \in Bits32
        /\ Holds(w, 0, Low(19, 7), 7) /\ Holds(w, 7, Low(i.rd, 5), 5)
        /\ Holds(w, 12, Low(f3, 3), 3) /\ Holds(w, 15, Low(i.rs1, 5), 5)
        /\ Holds(w, 20, Low(i.imm, 12), 12)
    <2>1. 19 \in Int /\ f3 \in Int
      BY <1>1
    <2> HIDE DEF w
    <2> QED BY <1>1, <2>1, IFormat, Zenon DEF w
  <1> HIDE DEF w
  <1>6. /\ get_opcode(w) = 19 % 128 /\ get_rd(w) = i.rd % 32 /\ get_funct3(w) = f3 % 8
        /\ get_rs1(w) = i.rs1 % 32 /\ Bits(w, 31, 20) = Low(i.imm, 12)
    <2>1. 19 \in Int /\ f3 \in Int
      BY <1>1
    <2> QED BY <1>1, <1>5, <2>1, FieldsRead
  <1>7. get_opcode(w) = 19 /\ get_funct3(w) = f3
    BY <1>1, <1>6
  <1>8. Decoded(w) = {i.op}
    BY <1>7, OpImmDecoded, Zenon DEF f3
  <1>9. OperandsKept(i, w)
    BY <1>3, <1>4, <1>6 DEF OperandsKept, Immediate
  <1> QED BY <1>2, <1>5, <1>8, <1>9 DEF Meant

LEMMA LoadMeant ==
    ASSUME NEW i \in Line, i.op \in DOMAIN Load
    PROVE  Meant(i)
  <1> DEFINE f3 == Load[i.op]
             w  == EncodeI(3, i.rd, f3, i.rs1, i.imm)
  <1>1. i.rd \in Int /\ i.rs1 \in Int /\ i.imm \in Int /\ f3 \in 0..7
    BY Functs DEF Line
  <1>2. Encoded(i) = w
    BY EncodedByClass, Zenon
  <1>3. instructions[i.op].format = "I"
    BY Formats, Zenon
  <1>4. i.op \notin DOMAIN Shift
    BY OneClass, Zenon
  <1> HIDE DEF f3
  <1>5. /\ w \in Bits32
        /\ Holds(w, 0, Low(3, 7), 7) /\ Holds(w, 7, Low(i.rd, 5), 5)
        /\ Holds(w, 12, Low(f3, 3), 3) /\ Holds(w, 15, Low(i.rs1, 5), 5)
        /\ Holds(w, 20, Low(i.imm, 12), 12)
    <2>1. 3 \in Int /\ f3 \in Int
      BY <1>1
    <2> HIDE DEF w
    <2> QED BY <1>1, <2>1, IFormat, Zenon DEF w
  <1> HIDE DEF w
  <1>6. /\ get_opcode(w) = 3 % 128 /\ get_rd(w) = i.rd % 32 /\ get_funct3(w) = f3 % 8
        /\ get_rs1(w) = i.rs1 % 32 /\ Bits(w, 31, 20) = Low(i.imm, 12)
    <2>1. 3 \in Int /\ f3 \in Int
      BY <1>1
    <2> QED BY <1>1, <1>5, <2>1, FieldsRead
  <1>7. get_opcode(w) = 3 /\ get_funct3(w) = f3
    BY <1>1, <1>6
  <1>8. Decoded(w) = {i.op}
    BY <1>7, LoadDecoded, Zenon DEF f3
  <1>9. OperandsKept(i, w)
    BY <1>3, <1>4, <1>6 DEF OperandsKept, Immediate
  <1> QED BY <1>2, <1>5, <1>8, <1>9 DEF Meant

LEMMA CsrMeant ==
    ASSUME NEW i \in Line, i.op \in DOMAIN Csr
    PROVE  Meant(i)
  <1> DEFINE f3 == Csr[i.op]
             w  == EncodeI(115, i.rd, f3, i.rs1, i.imm)
  <1>1. i.rd \in Int /\ i.rs1 \in Int /\ i.imm \in Int /\ f3 \in 0..7
    BY Functs DEF Line
  <1>2. Encoded(i) = w
    BY EncodedByClass, Zenon
  <1>3. instructions[i.op].format = "I"
    BY Formats, Zenon
  <1>4. i.op \notin DOMAIN Shift
    BY OneClass, Zenon
  <1> HIDE DEF f3
  <1>5. /\ w \in Bits32
        /\ Holds(w, 0, Low(115, 7), 7) /\ Holds(w, 7, Low(i.rd, 5), 5)
        /\ Holds(w, 12, Low(f3, 3), 3) /\ Holds(w, 15, Low(i.rs1, 5), 5)
        /\ Holds(w, 20, Low(i.imm, 12), 12)
    <2>1. 115 \in Int /\ f3 \in Int
      BY <1>1
    <2> HIDE DEF w
    <2> QED BY <1>1, <2>1, IFormat, Zenon DEF w
  <1> HIDE DEF w
  <1>6. /\ get_opcode(w) = 115 % 128 /\ get_rd(w) = i.rd % 32 /\ get_funct3(w) = f3 % 8
        /\ get_rs1(w) = i.rs1 % 32 /\ Bits(w, 31, 20) = Low(i.imm, 12)
    <2>1. 115 \in Int /\ f3 \in Int
      BY <1>1
    <2> QED BY <1>1, <1>5, <2>1, FieldsRead
  <1>7. get_opcode(w) = 115 /\ get_funct3(w) = f3
    BY <1>1, <1>6
  <1>8. Decoded(w) = {i.op}
    BY <1>7, CsrDecoded, ZenonT(60) DEF f3
  <1>9. OperandsKept(i, w)
    BY <1>3, <1>4, <1>6 DEF OperandsKept, Immediate
  <1> QED BY <1>2, <1>5, <1>8, <1>9 DEF Meant

LEMMA Pieces ==
    ASSUME NEW v \in Int
    PROVE  \A lo \in 0..32, n \in 0..32 : lo + n <= 32 => Slice(v, lo, n) \in BitSeq(n)
  <1> TAKE lo \in 0..32, n \in 0..32
  <1> HAVE lo + n <= 32
  <1>1. lo \in Nat /\ n \in Nat
    OBVIOUS
  <1> QED BY <1>1, SliceBits, Zenon

LEMMA Joins ==
    ASSUME NEW v \in Int
    PROVE  /\ Slice(v, 0, 5) \o Slice(v, 5, 7) = Slice(v, 0, 12)
           /\ Slice(v, 1, 4) \o Slice(v, 5, 6) \o Slice(v, 11, 1) \o Slice(v, 12, 1) = Slice(v, 1, 12)
           /\ Slice(v, 1, 10) \o Slice(v, 11, 1) \o Slice(v, 12, 8) \o Slice(v, 20, 1) = Slice(v, 1, 20)
  <1>1. Slice(v, 0, 5) \o Slice(v, 5, 7) = Slice(v, 0, 12)
    <2>1. 0 \in Nat /\ 5 \in Nat /\ 7 \in Nat /\ 0 + 5 + 7 <= 32
      OBVIOUS
    <2>2. Slice(v, 0, 5) \o Slice(v, 0 + 5, 7) = Slice(v, 0, 5 + 7)
      BY <2>1, SliceJoin, Zenon
    <2>3. 0 + 5 = 5 /\ 5 + 7 = 12
      OBVIOUS
    <2> QED BY <2>2, <2>3, Zenon
  <1>2. Slice(v, 1, 4) \o Slice(v, 5, 6) = Slice(v, 1, 10)
    <2>1. 1 \in Nat /\ 4 \in Nat /\ 6 \in Nat /\ 1 + 4 + 6 <= 32
      OBVIOUS
    <2>2. Slice(v, 1, 4) \o Slice(v, 1 + 4, 6) = Slice(v, 1, 4 + 6)
      BY <2>1, SliceJoin, Zenon
    <2>3. 1 + 4 = 5 /\ 4 + 6 = 10
      OBVIOUS
    <2> QED BY <2>2, <2>3, Zenon
  <1>3. Slice(v, 1, 10) \o Slice(v, 11, 1) = Slice(v, 1, 11)
    <2>1. 1 \in Nat /\ 10 \in Nat /\ 1 \in Nat /\ 1 + 10 + 1 <= 32
      OBVIOUS
    <2>2. Slice(v, 1, 10) \o Slice(v, 1 + 10, 1) = Slice(v, 1, 10 + 1)
      BY <2>1, SliceJoin, Zenon
    <2>3. 1 + 10 = 11 /\ 10 + 1 = 11
      OBVIOUS
    <2> QED BY <2>2, <2>3, Zenon
  <1>4. Slice(v, 1, 11) \o Slice(v, 12, 1) = Slice(v, 1, 12)
    <2>1. 1 \in Nat /\ 11 \in Nat /\ 1 \in Nat /\ 1 + 11 + 1 <= 32
      OBVIOUS
    <2>2. Slice(v, 1, 11) \o Slice(v, 1 + 11, 1) = Slice(v, 1, 11 + 1)
      BY <2>1, SliceJoin, Zenon
    <2>3. 1 + 11 = 12 /\ 11 + 1 = 12
      OBVIOUS
    <2> QED BY <2>2, <2>3, Zenon
  <1>5. Slice(v, 1, 11) \o Slice(v, 12, 8) = Slice(v, 1, 19)
    <2>1. 1 \in Nat /\ 11 \in Nat /\ 8 \in Nat /\ 1 + 11 + 8 <= 32
      OBVIOUS
    <2>2. Slice(v, 1, 11) \o Slice(v, 1 + 11, 8) = Slice(v, 1, 11 + 8)
      BY <2>1, SliceJoin, Zenon
    <2>3. 1 + 11 = 12 /\ 11 + 8 = 19
      OBVIOUS
    <2> QED BY <2>2, <2>3, Zenon
  <1>6. Slice(v, 1, 19) \o Slice(v, 20, 1) = Slice(v, 1, 20)
    <2>1. 1 \in Nat /\ 19 \in Nat /\ 1 \in Nat /\ 1 + 19 + 1 <= 32
      OBVIOUS
    <2>2. Slice(v, 1, 19) \o Slice(v, 1 + 19, 1) = Slice(v, 1, 19 + 1)
      BY <2>1, SliceJoin, Zenon
    <2>3. 1 + 19 = 20 /\ 19 + 1 = 20
      OBVIOUS
    <2> QED BY <2>2, <2>3, Zenon
  <1> QED BY <1>1, <1>2, <1>3, <1>4, <1>5, <1>6, Zenon

LEMMA ShiftSplit ==
    ASSUME NEW imm \in Int, NEW f \in {0, 1024}
    PROVE  LET v == (imm % 32) + f
           IN v \in Int /\ v % 32 = imm % 32 /\ Slice(v, 5, 7) = Low(f \div 32, 7)
  <1> DEFINE s == imm % 32
             v == s + f
             g == f \div 32
  <1>1. s \in 0..31 /\ g \in {0, 32} /\ f = 32 * g
    OBVIOUS
  <1> HIDE DEF s, g
  <1>2. v \in Int /\ v % 32 = s
    BY <1>1
  <1>3. Slice(v, 5, 7) \in BitSeq(7) /\ Low(g, 7) \in BitSeq(7)
    <2>1. v \in Int /\ g \in Int
      BY <1>1, <1>2
    <2> HIDE DEF v
    <2> QED BY <2>1, Pieces DEF Low
  <1> DEFINE A(e) == (v \div 2^e) % 2
             C(e) == (g \div 2^e) % 2
  <1>4. /\ A(5) = C(0) /\ A(6) = C(1) /\ A(7) = C(2) /\ A(8) = C(3)
        /\ A(9) = C(4) /\ A(10) = C(5) /\ A(11) = C(6)
    BY <1>1, SMTT(30)
  <1>5. \A k \in 1..7 : A(5 + k - 1) = C(0 + k - 1)
    <2> HIDE DEF A, C
    <2> QED BY <1>4, SMT
  <1>6. Slice(v, 5, 7) = Low(g, 7)
    <2> DEFINE x == Slice(v, 5, 7)
               y == Low(g, 7)
    <2>1. x \in BitSeq(7) /\ y \in BitSeq(7) /\ \A k \in 1..7 : x[k] = y[k]
      <3> HIDE DEF v
      <3>1. \A k \in 1..7 : x[k] = A(5 + k - 1) /\ y[k] = C(0 + k - 1)
        BY ZenonT(60) DEF Low, Slice
      <3>2. x \in BitSeq(7) /\ y \in BitSeq(7)
        BY <1>3, Zenon
      <3> HIDE DEF x, y, A, C
      <3> QED BY <1>5, <3>1, <3>2, SMT
    <2>2. 7 \in Nat
      OBVIOUS
    <2> HIDE DEF x, y
    <2>3. x = y
      BY <2>1, <2>2, BitSeqEqual
    <2> QED BY <2>3 DEF x, y
  <1> QED BY <1>2, <1>6 DEF s, g

(* A piece made of two is held piece by piece.                               *)
LEMMA HeldInTwo ==
    ASSUME NEW w, NEW m \in Nat, NEW n \in Nat, NEW lo \in Nat, NEW a \in BitSeq(m), NEW b \in BitSeq(n),
           Holds(w, lo, a \o b, m + n)
    PROVE  Holds(w, lo, a, m) /\ Holds(w, lo + m, b, n)
  <1> DEFINE c == a \o b
  <1>1. /\ \A k \in 1..m : c[k] = a[k]
        /\ \A k \in 1..n : c[m + k] = b[k]
    BY JoinBits
  <1> HIDE DEF c
  <1>2. \A k \in 1..(m + n) : w[lo + k] = c[k]
    BY DEF Holds, c
  <1>3. \A k \in 1..m : w[lo + k] = a[k]
    BY <1>1, <1>2
  <1>4. \A k \in 1..n : w[(lo + m) + k] = b[k]
    <2> TAKE k \in 1..n
    <2> DEFINE j == m + k
    <2>1. j \in 1..(m + n) /\ lo + j = (lo + m) + k
      OBVIOUS
    <2>2. w[lo + j] = c[j] /\ c[j] = b[k]
      BY <1>1, <1>2, <2>1
    <2> QED BY <2>1, <2>2
  <1> QED BY <1>3, <1>4 DEF Holds

LEMMA ShiftMeant ==
    ASSUME NEW i \in Line, i.op \in DOMAIN Shift
    PROVE  Meant(i)
  <1> DEFINE f3 == Shift[i.op][1]
             f  == Shift[i.op][2]
             v  == (i.imm % 32) + f
             w  == EncodeI(19, i.rd, f3, i.rs1, v)
  <1>1. i.rd \in Int /\ i.rs1 \in Int /\ i.imm \in Int /\ f3 \in {1, 5} /\ f \in {0, 1024}
    BY Functs DEF Line
  <1>2. Encoded(i) = w
    BY EncodedByClass, Zenon
  <1>3. instructions[i.op].format = "I"
    BY Formats, Zenon
  <1> HIDE DEF f3, f
  <1>4. v \in Int /\ v % 32 = i.imm % 32 /\ Slice(v, 5, 7) = Low(f \div 32, 7)
    BY <1>1, ShiftSplit
  <1> HIDE DEF v
  <1>5. 19 \in Int /\ f3 \in Int /\ f \div 32 \in {0, 32} /\ f \div 32 \in Int
    BY <1>1
  <1>6. /\ w \in Bits32
        /\ Holds(w, 0, Low(19, 7), 7) /\ Holds(w, 7, Low(i.rd, 5), 5)
        /\ Holds(w, 12, Low(f3, 3), 3) /\ Holds(w, 15, Low(i.rs1, 5), 5)
        /\ Holds(w, 20, Low(v, 12), 12)
    <2>1. v \in Int /\ i.rd \in Int /\ i.rs1 \in Int /\ f3 \in Int /\ 19 \in Int
      BY <1>1, <1>4, <1>5
    <2> QED BY <2>1, IFormat, Zenon
  <1> HIDE DEF w
  <1>7. Holds(w, 20, Low(v, 5), 5) /\ Holds(w, 25, Slice(v, 5, 7), 7)
    <2> DEFINE a == Slice(v, 0, 5)
               b == Slice(v, 5, 7)
    <2>1. 0 \in Nat /\ 5 \in Nat /\ 7 \in Nat /\ 0 + 5 = 5 /\ 5 + 7 = 12 /\ 5 <= 32 /\ 0 + 5 + 7 <= 32
          /\ 20 \in Nat /\ 20 + 5 = 25
      OBVIOUS
    <2>2. a \in BitSeq(5) /\ b \in BitSeq(7)
      BY <1>4, <2>1, SliceBits
    <2>3. a \o b = Slice(v, 0, 12)
      <3>1. v \in Int
        BY <1>4
      <3> QED BY <3>1, Joins
    <2>4. Holds(w, 20, a \o b, 5 + 7)
      BY <1>6, <2>1, <2>3, Zenon DEF Low
    <2> HIDE DEF a, b
    <2>5. Holds(w, 20, a, 5) /\ Holds(w, 20 + 5, b, 7)
      BY <2>1, <2>2, <2>4, HeldInTwo, Zenon
    <2> QED BY <2>1, <2>5, Zenon DEF a, b, Low
  <1>8. /\ get_opcode(w) = 19 % 128 /\ get_rd(w) = i.rd % 32 /\ get_funct3(w) = f3 % 8
        /\ get_rs1(w) = i.rs1 % 32 /\ get_rs2(w) = v % 32 /\ get_funct7(w) = (f \div 32) % 128
    BY <1>1, <1>4, <1>5, <1>6, <1>7, FieldsRead
  <1>9. get_opcode(w) = 19 /\ get_funct3(w) = f3 /\ get_funct7(w) = f \div 32
    BY <1>1, <1>5, <1>8
  <1>10. Decoded(w) = {i.op}
    BY <1>9, ShiftDecoded, Zenon DEF f3, f
  <1>11. OperandsKept(i, w)
    BY <1>3, <1>4, <1>8 DEF OperandsKept
  <1> QED BY <1>2, <1>6, <1>10, <1>11 DEF Meant

LEMMA StoreMeant ==
    ASSUME NEW i \in Line, i.op \in DOMAIN Store
    PROVE  Meant(i)
  <1> DEFINE f3 == Store[i.op]
             w  == EncodeS(35, f3, i.rs1, i.rs2, i.imm)
             a  == Low(i.imm, 5)
             b  == Slice(i.imm, 5, 7)
  <1>1. i.rs1 \in Int /\ i.rs2 \in Int /\ i.imm \in Int /\ f3 \in 0..7 /\ f3 \in Int /\ 35 \in Int
    BY Functs DEF Line
  <1>2. Encoded(i) = w
    BY EncodedByClass, Zenon
  <1>3. instructions[i.op].format = "S"
    BY Formats, Zenon
  <1>4. i.op \notin DOMAIN Shift
    BY OneClass, Zenon
  <1> HIDE DEF f3
  <1>5. /\ w \in Bits32
        /\ Holds(w, 0, Low(35, 7), 7) /\ Holds(w, 7, a, 5)
        /\ Holds(w, 12, Low(f3, 3), 3) /\ Holds(w, 15, Low(i.rs1, 5), 5)
        /\ Holds(w, 20, Low(i.rs2, 5), 5) /\ Holds(w, 25, b, 7)
    BY <1>1, SFormat, Zenon
  <1> HIDE DEF w
  <1>6. /\ get_opcode(w) = 35 % 128 /\ get_funct3(w) = f3 % 8
        /\ get_rs1(w) = i.rs1 % 32 /\ get_rs2(w) = i.rs2 % 32
    BY <1>1, <1>5, FieldsRead
  <1>7. get_opcode(w) = 35 /\ get_funct3(w) = f3
    BY <1>1, <1>6
  <1>8. Decoded(w) = {i.op}
    BY <1>7, StoreDecoded, Zenon DEF f3
  <1>9. Bits(w, 11, 7) \o Bits(w, 31, 25) = Low(i.imm, 12)
    <2>1. a \in BitSeq(5) /\ b \in BitSeq(7)
      BY <1>1, Pieces DEF Low
    <2>2. a \o b = Low(i.imm, 12)
      BY <1>1, Joins, Zenon DEF Low
    <2> HIDE DEF a, b
    <2>3. Bits(w, 7 + 5 - 1, 7) = a
      BY <1>5, <2>1, PartHeld
    <2>4. Bits(w, 25 + 7 - 1, 25) = b
      BY <1>5, <2>1, PartHeld
    <2> QED BY <2>2, <2>3, <2>4
  <1>10. OperandsKept(i, w)
    BY <1>3, <1>4, <1>6, <1>9 DEF OperandsKept, Immediate
  <1> QED BY <1>2, <1>5, <1>8, <1>10 DEF Meant

LEMMA BranchMeant ==
    ASSUME NEW i \in Line, i.op \in DOMAIN Branch
    PROVE  Meant(i)
  <1> DEFINE f3 == Branch[i.op]
             w  == EncodeB(99, f3, i.rs1, i.rs2, i.imm)
             a  == Slice(i.imm, 1, 4)
             b  == Slice(i.imm, 5, 6)
             c  == Slice(i.imm, 11, 1)
             d  == Slice(i.imm, 12, 1)
  <1>1. i.rs1 \in Int /\ i.rs2 \in Int /\ i.imm \in Int /\ f3 \in 0..7 /\ f3 \in Int /\ 99 \in Int
    BY Functs DEF Line
  <1>2. Encoded(i) = w
    BY EncodedByClass, Zenon
  <1>3. instructions[i.op].format = "B"
    BY Formats, Zenon
  <1>4. i.op \notin DOMAIN Shift
    BY OneClass, Zenon
  <1> HIDE DEF f3
  <1>5. /\ w \in Bits32
        /\ Holds(w, 0, Low(99, 7), 7) /\ Holds(w, 7, c, 1)
        /\ Holds(w, 8, a, 4) /\ Holds(w, 12, Low(f3, 3), 3)
        /\ Holds(w, 15, Low(i.rs1, 5), 5) /\ Holds(w, 20, Low(i.rs2, 5), 5)
        /\ Holds(w, 25, b, 6) /\ Holds(w, 31, d, 1)
    BY <1>1, BFormat, Zenon
  <1> HIDE DEF w
  <1>6. /\ get_opcode(w) = 99 % 128 /\ get_funct3(w) = f3 % 8
        /\ get_rs1(w) = i.rs1 % 32 /\ get_rs2(w) = i.rs2 % 32
    BY <1>1, <1>5, FieldsRead
  <1>7. get_opcode(w) = 99 /\ get_funct3(w) = f3
    BY <1>1, <1>6
  <1>8. Decoded(w) = {i.op}
    BY <1>7, BranchDecoded, ZenonT(60) DEF f3
  <1>9. Bits(w, 11, 8) \o Bits(w, 30, 25) \o Bits(w, 7, 7) \o Bits(w, 31, 31) = Slice(i.imm, 1, 12)
    <2>1. a \in BitSeq(4) /\ b \in BitSeq(6) /\ c \in BitSeq(1) /\ d \in BitSeq(1)
      BY <1>1, Pieces
    <2>2. ((a \o b) \o c) \o d = Slice(i.imm, 1, 12)
      BY <1>1, Joins, Zenon
    <2> HIDE DEF a, b, c, d
    <2>3. Bits(w, 8 + 4 - 1, 8) = a
      BY <1>5, <2>1, PartHeld
    <2>4. Bits(w, 25 + 6 - 1, 25) = b
      BY <1>5, <2>1, PartHeld
    <2>5. Bits(w, 7 + 1 - 1, 7) = c
      BY <1>5, <2>1, PartHeld
    <2>6. Bits(w, 31 + 1 - 1, 31) = d
      BY <1>5, <2>1, PartHeld
    <2> QED BY <2>2, <2>3, <2>4, <2>5, <2>6
  <1>10. OperandsKept(i, w)
    BY <1>3, <1>4, <1>6, <1>9 DEF OperandsKept, Immediate
  <1> QED BY <1>2, <1>5, <1>8, <1>10 DEF Meant

LEMMA UpperMeant ==
    ASSUME NEW i \in Line, i.op \in DOMAIN Upper
    PROVE  Meant(i)
  <1> DEFINE o == Upper[i.op]
             w == EncodeU(o, i.rd, i.imm)
  <1>1. i.rd \in Int /\ i.imm \in Int /\ o \in {55, 23} /\ o \in Int
    BY Functs DEF Line
  <1>2. Encoded(i) = w
    BY EncodedByClass, Zenon
  <1>3. instructions[i.op].format = "U"
    BY Formats, Zenon
  <1>4. i.op \notin DOMAIN Shift
    BY OneClass, Zenon
  <1> HIDE DEF o
  <1>5. /\ w \in Bits32
        /\ Holds(w, 0, Low(o, 7), 7) /\ Holds(w, 7, Low(i.rd, 5), 5) /\ Holds(w, 12, Low(i.imm, 20), 20)
    BY <1>1, UFormat, Zenon
  <1> HIDE DEF w
  <1>6. get_opcode(w) = o % 128 /\ get_rd(w) = i.rd % 32
    BY <1>1, <1>5, FieldsRead
  <1>7. get_opcode(w) = o
    BY <1>1, <1>6
  <1>8. Decoded(w) = {i.op}
    BY <1>7, UpperDecoded, Zenon DEF o
  <1>9. Bits(w, 31, 12) = Low(i.imm, 20)
    <2>1. Low(i.imm, 20) \in BitSeq(20)
      BY <1>1, Pieces DEF Low
    <2>2. Bits(w, 12 + 20 - 1, 12) = Low(i.imm, 20)
      BY <1>5, <2>1, PartHeld
    <2> QED BY <2>2
  <1>10. OperandsKept(i, w)
    BY <1>3, <1>4, <1>6, <1>9 DEF OperandsKept, Immediate
  <1> QED BY <1>2, <1>5, <1>8, <1>10 DEF Meant

LEMMA JumpMeant ==
    ASSUME NEW i \in Line, i.op = "JAL"
    PROVE  Meant(i)
  <1> DEFINE w == EncodeJ(111, i.rd, i.imm)
             a == Slice(i.imm, 1, 10)
             b == Slice(i.imm, 11, 1)
             c == Slice(i.imm, 12, 8)
             d == Slice(i.imm, 20, 1)
  <1>1. i.rd \in Int /\ i.imm \in Int /\ 111 \in Int
    BY DEF Line
  <1>2. Encoded(i) = w
    BY EncodedByClass, Zenon
  <1>3. instructions[i.op].format = "J"
    BY Formats, Zenon
  <1>4. i.op \notin DOMAIN Shift
    BY OneClass, Zenon
  <1>5. /\ w \in Bits32
        /\ Holds(w, 0, Low(111, 7), 7) /\ Holds(w, 7, Low(i.rd, 5), 5)
        /\ Holds(w, 12, c, 8) /\ Holds(w, 20, b, 1)
        /\ Holds(w, 21, a, 10) /\ Holds(w, 31, d, 1)
    BY <1>1, JFormat, Zenon
  <1> HIDE DEF w
  <1>6. get_opcode(w) = 111 % 128 /\ get_rd(w) = i.rd % 32
    BY <1>1, <1>5, FieldsRead
  <1>7. get_opcode(w) = 111
    BY <1>6
  <1>8. Decoded(w) = {i.op}
    BY <1>7, JumpsDecoded, Zenon
  <1>9. Bits(w, 30, 21) \o Bits(w, 20, 20) \o Bits(w, 19, 12) \o Bits(w, 31, 31) = Slice(i.imm, 1, 20)
    <2>1. a \in BitSeq(10) /\ b \in BitSeq(1) /\ c \in BitSeq(8) /\ d \in BitSeq(1)
      BY <1>1, Pieces
    <2>2. ((a \o b) \o c) \o d = Slice(i.imm, 1, 20)
      BY <1>1, Joins, Zenon
    <2> HIDE DEF a, b, c, d
    <2>3. Bits(w, 21 + 10 - 1, 21) = a
      BY <1>5, <2>1, PartHeld
    <2>4. Bits(w, 20 + 1 - 1, 20) = b
      BY <1>5, <2>1, PartHeld
    <2>5. Bits(w, 12 + 8 - 1, 12) = c
      BY <1>5, <2>1, PartHeld
    <2>6. Bits(w, 31 + 1 - 1, 31) = d
      BY <1>5, <2>1, PartHeld
    <2> QED BY <2>2, <2>3, <2>4, <2>5, <2>6
  <1>10. OperandsKept(i, w)
    BY <1>3, <1>4, <1>6, <1>9 DEF OperandsKept, Immediate
  <1> QED BY <1>2, <1>5, <1>8, <1>10 DEF Meant

LEMMA JumpRegisterMeant ==
    ASSUME NEW i \in Line, i.op = "JALR"
    PROVE  Meant(i)
  <1> DEFINE w == EncodeI(103, i.rd, 0, i.rs1, i.imm)
  <1>1. i.rd \in Int /\ i.rs1 \in Int /\ i.imm \in Int /\ 103 \in Int /\ 0 \in Int
    BY DEF Line
  <1>2. Encoded(i) = w
    BY EncodedByClass, Zenon
  <1>3. instructions[i.op].format = "I"
    BY Formats, Zenon
  <1>4. i.op \notin DOMAIN Shift
    BY OneClass, Zenon
  <1>5. /\ w \in Bits32
        /\ Holds(w, 0, Low(103, 7), 7) /\ Holds(w, 7, Low(i.rd, 5), 5)
        /\ Holds(w, 12, Low(0, 3), 3) /\ Holds(w, 15, Low(i.rs1, 5), 5)
        /\ Holds(w, 20, Low(i.imm, 12), 12)
    BY <1>1, IFormat, ZenonT(60)
  <1> HIDE DEF w
  <1>6. /\ get_opcode(w) = 103 % 128 /\ get_rd(w) = i.rd % 32 /\ get_funct3(w) = 0 % 8
        /\ get_rs1(w) = i.rs1 % 32 /\ Bits(w, 31, 20) = Low(i.imm, 12)
    BY <1>1, <1>5, FieldsRead
  <1>7. get_opcode(w) = 103 /\ get_funct3(w) = 0
    BY <1>6
  <1>8. Decoded(w) = {i.op}
    BY <1>7, JumpsDecoded, ZenonT(60)
  <1>9. OperandsKept(i, w)
    BY <1>3, <1>4, <1>6 DEF OperandsKept, Immediate
  <1> QED BY <1>2, <1>5, <1>8, <1>9 DEF Meant

(* An instruction without operands is written as a whole word.               *)
LEMMA WholeWord ==
    ASSUME NEW v \in Int
    PROVE  LET w == Low(v, 31) \o <<0>>
           IN w \in Bits32 /\ w[32] = 0 /\ \A k \in 1..31 : w[k] = (v \div 2^(k - 1)) % 2
  <1> DEFINE a == Low(v, 31)
             z == <<0>>
  <1>1. a \in BitSeq(31) /\ \A k \in 1..31 : a[k] = (v \div 2^(k - 1)) % 2
    <2>1. 31 \in 0..32
      OBVIOUS
    <2> QED BY <2>1, LowBits, Zenon
  <1>2. z \in BitSeq(1) /\ z[1] = 0
    BY DEF BitSeq, Bit
  <1> HIDE DEF a, z
  <1>3. /\ a \o z \in BitSeq(31 + 1) /\ \A k \in 1..31 : (a \o z)[k] = a[k]
        /\ \A k \in 1..1 : (a \o z)[31 + k] = z[k]
    <2>1. 31 \in Nat /\ 1 \in Nat
      OBVIOUS
    <2> QED BY <1>1, <1>2, <2>1, JoinBits, ZenonT(60)
  <1>4. 31 + 1 = 32 /\ 1 \in 1..1
    OBVIOUS
  <1>5. (a \o z)[32] = 0 /\ a \o z \in Bits32
    BY <1>2, <1>3, <1>4, Zenon DEF BitSeq, Bits32
  <1> QED BY <1>1, <1>3, <1>4, <1>5, Zenon DEF a, z

LEMMA SystemMeant ==
    ASSUME NEW i \in Line, i.op \in {"ECALL", "EBREAK", "MRET"}
    PROVE  Meant(i)
  <1> DEFINE imm == IF i.op = "ECALL" THEN 0 ELSE IF i.op = "EBREAK" THEN 1 ELSE 770
             v   == System[i.op]
             w   == Low(v, 31) \o <<0>>
  <1>1. i.op \in DOMAIN System /\ v = 1048576 * imm + 115 /\ imm \in {0, 1, 770}
    BY SMT DEF System
  <1>2. Encoded(i) = w
    <2>1. i.op \in DOMAIN System
      BY <1>1, SMT
    <2> QED BY <2>1, EncodedByClass, Zenon
  <1> HIDE DEF imm, v
  <1>3. v \in Int /\ imm \in Int /\ 115 \in Int /\ 0 \in Int
    BY <1>1, SMT
  <1>4. w \in Bits32 /\ w[32] = 0 /\ \A k \in 1..31 : w[k] = (v \div 2^(k - 1)) % 2
    BY <1>3, WholeWord, Zenon
  <1> HIDE DEF w
  <1>5. /\ (v \div 2^0) % 2 = (115 \div 2^0) % 2 /\ (v \div 2^1) % 2 = (115 \div 2^1) % 2
        /\ (v \div 2^2) % 2 = (115 \div 2^2) % 2 /\ (v \div 2^3) % 2 = (115 \div 2^3) % 2
        /\ (v \div 2^4) % 2 = (115 \div 2^4) % 2 /\ (v \div 2^5) % 2 = (115 \div 2^5) % 2
        /\ (v \div 2^6) % 2 = (115 \div 2^6) % 2
    BY <1>1, SMT
  <1>6. /\ (v \div 2^12) % 2 = (0 \div 2^0) % 2 /\ (v \div 2^13) % 2 = (0 \div 2^1) % 2
        /\ (v \div 2^14) % 2 = (0 \div 2^2) % 2
    BY <1>1, SMT
  <1>7. /\ (v \div 2^20) % 2 = (imm \div 2^0) % 2
        /\ (v \div 2^21) % 2 = (imm \div 2^1) % 2
        /\ (v \div 2^22) % 2 = (imm \div 2^2) % 2
        /\ (v \div 2^23) % 2 = (imm \div 2^3) % 2
        /\ (v \div 2^24) % 2 = (imm \div 2^4) % 2
        /\ (v \div 2^25) % 2 = (imm \div 2^5) % 2
        /\ (v \div 2^26) % 2 = (imm \div 2^6) % 2
        /\ (v \div 2^27) % 2 = (imm \div 2^7) % 2
        /\ (v \div 2^28) % 2 = (imm \div 2^8) % 2
        /\ (v \div 2^29) % 2 = (imm \div 2^9) % 2
        /\ (v \div 2^30) % 2 = (imm \div 2^10) % 2
        /\ (imm \div 2^11) % 2 = 0
    BY <1>1, SMT
  <1> HIDE DEF imm
  <1>8. Holds(w, 0, Low(115, 7), 7)
    <2> SUFFICES ASSUME NEW k \in 1..7 PROVE w[0 + k] = Low(115, 7)[k]
      BY Zenon DEF Holds
    <2>1. Low(115, 7)[k] = (115 \div 2^(k - 1)) % 2
      <3>1. 7 \in 0..32
        OBVIOUS
      <3> QED BY <1>3, <3>1, LowBits, ZenonT(60)
    <2>2. w[0 + k] = (v \div 2^((0 + k) - 1)) % 2
      <3>1. 0 + k \in 1..31
        OBVIOUS
      <3> QED BY <1>4, <3>1, Zenon
    <2>3. \/ (k = 1 /\ (0 + k) - 1 = 0 /\ k - 1 = 0)
          \/ (k = 2 /\ (0 + k) - 1 = 1 /\ k - 1 = 1)
          \/ (k = 3 /\ (0 + k) - 1 = 2 /\ k - 1 = 2)
          \/ (k = 4 /\ (0 + k) - 1 = 3 /\ k - 1 = 3)
          \/ (k = 5 /\ (0 + k) - 1 = 4 /\ k - 1 = 4)
          \/ (k = 6 /\ (0 + k) - 1 = 5 /\ k - 1 = 5)
          \/ (k = 7 /\ (0 + k) - 1 = 6 /\ k - 1 = 6)
      OBVIOUS
    <2>4. (v \div 2^((0 + k) - 1)) % 2 = (115 \div 2^(k - 1)) % 2
      BY <1>5, <2>3, ZenonT(60)
    <2> QED BY <2>1, <2>2, <2>4, Zenon
  <1>9. Holds(w, 12, Low(0, 3), 3)
    <2> SUFFICES ASSUME NEW k \in 1..3 PROVE w[12 + k] = Low(0, 3)[k]
      BY Zenon DEF Holds
    <2>1. Low(0, 3)[k] = (0 \div 2^(k - 1)) % 2
      <3>1. 3 \in 0..32
        OBVIOUS
      <3> QED BY <1>3, <3>1, LowBits, Zenon
    <2>2. w[12 + k] = (v \div 2^((12 + k) - 1)) % 2
      <3>1. 12 + k \in 1..31
        OBVIOUS
      <3> QED BY <1>4, <3>1, Zenon
    <2>3. \/ (k = 1 /\ (12 + k) - 1 = 12 /\ k - 1 = 0)
          \/ (k = 2 /\ (12 + k) - 1 = 13 /\ k - 1 = 1)
          \/ (k = 3 /\ (12 + k) - 1 = 14 /\ k - 1 = 2)
      OBVIOUS
    <2>4. (v \div 2^((12 + k) - 1)) % 2 = (0 \div 2^(k - 1)) % 2
      BY <1>6, <2>3, Zenon
    <2> QED BY <2>1, <2>2, <2>4, Zenon
  <1>10. Holds(w, 20, Low(imm, 12), 12)
    <2> SUFFICES ASSUME NEW k \in 1..12 PROVE w[20 + k] = Low(imm, 12)[k]
      BY Zenon DEF Holds
    <2>1. Low(imm, 12)[k] = (imm \div 2^(k - 1)) % 2
      <3>1. 12 \in 0..32
        OBVIOUS
      <3> QED BY <1>3, <3>1, LowBits, Zenon
    <2>2. CASE k \in 1..11
      <3>1. w[20 + k] = (v \div 2^((20 + k) - 1)) % 2
        <4>1. 20 + k \in 1..31
          BY <2>2
        <4> QED BY <1>4, <4>1, Zenon
      <3>2. \/ (k = 1 /\ (20 + k) - 1 = 20 /\ k - 1 = 0)
            \/ (k = 2 /\ (20 + k) - 1 = 21 /\ k - 1 = 1)
            \/ (k = 3 /\ (20 + k) - 1 = 22 /\ k - 1 = 2)
            \/ (k = 4 /\ (20 + k) - 1 = 23 /\ k - 1 = 3)
            \/ (k = 5 /\ (20 + k) - 1 = 24 /\ k - 1 = 4)
            \/ (k = 6 /\ (20 + k) - 1 = 25 /\ k - 1 = 5)
            \/ (k = 7 /\ (20 + k) - 1 = 26 /\ k - 1 = 6)
            \/ (k = 8 /\ (20 + k) - 1 = 27 /\ k - 1 = 7)
            \/ (k = 9 /\ (20 + k) - 1 = 28 /\ k - 1 = 8)
            \/ (k = 10 /\ (20 + k) - 1 = 29 /\ k - 1 = 9)
            \/ (k = 11 /\ (20 + k) - 1 = 30 /\ k - 1 = 10)
        BY <2>2
      <3> QED BY <1>7, <2>1, <3>1, <3>2, Zenon
    <2>3. CASE k \notin 1..11
      <3>1. k - 1 = 11 /\ 20 + k = 32
        BY <2>3
      <3> QED BY <1>4, <1>7, <2>1, <3>1, Zenon
    <2> QED BY <2>2, <2>3
  <1>11. /\ get_opcode(w) = 115 % 128 /\ get_funct3(w) = 0 % 8 /\ get_imm_i(w) = imm % 4096
    BY <1>3, <1>4, <1>8, <1>9, <1>10, FieldsRead, SMT
  <1>12. get_opcode(w) = 115 /\ get_funct3(w) = 0 /\ get_imm_i(w) = imm
    BY <1>1, <1>11, SMT
  <1>13. Decoded(w) = {i.op}
    BY <1>12, SystemDecoded, SMT DEF imm
  <1> QED BY <1>1, <1>2, <1>4, <1>13, SMT DEF Meant

(* Every line is 32 bits, and what the decode table has is what was meant.   *)
LEMMA LinesAreMeant ==
    ASSUME NEW i \in Line
    PROVE  Encoded(i) \in Bits32 /\ (i.op # "FENCE" => Meant(i))
  <1>1. CASE i.op = "FENCE"
    <2>1. i.op \in DOMAIN System /\ System[i.op] \in Int
      BY <1>1, SMT DEF System
    <2>2. Encoded(i) = Low(System[i.op], 31) \o <<0>>
      BY <2>1, EncodedByClass, Zenon
    <2> QED BY <1>1, <2>1, <2>2, WholeWord, Zenon
  <1>2. CASE i.op # "FENCE"
    <2>1. \/ i.op \in UNION {DOMAIN Op, DOMAIN OpImm, DOMAIN Shift, DOMAIN Load, DOMAIN Store, DOMAIN Branch,
                            DOMAIN Upper, DOMAIN Csr}
          \/ i.op \in {"JAL", "JALR", "ECALL", "EBREAK", "MRET"}
      <3>1. i.op \in Mnemonics
        BY DEF Line
      <3>2. DOMAIN System \subseteq {"ECALL", "EBREAK", "MRET", "FENCE"}
        BY SMT DEF System
      <3> QED BY <1>2, <3>1, <3>2, Zenon DEF Mnemonics
    <2>2. Meant(i)
      BY <2>1, OpMeant, OpImmMeant, ShiftMeant, LoadMeant, StoreMeant, BranchMeant, UpperMeant, CsrMeant,
         JumpMeant, JumpRegisterMeant, SystemMeant, Zenon
    <2> QED BY <2>2, Zenon DEF Meant
  <1> QED BY <1>1, <1>2, Zenon

-----------------------------------------------------------------------------
(* Code of at most n lines.                                                  *)
Code(n) == {s \in Seq(Line) : Len(s) <= n}

LEMMA Named ==
    {"ADD", "SUB", "SLT", "SLTU", "XOR", "SRL", "SRA", "OR", "AND", "ADDI", "SLTI", "SLTIU", "XORI", "ORI", "ANDI",
     "SLLI", "SRLI", "SRAI", "LB", "LH", "LW", "LBU", "LHU", "SB", "SH", "SW", "BEQ", "BNE", "BLT", "BGE", "BLTU",
     "BGEU", "LUI", "AUIPC", "JAL", "JALR", "EBREAK"} \subseteq Mnemonics
  BY SMT DEF Mnemonics, Op, OpImm, Shift, Load, Store, Branch, Upper, Csr, System

LEMMA LineMade ==
    ASSUME NEW op \in Mnemonics
    PROVE  /\ \A rd, rs1, rs2, imm \in Int : Insn(op, rd, rs1, rs2, imm) \in Line
           /\ \A rd, rs1, rs2 \in Int : R(op, rd, rs1, rs2) \in Line
           /\ \A rd, rs1, imm \in Int : I(op, rd, rs1, imm) \in Line
           /\ \A rs2, imm, rs1 \in Int : S(op, rs2, imm, rs1) \in Line
           /\ \A rs1, rs2, offset \in Int : B(op, rs1, rs2, offset) \in Line
           /\ \A rd, imm \in Int : U(op, rd, imm) \in Line
           /\ \A rd, offset \in Int : J(op, rd, offset) \in Line
           /\ N(op) \in Line
  BY DEF Insn, R, I, S, B, U, J, N, Line

LEMMA Lines ==
    /\ \A op \in {"ADD", "SUB", "SLT", "SLTU", "XOR", "SRL", "SRA", "OR", "AND"}, rd, rs1, rs2 \in Int :
          R(op, rd, rs1, rs2) \in Line
    /\ \A op \in {"ADDI", "SLTI", "SLTIU", "XORI", "ORI", "ANDI", "SLLI", "SRLI", "SRAI", "LB", "LH", "LW", "LBU",
                  "LHU", "JALR"}, rd, rs1, imm \in Int :
          I(op, rd, rs1, imm) \in Line
    /\ \A op \in {"SB", "SH", "SW"}, rs2, imm, rs1 \in Int : S(op, rs2, imm, rs1) \in Line
    /\ \A op \in {"BEQ", "BNE", "BLT", "BGE", "BLTU", "BGEU"}, rs1, rs2, offset \in Int :
          B(op, rs1, rs2, offset) \in Line
    /\ \A op \in {"LUI", "AUIPC"}, rd, imm \in Int : U(op, rd, imm) \in Line
    /\ \A rd, offset \in Int : J("JAL", rd, offset) \in Line
    /\ N("EBREAK") \in Line
  BY Named, LineMade, ZenonT(60)

LEMMA Joined ==
    ASSUME NEW m \in Nat, NEW n \in Nat, NEW a \in Code(m), NEW b \in Code(n)
    PROVE  a \o b \in Code(m + n) /\ Len(a \o b) = Len(a) + Len(b)
  BY DEF Code

(* Two lines of a test: an instruction and the sum of its result.            *)
LEMMA SummedCode ==
    ASSUME NEW insn \in Line
    PROVE  Summed(insn) \in Code(2)
  <1>1. R("ADD", 10, 10, insn.rd) \in Line
    <2>1. insn.rd \in Int /\ 10 \in Int
      BY DEF Line
    <2> QED BY <2>1, Lines, Zenon
  <1> QED BY <1>1 DEF Summed, Code

LEMMA SubtestCode ==
    ASSUME NEW value \in Int, NEW store \in {"SB", "SH", "SW"}, NEW offset \in Int,
           NEW load \in {"LB", "LH", "LW", "LBU", "LHU"}
    PROVE  Subtest(value, store, offset, load) \in Code(5)
  <1> DEFINE a == I("ADDI", 11, 0, value)
             b == S(store, 11, offset, 9)
             c == I(load, 12, 9, offset)
             d == B("BNE", 12, 11, 8)
             e == I("ADDI", 10, 10, 1)
  <1>1. a \in Line /\ b \in Line /\ c \in Line /\ d \in Line /\ e \in Line
    BY Lines
  <1> HIDE DEF a, b, c, d, e
  <1>2. <<a, b, c, d, e>> \in Code(5)
    BY <1>1 DEF Code
  <1> QED BY <1>2 DEF Subtest, a, b, c, d, e

LEMMA TakenCode ==
    ASSUME NEW branch \in Line
    PROVE  Taken(branch) \in Code(3)
  <1>1. I("ADDI", 10, 0, -999) \in Line /\ I("ADDI", 10, 10, 1) \in Line
    BY Lines
  <1> QED BY <1>1 DEF Taken, Code

LEMMA FieldNumber ==
    ASSUME NEW value \in Bits32
    PROVE  Field(value, 31, 12) \in Int /\ Field(value, 11, 0) \in 0..4095
  <1>1. Bits(value, 31, 12) \in BitSeq(20) /\ Bits(value, 11, 0) \in BitSeq(12)
    <2>1. 12 \in 0..31 /\ 31 \in 12..31 /\ 0 \in 0..31 /\ 11 \in 0..31
      OBVIOUS
    <2>2. Bits(value, 31, 12) \in BitSeq(31 - 12 + 1) /\ Bits(value, 11, 0) \in BitSeq(11 - 0 + 1)
      BY <2>1, PartBits, Zenon
    <2> QED BY <2>2
  <1>2. UInt(Bits(value, 31, 12)) \in 0..(2^20 - 1) /\ UInt(Bits(value, 11, 0)) \in 0..(2^12 - 1)
    BY <1>1, UIntRange
  <1> QED BY <1>2, SMTT(30) DEF Field

LEMMA LoadImm32Code ==
    ASSUME NEW rd \in Int, NEW value \in Bits32
    PROVE  LoadImm32(rd, value) \in Code(2) /\ Len(LoadImm32(rd, value)) = 2
  <1> DEFINE lower12 == Field(value, 11, 0)
             upper20 == Field(value, 31, 12)
             a == U("LUI", rd, (upper20 + 1) % 2^20)
             b == I("ADDI", rd, rd, lower12 - 4096)
             c == U("LUI", rd, upper20)
             d == I("ADDI", rd, rd, lower12)
  <1>1. lower12 \in Int /\ upper20 \in Int
    <2>1. Field(value, 31, 12) \in Int /\ Field(value, 11, 0) \in 0..4095
      BY FieldNumber
    <2> QED BY <2>1, SMTT(30)
  <1>2. LoadImm32(rd, value) = IF lower12 >= 2048 THEN <<a, b>> ELSE <<c, d>>
    BY Zenon DEF LoadImm32
  <1> HIDE DEF lower12, upper20
  <1>3. (upper20 + 1) % 2^20 \in Int /\ lower12 - 4096 \in Int
    BY <1>1, SMT
  <1>4. a \in Line /\ b \in Line /\ c \in Line /\ d \in Line
    BY <1>1, <1>3, Lines, SMT
  <1> HIDE DEF a, b, c, d
  <1> QED BY <1>2, <1>4, SMT DEF Code

LEMMA Sum100Code == build_sum100.code \in Code(60)
  <1> DEFINE l0 == I("ADDI", 10, 0, 0)
             l1 == I("ADDI", 11, 0, 1)
             l2 == I("ADDI", 12, 0, 101)
             l3 == R("ADD", 10, 10, 11)
             l4 == I("ADDI", 11, 11, 1)
             l5 == B("BNE", 11, 12, From(5, 3))
             s0 == <<l0, l1, l2, l3, l4, l5>>
             l6 == N("EBREAK")
             s1 == <<l6>>
  <1>1. l0 \in Line /\ l1 \in Line /\ l2 \in Line /\ l3 \in Line /\ l4 \in Line /\ l5 \in Line /\ l6
        \in Line
    BY Lines DEF From
  <1> HIDE DEF l0, l1, l2, l3, l4, l5, l6
  <1>2. s0 \in Code(10) /\ s1 \in Code(10)
    BY <1>1 DEF Code
  <1>3. build_sum100.code = s0 \o s1
    BY DEF build_sum100, Result, l0, l1, l2, l3, l4, l5, l6
  <1> HIDE DEF s0, s1
  <1> QED BY <1>2, <1>3, Joined DEF Code

LEMMA FibonacciCode == build_fibonacci.code \in Code(60)
  <1> DEFINE l0 == I("ADDI", 10, 0, 0)
             l1 == I("ADDI", 11, 0, 1)
             l2 == I("ADDI", 12, 0, 10)
             l3 == R("ADD", 13, 10, 11)
             l4 == I("ADDI", 10, 11, 0)
             l5 == I("ADDI", 11, 13, 0)
             l6 == I("ADDI", 12, 12, -1)
             l7 == B("BNE", 12, 0, From(7, 3))
             s0 == <<l0, l1, l2, l3, l4, l5, l6, l7>>
             l8 == N("EBREAK")
             s1 == <<l8>>
  <1>1. l0 \in Line /\ l1 \in Line /\ l2 \in Line /\ l3 \in Line /\ l4 \in Line /\ l5 \in Line /\ l6
        \in Line /\ l7 \in Line /\ l8 \in Line
    BY Lines DEF From
  <1> HIDE DEF l0, l1, l2, l3, l4, l5, l6, l7, l8
  <1>2. s0 \in Code(10) /\ s1 \in Code(10)
    BY <1>1 DEF Code
  <1>3. build_fibonacci.code = s0 \o s1
    BY DEF build_fibonacci, Result, l0, l1, l2, l3, l4, l5, l6, l7, l8
  <1> HIDE DEF s0, s1
  <1> QED BY <1>2, <1>3, Joined DEF Code

LEMMA AuipcCode == build_auipc.code \in Code(60)
  <1> DEFINE l0 == I("ADDI", 10, 0, 0)
             l1 == U("AUIPC", 11, 0)
             l2 == U("LUI", 12, \h80000)
             l3 == I("ADDI", 12, 12, 4)
             l4 == B("BEQ", 11, 12, 8)
             l5 == I("ADDI", 10, 0, -1)
             l6 == I("ADDI", 10, 10, 1)
             s0 == <<l0, l1, l2, l3, l4, l5, l6>>
             l7 == N("EBREAK")
             s1 == <<l7>>
  <1>1. l0 \in Line /\ l1 \in Line /\ l2 \in Line /\ l3 \in Line /\ l4 \in Line /\ l5 \in Line /\ l6
        \in Line /\ l7 \in Line
    BY Lines DEF From
  <1> HIDE DEF l0, l1, l2, l3, l4, l5, l6, l7
  <1>2. s0 \in Code(10) /\ s1 \in Code(10)
    BY <1>1 DEF Code
  <1>3. build_auipc.code = s0 \o s1
    BY DEF build_auipc, Result, l0, l1, l2, l3, l4, l5, l6, l7
  <1> HIDE DEF s0, s1
  <1> QED BY <1>2, <1>3, Joined DEF Code


LEMMA RegArithCode == build_reg_arith.code \in Code(60)
  <1> DEFINE a == <<I("ADDI", 10, 0, 0), I("ADDI", 11, 0, 20), I("ADDI", 12, 0, 12)>>
             b == Summed(R("SUB", 13, 11, 12))
             c == Summed(R("XOR", 13, 11, 12))
             d == Summed(R("OR", 13, 11, 12))
             e == <<I("ADDI", 14, 0, 5)>>
             f == Summed(R("SLT", 13, 14, 12))
             g == Summed(R("SLTU", 13, 14, 12))
             h == <<I("ADDI", 15, 0, 128)>>
             j == Summed(R("SRL", 13, 15, 14))
             k == <<I("ADDI", 16, 0, -128)>>
             l == Summed(R("SRA", 13, 16, 14))
             m == <<N("EBREAK")>>
  <1>1. a \in Code(3) /\ e \in Code(1) /\ h \in Code(1) /\ k \in Code(1) /\ m \in Code(1)
    <2>1. /\ I("ADDI", 10, 0, 0) \in Line /\ I("ADDI", 11, 0, 20) \in Line /\ I("ADDI", 12, 0, 12) \in Line
          /\ I("ADDI", 14, 0, 5) \in Line /\ I("ADDI", 15, 0, 128) \in Line /\ I("ADDI", 16, 0, -128) \in Line
          /\ N("EBREAK") \in Line
      BY Lines
    <2> QED BY <2>1 DEF Code
  <1>2. b \in Code(2) /\ c \in Code(2) /\ d \in Code(2) /\ f \in Code(2) /\ g \in Code(2) /\ j \in Code(2)
        /\ l \in Code(2)
    <2>1. /\ R("SUB", 13, 11, 12) \in Line /\ R("XOR", 13, 11, 12) \in Line /\ R("OR", 13, 11, 12) \in Line
          /\ R("SLT", 13, 14, 12) \in Line /\ R("SLTU", 13, 14, 12) \in Line /\ R("SRL", 13, 15, 14) \in Line
          /\ R("SRA", 13, 16, 14) \in Line
      BY Lines
    <2> QED BY <2>1, SummedCode
  <1>3. build_reg_arith.code = (a \o b \o c \o d \o e \o f \o g \o h \o j \o k \o l) \o m
    BY DEF build_reg_arith, Result
  <1> HIDE DEF a, b, c, d, e, f, g, h, j, k, l, m
  <1>4. a \o b \o c \o d \in Code(9)
    BY <1>1, <1>2 DEF Code
  <1>5. (a \o b \o c \o d) \o e \o f \o g \in Code(14)
    BY <1>1, <1>2, <1>4 DEF Code
  <1>6. (a \o b \o c \o d \o e \o f \o g) \o h \o j \o k \o l \in Code(20)
    BY <1>1, <1>2, <1>5 DEF Code
  <1> QED BY <1>1, <1>3, <1>6 DEF Code

LEMMA MemRwCode == build_mem_rw.code \in Code(60)
  <1> DEFINE a == <<U("LUI", 9, \h80000), I("ADDI", 9, 9, \h400), I("ADDI", 10, 0, 0)>>
             b == Subtest(42, "SW", 0, "LW")
             c == Subtest(165, "SB", 4, "LBU")
             d == Subtest(-91, "SB", 8, "LB")
             e == Subtest(2047, "SH", 12, "LHU")
             f == Subtest(-100, "SH", 16, "LH")
             g == <<N("EBREAK")>>
  <1>1. a \in Code(3) /\ g \in Code(1)
    <2>1. U("LUI", 9, \h80000) \in Line /\ I("ADDI", 9, 9, \h400) \in Line /\ I("ADDI", 10, 0, 0) \in Line
          /\ N("EBREAK") \in Line
      BY Lines, SMT
    <2> QED BY <2>1, SMT DEF Code
  <1>2. b \in Code(5) /\ c \in Code(5) /\ d \in Code(5) /\ e \in Code(5) /\ f \in Code(5)
    BY SubtestCode
  <1>3. build_mem_rw.code = (a \o b \o c \o d \o e \o f) \o g
    BY SMTT(30) DEF build_mem_rw, Result
  <1> HIDE DEF a, b, c, d, e, f, g
  <1>4. a \o b \o c \in Code(13)
    BY <1>1, <1>2 DEF Code
  <1>5. (a \o b \o c) \o d \o e \o f \in Code(28)
    BY <1>1, <1>2, <1>4 DEF Code
  <1> QED BY <1>1, <1>3, <1>5 DEF Code

LEMMA BranchJalrCode == build_branch_jalr.code \in Code(60)
  <1> DEFINE a == <<I("ADDI", 10, 0, 0), I("ADDI", 11, 0, 5), I("ADDI", 12, 0, 10), I("ADDI", 13, 0, 5)>>
             b == Taken(B("BEQ", 11, 13, 8))
             c == Taken(B("BGE", 12, 11, 8))
             d == Taken(B("BLTU", 11, 12, 8))
             e == Taken(B("BGEU", 12, 11, 8))
             n == Len(a \o b \o c \o d \o e)
             f == <<J("JAL", 1, From(n, n + 3)), R("ADD", 10, 10, 15)>>
             g == <<N("EBREAK")>>
             h == <<I("ADDI", 15, 0, 10), I("JALR", 0, 1, 0)>>
  <1>1. a \in Code(4) /\ g \in Code(1) /\ h \in Code(2)
    <2>1. /\ I("ADDI", 10, 0, 0) \in Line /\ I("ADDI", 11, 0, 5) \in Line /\ I("ADDI", 12, 0, 10) \in Line
          /\ I("ADDI", 13, 0, 5) \in Line /\ I("ADDI", 15, 0, 10) \in Line /\ I("JALR", 0, 1, 0) \in Line
          /\ N("EBREAK") \in Line
      BY Lines
    <2> QED BY <2>1 DEF Code
  <1>2. b \in Code(3) /\ c \in Code(3) /\ d \in Code(3) /\ e \in Code(3)
    <2>1. /\ B("BEQ", 11, 13, 8) \in Line /\ B("BGE", 12, 11, 8) \in Line /\ B("BLTU", 11, 12, 8) \in Line
          /\ B("BGEU", 12, 11, 8) \in Line
      BY Lines
    <2> QED BY <2>1, TakenCode
  <1>3. build_branch_jalr.code = ((a \o b \o c \o d \o e \o f) \o g) \o h
    BY DEF build_branch_jalr, Result
  <1> HIDE DEF a, b, c, d, e, g, h
  <1>4. a \o b \o c \o d \o e \in Code(16)
    <2>1. a \o b \o c \in Code(10)
      BY <1>1, <1>2 DEF Code
    <2> QED BY <1>2, <2>1 DEF Code
  <1>5. f \in Code(2)
    <2>1. n \in Int
      BY <1>4 DEF Code
    <2> HIDE DEF n
    <2>2. J("JAL", 1, From(n, n + 3)) \in Line /\ R("ADD", 10, 10, 15) \in Line
      BY <2>1, Lines DEF From
    <2> QED BY <2>2 DEF Code
  <1> HIDE DEF f
  <1>6. a \o b \o c \o d \o e \o f \in Code(18)
    BY <1>4, <1>5 DEF Code
  <1>7. (a \o b \o c \o d \o e \o f) \o g \in Code(19)
    BY <1>1, <1>6 DEF Code
  <1> QED BY <1>1, <1>3, <1>7 DEF Code

LEMMA BitcountCode == build_bitcount.code \in Code(60)
  <1> DEFINE half == Low(\hA5A5, 16)
             value == half \o half
             a == LoadImm32(11, A5A5A5A5)
             b == <<I("ADDI", 10, 0, 0), I("ADDI", 12, 0, 32), I("ADDI", 13, 0, 1),
                    R("AND", 14, 11, 13), R("ADD", 10, 10, 14), I("SRLI", 11, 11, 1),
                    I("ADDI", 12, 12, -1), B("BNE", 12, 0, From(9, 5))>>
             c == <<N("EBREAK")>>
  <1>1. A5A5A5A5 \in Bits32
    <2>1. half \in BitSeq(16)
      BY Pieces, SMT DEF Low
    <2>2. half \o half \in BitSeq(16 + 16)
      <3> HIDE DEF half
      <3> QED BY <2>1, JoinBits
    <2> HIDE DEF half
    <2>3. half \o half \in Bits32
      BY <2>2, SMTT(30) DEF BitSeq, Bits32
    <2> QED BY <2>3, SMT DEF A5A5A5A5, half
  <1>2. a \in Code(2)
    <2>1. 11 \in Int
      OBVIOUS
    <2> QED BY <1>1, <2>1, LoadImm32Code, Zenon
  <1>3. b \in Code(8) /\ c \in Code(1)
    <2>1. /\ I("ADDI", 10, 0, 0) \in Line /\ I("ADDI", 12, 0, 32) \in Line /\ I("ADDI", 13, 0, 1) \in Line
          /\ R("AND", 14, 11, 13) \in Line /\ R("ADD", 10, 10, 14) \in Line /\ I("SRLI", 11, 11, 1) \in Line
          /\ I("ADDI", 12, 12, -1) \in Line /\ B("BNE", 12, 0, From(9, 5)) \in Line /\ N("EBREAK") \in Line
      BY Lines DEF From
    <2> QED BY <2>1 DEF Code
  <1>4. build_bitcount.code = (a \o b) \o c
    BY SMT DEF build_bitcount, Result
  <1> HIDE DEF a, b, c
  <1>5. a \o b \in Code(10)
    BY <1>2, <1>3 DEF Code
  <1> QED BY <1>3, <1>4, <1>5 DEF Code

(* What five parts of two lines are put together to.                         *)
LEMMA ConcatCode ==
    ASSUME NEW parts, parts \in [1..5 -> Code(2)]
    PROVE  Concat(parts) \in Code(10)
  <1> DEFINE step == [k \in 1..5 |-> [s \in Seq(Line) |-> s \o parts[k]]]
             c == CHOOSE v : Solves(v, <<>>, step, 5)
             u == CHOOSE v : v = [k \in 0..5 |-> IF k = 0 THEN <<>> ELSE v[k - 1] \o parts[k]]
  <1>1. \A k \in 1..5 : parts[k] \in Seq(Line) /\ Len(parts[k]) <= 2
    BY DEF Code
  <1>2. PICK v \in [0..5 -> Seq(Line)] : Solves(v, <<>>, step, 5)
    <2>1. step \in [1..5 -> [Seq(Line) -> Seq(Line)]]
      BY <1>1
    <2>2. <<>> \in Seq(Line) /\ 5 \in Nat /\ 5 \in 0..5
      OBVIOUS
    <2> HIDE DEF step
    <2> QED BY <2>1, <2>2, Solution, Zenon
  <1>3. v[0] = <<>> /\ \A k \in 1..5 : v[k] = v[k - 1] \o parts[k]
    <2>1. v[0] = <<>> /\ \A k \in 1..5 : v[k] = step[k][v[k - 1]]
      <3> HIDE DEF step
      <3> QED BY <1>2, SolvesAt
    <2>2. \A k \in 1..5 : v[k - 1] \in Seq(Line)
      OBVIOUS
    <2> QED BY <2>1, <2>2
  <1>4. v = [k \in 0..5 |-> IF k = 0 THEN <<>> ELSE v[k - 1] \o parts[k]]
    <2>1. ASSUME NEW k \in 0..5
          PROVE  v[k] = IF k = 0 THEN <<>> ELSE v[k - 1] \o parts[k]
      <3>1. k = 0 \/ (k # 0 /\ k \in 1..5)
        OBVIOUS
      <3> QED BY <1>3, <3>1, Zenon
    <2> QED BY <2>1, Zenon
  <1>5. u = [k \in 0..5 |-> IF k = 0 THEN <<>> ELSE u[k - 1] \o parts[k]]
    BY <1>4, Zenon
  <1>6. Concat(parts) = u[5]
    <2>1. Len(parts) = 5
      BY LenProperties
    <2> QED BY <2>1, Zenon DEF Concat
  <1> HIDE DEF step, u
  <1>7. u[5] = ((((<<>> \o parts[1]) \o parts[2]) \o parts[3]) \o parts[4]) \o parts[5]
    <2>1. u[0] = <<>>
      BY <1>5
    <2>2. ASSUME NEW k \in 1..5 PROVE u[k] = u[k - 1] \o parts[k]
      <3> DEFINE w == [q \in 0..5 |-> IF q = 0 THEN <<>> ELSE u[q - 1] \o parts[q]]
      <3>1. w[k] = u[k - 1] \o parts[k]
        <4>1. k \in 0..5 /\ k # 0
          OBVIOUS
        <4> QED BY <4>1, Zenon
      <3>2. u = w
        BY <1>5, Zenon
      <3> HIDE DEF w
      <3> QED BY <3>1, <3>2, Zenon
    <2>3. /\ 1 \in 1..5 /\ 2 \in 1..5 /\ 3 \in 1..5 /\ 4 \in 1..5 /\ 5 \in 1..5
          /\ 1 - 1 = 0 /\ 2 - 1 = 1 /\ 3 - 1 = 2 /\ 4 - 1 = 3 /\ 5 - 1 = 4
      OBVIOUS
    <2>4. u[1] = u[0] \o parts[1] /\ u[2] = u[1] \o parts[2] /\ u[3] = u[2] \o parts[3]
          /\ u[4] = u[3] \o parts[4] /\ u[5] = u[4] \o parts[5]
      BY <2>2, <2>3, Zenon
    <2> QED BY <2>1, <2>4, Zenon
  <1>8. <<>> \in Code(0) /\ \A k \in 1..5 : parts[k] \in Code(2)
    BY DEF Code
  <1>9. <<>> \o parts[1] \in Code(2)
    BY <1>8 DEF Code
  <1>10. (<<>> \o parts[1]) \o parts[2] \in Code(4)
    BY <1>8, <1>9 DEF Code
  <1>11. ((<<>> \o parts[1]) \o parts[2]) \o parts[3] \in Code(6)
    BY <1>8, <1>10 DEF Code
  <1>12. (((<<>> \o parts[1]) \o parts[2]) \o parts[3]) \o parts[4] \in Code(8)
    BY <1>8, <1>11 DEF Code
  <1> QED BY <1>6, <1>7, <1>8, <1>12 DEF Code

LEMMA ImmArithCode == build_imm_arith.code \in Code(60)
  <1> DEFINE a == <<I("ADDI", 10, 0, 0), I("ADDI", 11, 0, 7)>>
             s == <<I("SLTI", 12, 11, 10), I("SLTIU", 12, 11, 100), I("XORI", 12, 11, 5), I("ORI", 12, 11, 8),
                    I("ANDI", 12, 11, 3)>>
             p == [k \in 1..5 |-> Summed(s[k])]
             c == <<I("ADDI", 13, 0, -176)>>
             d == Summed(I("SRAI", 12, 13, 4))
             e == <<N("EBREAK")>>
  <1>1. a \in Code(2) /\ c \in Code(1) /\ e \in Code(1)
    <2>1. I("ADDI", 10, 0, 0) \in Line /\ I("ADDI", 11, 0, 7) \in Line /\ I("ADDI", 13, 0, -176) \in Line
          /\ N("EBREAK") \in Line
      BY Lines
    <2> QED BY <2>1 DEF Code
  <1>2. d \in Code(2)
    <2>1. I("SRAI", 12, 13, 4) \in Line
      BY Lines
    <2> QED BY <2>1, SummedCode
  <1>3. p \in [1..5 -> Code(2)]
    <2>1. /\ I("SLTI", 12, 11, 10) \in Line /\ I("SLTIU", 12, 11, 100) \in Line /\ I("XORI", 12, 11, 5) \in Line
          /\ I("ORI", 12, 11, 8) \in Line /\ I("ANDI", 12, 11, 3) \in Line
      BY Lines
    <2>2. \A k \in 1..5 : s[k] \in Line
      BY <2>1
    <2> HIDE DEF s
    <2> QED BY <2>2, SummedCode
  <1>4. build_imm_arith.code = (((a \o Concat(p)) \o c) \o d) \o e
    BY DEF build_imm_arith, Result
  <1> HIDE DEF a, p, c, d, e
  <1>5. Concat(p) \in Code(10)
    BY <1>3, ConcatCode, Zenon
  <1>6. a \o Concat(p) \in Code(12)
    BY <1>1, <1>5 DEF Code
  <1>7. ((a \o Concat(p)) \o c) \o d \in Code(15)
    BY <1>1, <1>2, <1>6 DEF Code
  <1> QED BY <1>1, <1>4, <1>7 DEF Code

LEMMA KnightRiderCode == build_knight_rider \in Code(60)
  <1> DEFINE a == <<U("LUI", 10, \h80004), I("ADDI", 10, 10, \h7C), I("ADDI", 11, 0, 1)>>
             v == Low(LoopIters, 31) \o <<0>>
             b == LoadImm32(9, v)
             n == Len(a \o b)
             c == <<S("SW", 11, 0, 10), I("ADDI", 14, 9, 0), I("ADDI", 14, 14, -1),
                    B("BNE", 14, 0, From((n + 2) + 1, n + 2)), I("SLLI", 11, 11, 1), I("ADDI", 13, 0, 8),
                    B("BLT", 13, 11, From(n + 6, (n + 6) + 2)), J("JAL", 0, From((n + 6) + 1, n)),
                    I("ADDI", 11, 0, 1), J("JAL", 0, From(((n + 6) + 2) + 1, n))>>
  <1>1. a \in Code(3)
    <2>1. U("LUI", 10, \h80004) \in Line /\ I("ADDI", 10, 10, \h7C) \in Line /\ I("ADDI", 11, 0, 1) \in Line
      BY Lines, SMT
    <2> QED BY <2>1, SMT DEF Code
  <1>2. b \in Code(2)
    <2>1. LoopIters \in Int /\ 9 \in Int
      BY LoopAssumption
    <2>2. v \in Bits32
      BY <2>1, WholeWord, Zenon
    <2> HIDE DEF v
    <2> QED BY <2>1, <2>2, LoadImm32Code, Zenon
  <1>3. build_knight_rider = (a \o b) \o c
    BY SMT DEF build_knight_rider
  <1> HIDE DEF a, b
  <1>4. a \o b \in Code(5)
    BY <1>1, <1>2 DEF Code
  <1>5. c \in Code(10)
    <2>1. n \in Int
      BY <1>4 DEF Code
    <2> HIDE DEF n
    <2>2. /\ S("SW", 11, 0, 10) \in Line /\ I("ADDI", 14, 9, 0) \in Line /\ I("ADDI", 14, 14, -1) \in Line
          /\ I("SLLI", 11, 11, 1) \in Line /\ I("ADDI", 13, 0, 8) \in Line /\ I("ADDI", 11, 0, 1) \in Line
      BY Lines
    <2>3. /\ From((n + 2) + 1, n + 2) \in Int /\ From(n + 6, (n + 6) + 2) \in Int
          /\ From((n + 6) + 1, n) \in Int /\ From(((n + 6) + 2) + 1, n) \in Int
      BY <2>1 DEF From
    <2>4. /\ B("BNE", 14, 0, From((n + 2) + 1, n + 2)) \in Line
          /\ B("BLT", 13, 11, From(n + 6, (n + 6) + 2)) \in Line
          /\ J("JAL", 0, From((n + 6) + 1, n)) \in Line
          /\ J("JAL", 0, From(((n + 6) + 2) + 1, n)) \in Line
      BY <2>3, Lines
    <2> QED BY <2>2, <2>4 DEF Code
  <1> HIDE DEF c
  <1> QED BY <1>3, <1>4, <1>5 DEF Code

(* Whatever job it is, its program is code the block RAM has room for.       *)
LEMMA ProgramIsCode ==
    ASSUME job \in Jobs
    PROVE  Program.code \in Code(4096)
  <1>1. /\ job.name \in DOMAIN TESTS \cup {"knight_rider", "load_imm32", "sweep"} /\ job.value \in Bits32
        /\ job.operands \in [rd : Int, rs1 : Int, rs2 : Int, imm : Int]
    BY ImageAssumption, SMT DEF Bits32, Bit
  <1>2. CASE job.name = "knight_rider"
    <2>1. Program.code = build_knight_rider
      BY <1>2 DEF Program
    <2> QED BY <2>1, KnightRiderCode, SMT DEF Code
  <1>3. CASE job.name = "load_imm32"
    <2>1. Program.code = LoadImm32(10, job.value) \o <<N("EBREAK")>>
      BY <1>3 DEF Program
    <2>2. LoadImm32(10, job.value) \in Code(2)
      <3>1. 10 \in Int
        OBVIOUS
      <3> QED BY <1>1, <3>1, LoadImm32Code, Zenon
    <2>3. <<N("EBREAK")>> \in Code(1)
      BY Lines DEF Code
    <2> QED BY <2>1, <2>2, <2>3, SMT DEF Code
  <1>4. CASE job.name = "sweep"
    <2>1. Program.code = Sweep
      BY <1>4 DEF Program
    <2>2. Ops \in Seq(Mnemonics) /\ Len(Ops) \in Nat /\ Len(Ops) <= 4096
      BY ImageAssumption, SMT
    <2>3. \A k \in 1..Len(Ops) : Ops[k] \in Mnemonics
      BY <2>2, SMT
    <2>4. \A k \in 1..Len(Ops) : Sweep[k] \in Line
      BY <1>1, <2>3, LineMade, SMT DEF Sweep
    <2>5. Sweep \in [1..Len(Ops) -> Line]
      BY <2>4, Zenon DEF Sweep
    <2> QED BY <2>1, <2>2, <2>5, SMT DEF Code
  <1>5. CASE job.name \in DOMAIN TESTS
    <2>1. Program.code = TESTS[job.name].code
      <3>1. DOMAIN TESTS \cap {"knight_rider", "load_imm32", "sweep"} = {}
        BY SMT DEF TESTS
      <3> QED BY <1>5, <3>1 DEF Program
    <2>2. TESTS[job.name] \in {build_sum100, build_fibonacci, build_bitcount, build_imm_arith, build_reg_arith,
                               build_mem_rw, build_branch_jalr, build_auipc}
      BY <1>5, SMT DEF TESTS
    <2>3. TESTS[job.name].code \in Code(60)
      BY <2>2, Sum100Code, FibonacciCode, BitcountCode, ImmArithCode, RegArithCode, MemRwCode, BranchJalrCode,
         AuipcCode, Zenon
    <2> QED BY <2>1, <2>3, SMT DEF Code
  <1>6. \/ job.name \in DOMAIN TESTS
        \/ job.name = "knight_rider" \/ job.name = "load_imm32" \/ job.name = "sweep"
    BY <1>1, Zenon
  <1> QED BY <1>2, <1>3, <1>4, <1>5, <1>6, SMT

-----------------------------------------------------------------------------
(* The reference hart keeps its type.                                        *)
LEMMA UIntIsNat ==
    ASSUME NEW n \in 0..32, NEW bits \in BitSeq(n)
    PROVE  UInt(bits) \in Nat
  <1>1. PICK v \in [0..n -> Nat] : UInt(bits) = v[n]
    BY UIntRuns
  <1>2. n \in 0..n
    OBVIOUS
  <1> QED BY <1>1, <1>2

LEMMA PartRange ==
    ASSUME NEW w \in Bits32, NEW lo \in 0..31, NEW n \in 0..31, lo + n <= 32, n > 0
    PROVE  UInt(Bits(w, lo + n - 1, lo)) \in 0..(2^n - 1)
  <1>1. lo + n - 1 \in lo..31 /\ (lo + n - 1) - lo + 1 = n
    OBVIOUS
  <1>2. Bits(w, lo + n - 1, lo) \in BitSeq(n)
    BY <1>1, PartBits, Zenon
  <1> QED BY <1>2, UIntRange, Zenon

LEMMA PartsTyped ==
    ASSUME NEW w \in Bits32
    PROVE  /\ get_rd(w) \in 0..31 /\ get_rs1(w) \in 0..31 /\ get_rs2(w) \in 0..31
           /\ UInt(Bits(w, 15, 0)) \in Nat /\ UInt(Bits(w, 31, 16)) \in Nat
           /\ UInt(Bits(w, 4, 0)) \in 0..31 /\ UInt(Bits(w, 3, 0)) \in 0..15
           /\ WordOf(w) \in Nat /\ Lane(w) \in {0, 8, 16, 24}
           /\ Bits(w, 31, 20) \in BitSeq(12) /\ Bits(w, 31, 12) \in BitSeq(20)
  <1> DEFINE Part(lo, n) == UInt(Bits(w, lo + n - 1, lo)) \in 0..(2^n - 1)
  <1>1. \A lo \in 0..31, n \in 0..31 : lo + n <= 32 /\ n > 0 => Part(lo, n)
    BY PartRange, Zenon
  <1>2. /\ Part(7, 5) => get_rd(w) \in 0..31
        /\ Part(15, 5) => get_rs1(w) \in 0..31
        /\ Part(20, 5) => get_rs2(w) \in 0..31
        /\ Part(0, 16) => UInt(Bits(w, 15, 0)) \in Nat
        /\ Part(16, 16) => UInt(Bits(w, 31, 16)) \in Nat
        /\ Part(0, 5) => UInt(Bits(w, 4, 0)) \in 0..31
        /\ Part(0, 4) => UInt(Bits(w, 3, 0)) \in 0..15
        /\ Part(2, 12) => WordOf(w) \in Nat
        /\ Part(0, 2) => Lane(w) \in {0, 8, 16, 24}
    BY SMT DEF get_rd, get_rs1, get_rs2, WordOf, Lane
  <1> HIDE DEF Part
  <1>3. /\ Part(7, 5) /\ Part(15, 5) /\ Part(20, 5) /\ Part(0, 16) /\ Part(16, 16)
        /\ Part(0, 5) /\ Part(0, 4) /\ Part(2, 12) /\ Part(0, 2)
    BY <1>1, SMT
  <1>4. Bits(w, 31, 20) \in BitSeq(12) /\ Bits(w, 31, 12) \in BitSeq(20)
    <2>1. 20 \in 0..31 /\ 31 \in 20..31 /\ 12 \in 0..31 /\ 31 \in 12..31 /\ 31 - 20 + 1 = 12 /\ 31 - 12 + 1 = 20
      OBVIOUS
    <2>2. Bits(w, 31, 20) \in BitSeq(31 - 20 + 1) /\ Bits(w, 31, 12) \in BitSeq(31 - 12 + 1)
      BY <2>1, PartBits, Zenon
    <2> QED BY <2>1, <2>2, Zenon
  <1> QED BY <1>2, <1>3, <1>4, SMT

LEMMA ImmediateTyped ==
    ASSUME NEW w \in Bits32
    PROVE  /\ Immediate(w, "I") \in BitSeq(12) /\ Immediate(w, "S") \in BitSeq(12)
           /\ Immediate(w, "B") \in BitSeq(12)
           /\ Immediate(w, "U") \in BitSeq(20) /\ Immediate(w, "J") \in BitSeq(20)
  <1> DEFINE a == Bits(w, 11, 7)
             b == Bits(w, 31, 25)
             c == Bits(w, 11, 8)
             d == Bits(w, 30, 25)
             e == Bits(w, 7, 7)
             f == Bits(w, 31, 31)
             g == Bits(w, 30, 21)
             h == Bits(w, 20, 20)
             j == Bits(w, 19, 12)
  <1>1. /\ a \in BitSeq(5) /\ b \in BitSeq(7) /\ c \in BitSeq(4) /\ d \in BitSeq(6) /\ e \in BitSeq(1)
        /\ f \in BitSeq(1) /\ g \in BitSeq(10) /\ h \in BitSeq(1) /\ j \in BitSeq(8)
    <2>1. \A lo \in 0..31, hi \in 0..31, n \in 0..32 : lo <= hi /\ n = hi - lo + 1 => Bits(w, hi, lo) \in BitSeq(n)
      <3> TAKE lo \in 0..31, hi \in 0..31, n \in 0..32
      <3> HAVE lo <= hi /\ n = hi - lo + 1
      <3>1. hi \in lo..31
        OBVIOUS
      <3>2. Bits(w, hi, lo) \in BitSeq(hi - lo + 1)
        BY <3>1, PartBits, Zenon
      <3> QED BY <3>2
    <2> QED BY <2>1, SMT
  <1> HIDE DEF a, b, c, d, e, f, g, h, j
  <1>2. a \o b \in BitSeq(5 + 7)
    BY <1>1, JoinBits
  <1>3. c \o d \in BitSeq(4 + 6) /\ g \o h \in BitSeq(10 + 1)
    BY <1>1, JoinBits
  <1>4. c \o d \o e \in BitSeq(10 + 1) /\ g \o h \o j \in BitSeq(11 + 8)
    BY <1>1, <1>3, JoinBits
  <1>5. c \o d \o e \o f \in BitSeq(11 + 1) /\ g \o h \o j \o f \in BitSeq(19 + 1)
    BY <1>1, <1>4, JoinBits
  <1>6. /\ Immediate(w, "I") = Bits(w, 31, 20) /\ Immediate(w, "S") = a \o b
        /\ Immediate(w, "B") = c \o d \o e \o f /\ Immediate(w, "U") = Bits(w, 31, 12)
        /\ Immediate(w, "J") = g \o h \o j \o f
    BY DEF Immediate, a, b, c, d, e, f, g, h, j
  <1>7. 5 + 7 = 12 /\ 11 + 1 = 12 /\ 19 + 1 = 20
    OBVIOUS
  <1>8. Bits(w, 31, 20) \in BitSeq(12) /\ Bits(w, 31, 12) \in BitSeq(20)
    BY PartsTyped
  <1> QED BY <1>2, <1>5, <1>6, <1>7, <1>8, Zenon

LEMMA Extensions ==
    ASSUME NEW n \in 1..32, NEW s \in BitSeq(n)
    PROVE  Signed(s) \in Bits32 /\ Unsigned(s) \in Bits32
  <1> DEFINE m == 32 - n
             a == [k \in 1..m |-> s[n]]
             b == [k \in 1..m |-> 0]
  <1>1. Len(s) = n /\ n \in Nat /\ m \in Nat /\ n + m = 32 /\ n \in 1..n
    BY BitSeqIsSeq
  <1>2. s[n] \in Bit /\ 0 \in Bit
    BY <1>1 DEF BitSeq, Bit
  <1>3. a \in BitSeq(m) /\ b \in BitSeq(m)
    BY <1>2, Zenon DEF BitSeq
  <1>4. Signed(s) = s \o a /\ Unsigned(s) = s \o b
    BY <1>1, Zenon DEF Signed, Unsigned
  <1> HIDE DEF a, b, m
  <1>5. s \o a \in BitSeq(n + m) /\ s \o b \in BitSeq(n + m)
    BY <1>1, <1>3, JoinBits, Zenon
  <1> QED BY <1>1, <1>4, <1>5 DEF BitSeq, Bits32

LEMMA HalfTyped ==
    ASSUME NEW v \in Int
    PROVE  Half(v) \in BitSeq(16)
  <1>1. Half(v) = [k \in 1..16 |-> (v \div 2^(k - 1)) % 2]
    BY Zenon DEF Half
  <1>2. ASSUME NEW k \in 1..16 PROVE (v \div 2^(k - 1)) % 2 \in Bit
    <2> DEFINE p == 2^(k - 1)
    <2>1. k - 1 \in 0..31
      OBVIOUS
    <2>2. p \in Nat /\ p > 0
      BY <2>1, Weights, Zenon
    <2> HIDE DEF p
    <2>3. v \div p \in Int
      BY <2>2
    <2>4. (v \div p) % 2 \in Bit
      BY <2>3 DEF Bit
    <2> QED BY <2>4 DEF p
  <1> QED BY <1>1, <1>2, Zenon DEF BitSeq

LEMMA SumTyped ==
    ASSUME NEW a \in Bits32, NEW b \in Bits32
    PROVE  Plus(a, b) \in Bits32 /\ Minus(a, b) \in Bits32
  <1>1. ASSUME NEW x \in Bits32, NEW y \in Bits32, NEW c \in Int
        PROVE  AddCarry(x, y, c) \in Bits32
    <2> DEFINE low  == UInt(Bits(x, 15, 0)) + UInt(Bits(y, 15, 0)) + c
               high == UInt(Bits(x, 31, 16)) + UInt(Bits(y, 31, 16)) + (low \div 65536)
    <2>1. /\ UInt(Bits(x, 15, 0)) \in Nat /\ UInt(Bits(y, 15, 0)) \in Nat
          /\ UInt(Bits(x, 31, 16)) \in Nat /\ UInt(Bits(y, 31, 16)) \in Nat
      BY PartsTyped
    <2>2. low \in Int /\ high \in Int
      BY <2>1, SMT
    <2>3. AddCarry(x, y, c) = Half(low) \o Half(high)
      BY SMT DEF AddCarry
    <2> HIDE DEF low, high
    <2>4. Half(low) \in BitSeq(16) /\ Half(high) \in BitSeq(16)
      BY <2>2, HalfTyped
    <2>5. Half(low) \o Half(high) \in BitSeq(16 + 16)
      BY <2>4, JoinBits
    <2>6. 16 + 16 = 32
      OBVIOUS
    <2> QED BY <2>3, <2>5, <2>6, Zenon DEF BitSeq, Bits32
  <1>2. [k \in 1..32 |-> 1 - b[k]] \in Bits32
    <2>1. \A k \in 1..32 : 1 - b[k] \in Bit
      <3> TAKE k \in 1..32
      <3>1. b[k] \in {0, 1}
        BY Zenon DEF Bits32, Bit
      <3>2. b[k] = 0 \/ b[k] = 1
        BY <3>1
      <3> QED BY <3>2 DEF Bit
    <2> QED BY <2>1, Zenon DEF Bits32
  <1>3. 0 \in Int /\ 1 \in Int
    OBVIOUS
  <1> QED BY <1>1, <1>2, <1>3, Zenon DEF Plus, Minus

LEMMA Constants ==
    Zero \in Bits32 /\ Nop \in Bits32 /\ (\A b \in BOOLEAN : Flag(b) \in Bits32)
  BY SMT DEF Zero, Nop, Flag, Bits32, Bit

LEMMA BitwiseTyped ==
    ASSUME NEW a, NEW b, NEW sums
    PROVE  BitsWhereSum(a, b, sums) \in Bits32
  BY Zenon DEF BitsWhereSum, Bits32, Bit

LEMMA ShiftedTyped ==
    ASSUME NEW a \in Bits32, NEW n \in 0..31, NEW x \in Bit
    PROVE  Fill(n, x) \o SubSeq(a, 1, 32 - n) \in Bits32 /\ SubSeq(a, n + 1, 32) \o Fill(n, x) \in Bits32
  <1> DEFINE m == 32 - n
             low == SubSeq(a, 1, m)
             high == SubSeq(a, n + 1, 32)
  <1>1. n \in Nat /\ m \in Nat /\ n + m = 32 /\ m + n = 32
    OBVIOUS
  <1>2. Fill(n, x) \in BitSeq(n)
    BY Zenon DEF Fill, BitSeq
  <1>3. low \in BitSeq(m)
    <2>1. Bits(a, m - 1, 0) \in BitSeq((m - 1) - 0 + 1)
      <3>1. 0 \in 0..31 /\ m - 1 \in 0..31
        OBVIOUS
      <3> QED BY <3>1, PartBits, Zenon
    <2>2. (m - 1) - 0 + 1 = m /\ 0 + 1 = 1 /\ (m - 1) + 1 = m
      OBVIOUS
    <2> QED BY <2>1, <2>2, Zenon DEF Bits
  <1>4. high \in BitSeq(m)
    <2>1. Bits(a, 31, n) \in BitSeq(31 - n + 1)
      <3>1. 31 \in n..31
        OBVIOUS
      <3> QED BY <3>1, PartBits, Zenon
    <2>2. 31 - n + 1 = m /\ 31 + 1 = 32
      OBVIOUS
    <2> QED BY <2>1, <2>2, Zenon DEF Bits
  <1> HIDE DEF low, high, m
  <1>5. Fill(n, x) \o low \in BitSeq(n + m) /\ high \o Fill(n, x) \in BitSeq(m + n)
    BY <1>1, <1>2, <1>3, <1>4, JoinBits, Zenon
  <1>6. Fill(n, x) \o low \in Bits32 /\ high \o Fill(n, x) \in Bits32
    BY <1>1, <1>5, Zenon DEF BitSeq, Bits32
  <1> QED BY <1>6, Zenon DEF low, high, m

LEMMA ComparedTyped ==
    ASSUME NEW a \in Bits32, NEW b \in Bits32
    PROVE  Less(a, b) \in BOOLEAN /\ Below(a, b) \in BOOLEAN
  <1>1. Below(a, b) \in BOOLEAN
    BY Zenon DEF Below
  <1> QED BY <1>1, Zenon DEF Less

(* The instructions that write a sum, a comparison, a logic or a shift.      *)
Computing == UNION {DOMAIN Op, DOMAIN OpImm, DOMAIN Shift}

LEMMA ArithmeticTyped ==
    ASSUME NEW op \in Computing, NEW a \in Bits32, NEW b \in Bits32
    PROVE  Arithmetic(op, a, b) \in Bits32
  <1> DEFINE n == UInt(Bits(b, 4, 0))
             s == a[32]
  <1>1. n \in 0..31 /\ s \in Bit /\ 0 \in Bit
    BY PartsTyped DEF Bits32, Bit
  <1>2. \/ op \in {"ADD", "ADDI"} \/ op = "SUB" \/ op \in {"SLT", "SLTI"} \/ op \in {"SLTU", "SLTIU"}
        \/ op \in {"XOR", "XORI"} \/ op \in {"OR", "ORI"} \/ op \in {"AND", "ANDI"}
        \/ op \in {"SLL", "SLLI"} \/ op \in {"SRL", "SRLI"} \/ op \in {"SRA", "SRAI"}
    BY SMT DEF Computing, Op, OpImm, Shift
  <1>3. Arithmetic(op, a, b) \in
          {Plus(a, b), Minus(a, b), Flag(Less(a, b)), Flag(Below(a, b)), BitsWhereSum(a, b, {1}),
           BitsWhereSum(a, b, {1, 2}), BitsWhereSum(a, b, {2}), Fill(n, 0) \o SubSeq(a, 1, 32 - n),
           SubSeq(a, n + 1, 32) \o Fill(n, 0), SubSeq(a, n + 1, 32) \o Fill(n, s)}
    BY <1>2 DEF Arithmetic
  <1>4. Plus(a, b) \in Bits32 /\ Minus(a, b) \in Bits32
    BY SumTyped
  <1>5. Flag(Less(a, b)) \in Bits32 /\ Flag(Below(a, b)) \in Bits32
    BY Constants, ComparedTyped, Zenon
  <1>6. /\ BitsWhereSum(a, b, {1}) \in Bits32 /\ BitsWhereSum(a, b, {1, 2}) \in Bits32
        /\ BitsWhereSum(a, b, {2}) \in Bits32
    BY BitwiseTyped, Zenon
  <1> HIDE DEF n, s
  <1>7. /\ Fill(n, 0) \o SubSeq(a, 1, 32 - n) \in Bits32
        /\ SubSeq(a, n + 1, 32) \o Fill(n, 0) \in Bits32 /\ SubSeq(a, n + 1, 32) \o Fill(n, s) \in Bits32
    BY <1>1, ShiftedTyped, Zenon
  <1> QED BY <1>3, <1>4, <1>5, <1>6, <1>7, Zenon

LEMMA MemoryAccess ==
    ASSUME NEW op, NEW word \in Bits32, NEW addr \in Bits32, NEW value \in Bits32,
           Lane(addr) + Width(op) <= 32
    PROVE  Loaded(op, word, addr) \in Bits32 /\ Stored(op, word, addr, value) \in Bits32
  <1> DEFINE l == Lane(addr)
             n == Width(op)
             part == SubSeq(word, l + 1, l + n)
  <1>1. l \in {0, 8, 16, 24}
    BY PartsTyped
  <1>2. n \in {8, 16, 32}
    BY Zenon DEF Width
  <1>3. Loaded(op, word, addr) \in {Unsigned(part), Signed(part)}
    BY SMT DEF Loaded
  <1>4. Stored(op, word, addr, value) = [k \in 1..32 |-> IF k \in (l + 1)..(l + n) THEN value[k - l] ELSE word[k]]
    BY Zenon DEF Stored
  <1>5. l + n <= 32
    OBVIOUS
  <1> HIDE DEF l, n
  <1>6. part \in BitSeq(n)
    <2>1. l \in 0..31 /\ l + n - 1 \in l..31
      BY <1>1, <1>2, <1>5
    <2>2. Bits(word, l + n - 1, l) \in BitSeq((l + n - 1) - l + 1)
      BY <2>1, PartBits, Zenon
    <2>3. (l + n - 1) - l + 1 = n /\ (l + n - 1) + 1 = l + n
      BY <1>1, <1>2
    <2> QED BY <2>2, <2>3, Zenon DEF Bits
  <1>7. Loaded(op, word, addr) \in Bits32
    <2>1. n \in 1..32
      BY <1>2
    <2> HIDE DEF part
    <2> QED BY <1>3, <1>6, <2>1, Extensions, Zenon
  <1>8. \A k \in 1..32 : (IF k \in (l + 1)..(l + n) THEN value[k - l] ELSE word[k]) \in Bit
    BY <1>1, <1>2 DEF Bits32
  <1> QED BY <1>4, <1>7, <1>8, Zenon DEF Bits32
------------------------------------------------------------------------------
Memories == UNION {[D -> Bits32] : D \in SUBSET Nat}
Harts == [pc : Bits32, regs : [0..31 -> Bits32], mem : Memories, led : 0..15, broke : BOOLEAN]
HartOK(h) == h \in Harts /\ h.regs[0] = Zero

LEMMA MemoryTyped ==
    ASSUME NEW mem \in Memories, NEW c \in Nat, NEW word \in Bits32
    PROVE  /\ Cell(mem, c) \in Bits32
           /\ [x \in DOMAIN mem \cup {c} |-> IF x = c THEN word ELSE mem[x]] \in Memories
  <1>1. PICK D \in SUBSET Nat : mem \in [D -> Bits32]
    BY Zenon DEF Memories
  <1>2. Cell(mem, c) \in Bits32
    BY <1>1, Constants DEF Cell
  <1>3. D \cup {c} \in SUBSET Nat /\ DOMAIN mem = D
    BY <1>1
  <1>4. [x \in D \cup {c} |-> IF x = c THEN word ELSE mem[x]] \in [D \cup {c} -> Bits32]
    BY <1>1
  <1> QED BY <1>2, <1>3, <1>4, Zenon DEF Memories

LEMMA Updated ==
    ASSUME NEW P, NEW RR, NEW M, NEW L, NEW h \in [pc : P, regs : RR, mem : M, led : L, broke : BOOLEAN],
           NEW pc \in P, NEW regs \in RR, NEW mem \in M, NEW led \in L
    PROVE  LET H == [pc : P, regs : RR, mem : M, led : L, broke : BOOLEAN]
           IN /\ [h EXCEPT !.pc = pc] \in H /\ [h EXCEPT !.pc = pc].regs = h.regs
              /\ [h EXCEPT !.broke = TRUE] \in H /\ [h EXCEPT !.broke = TRUE].regs = h.regs
              /\ [h EXCEPT !.pc = pc, !.led = led] \in H /\ [h EXCEPT !.pc = pc, !.led = led].regs = h.regs
              /\ [h EXCEPT !.pc = pc, !.mem = mem] \in H /\ [h EXCEPT !.pc = pc, !.mem = mem].regs = h.regs
              /\ [h EXCEPT !.pc = pc, !.regs = regs] \in H /\ [h EXCEPT !.pc = pc, !.regs = regs].regs = regs
              /\ \A r, v : [h EXCEPT !.pc = pc, !.regs[r] = v] = [h EXCEPT !.pc = pc, !.regs = [h.regs EXCEPT ![r] = v]]
  OBVIOUS

LEMMA RegisterWritten ==
    ASSUME NEW h, HartOK(h), NEW r \in 0..31, NEW v \in Bits32, NEW pc \in Bits32
    PROVE  HartOK([h EXCEPT !.pc = pc, !.regs[r] = IF r = 0 THEN Zero ELSE v])
  <1> DEFINE x == IF r = 0 THEN Zero ELSE v
             regs == [h.regs EXCEPT ![r] = x]
             g == [h EXCEPT !.pc = pc, !.regs[r] = x]
  <1>1. /\ h = [pc |-> h.pc, regs |-> h.regs, mem |-> h.mem, led |-> h.led, broke |-> h.broke]
        /\ h.regs \in [0..31 -> Bits32] /\ h.mem \in Memories /\ h.led \in 0..15 /\ h.broke \in BOOLEAN
        /\ h.regs[0] = Zero
    BY DEF HartOK, Harts
  <1>2. x \in Bits32 /\ (r = 0 => x = Zero)
    BY Constants
  <1>4. regs \in [0..31 -> Bits32] /\ regs[0] = Zero
    <2>1. 0 \in 0..31
      OBVIOUS
    <2> HIDE DEF x
    <2>2. regs \in [0..31 -> Bits32]
      BY <1>1, <1>2
    <2>3. regs[0] = IF r = 0 THEN x ELSE h.regs[0]
      BY <1>1, <2>1
    <2>4. regs[0] = Zero
      BY <1>1, <1>2, <2>3, Zenon
    <2> QED BY <2>2, <2>4
  <1> HIDE DEF regs, x
  <1>5. h \in Harts
    BY DEF HartOK
  <1> DEFINE f == [h EXCEPT !.pc = pc, !.regs = regs]
  <1>6. f \in Harts /\ f.regs = regs
    BY <1>1, <1>4, <1>5, Updated, Zenon DEF Harts
  <1>7. g = f
    BY <1>1, <1>5, Updated, Zenon DEF Harts, regs
  <1> HIDE DEF f, g
  <1>8. HartOK(g)
    BY <1>4, <1>6, <1>7, Zenon DEF HartOK
  <1> QED BY <1>8, Zenon DEF g, x

(* What the instructions do to the rest of the hart.                         *)
LEMMA HartChanged ==
    ASSUME NEW h, HartOK(h), NEW pc \in Bits32, NEW led \in 0..15, NEW mem \in Memories
    PROVE  /\ HartOK([h EXCEPT !.pc = pc]) /\ HartOK([h EXCEPT !.broke = TRUE])
           /\ HartOK([h EXCEPT !.pc = pc, !.led = led]) /\ HartOK([h EXCEPT !.pc = pc, !.mem = mem])
  <1>1. h \in Harts /\ h.regs[0] = Zero
    BY DEF HartOK
  <1>2. /\ [h EXCEPT !.pc = pc] \in Harts /\ [h EXCEPT !.pc = pc].regs = h.regs
        /\ [h EXCEPT !.broke = TRUE] \in Harts /\ [h EXCEPT !.broke = TRUE].regs = h.regs
        /\ [h EXCEPT !.pc = pc, !.led = led] \in Harts /\ [h EXCEPT !.pc = pc, !.led = led].regs = h.regs
        /\ [h EXCEPT !.pc = pc, !.mem = mem] \in Harts /\ [h EXCEPT !.pc = pc, !.mem = mem].regs = h.regs
    BY <1>1, Updated, ZenonT(60) DEF Harts
  <1> QED BY <1>1, <1>2, Zenon DEF HartOK

(* What is done with a mnemonic that the hart knows.                         *)
LEMMA KnownClasses ==
    ASSUME NEW op \in DOMAIN instructions, op \notin Unused
    PROVE  \/ op = "EBREAK" /\ instructions[op].format = "I"
           \/ op \in DOMAIN Upper /\ instructions[op].format = "U"
           \/ op = "JAL" /\ instructions[op].format = "J"
           \/ op = "JALR" /\ instructions[op].format = "I"
           \/ op \in DOMAIN Branch /\ instructions[op].format = "B"
           \/ op \in DOMAIN Store /\ instructions[op].format = "S"
           \/ op \in DOMAIN Load /\ instructions[op].format = "I"
           \/ op \in DOMAIN Op /\ instructions[op].format = "R"
           \/ op \in DOMAIN OpImm \cup DOMAIN Shift /\ instructions[op].format = "I"
  <1>1. op \notin DOMAIN Csr /\ op \notin {"ECALL", "MRET"}
    BY SMT DEF Unused, Csr
  <1>2. instructions["EBREAK"].format = "I"
    BY SMT DEF instructions, RowSys, Row
  <1> QED BY <1>1, <1>2, Classes, Formats, Zenon

LEMMA HartSteps ==
    ASSUME NEW h, HartOK(h)
    PROVE  HartOK(Executed(h))
  <1> DEFINE insn   == Cell(h.mem, WordOf(h.pc))
             known  == Decoded(insn) \ Unused
             op     == CHOOSE m \in known : TRUE
             format == instructions[op].format
             imm    == Immediate(insn, format)
             a      == h.regs[get_rs1(insn)]
             b      == h.regs[get_rs2(insn)]
             next   == Plus(h.pc, Unsigned(<<0, 0, 1>>))
             jump   == Plus(h.pc, Signed(<<0>> \o imm))
             upper  == Fill(12, 0) \o imm
             addr   == Plus(a, Signed(imm))
             cell   == WordOf(addr)
             word   == Cell(h.mem, cell)
             Write(v, pc) == [h EXCEPT !.pc = pc,
                                       !.regs[get_rd(insn)] = IF get_rd(insn) = 0 THEN Zero ELSE v]
             Put(w) == [c \in DOMAIN h.mem \cup {cell} |-> IF c = cell THEN w ELSE h.mem[c]]
  <1>1. CASE known = {} \/ Crosses(op, addr)
    <2>1. Executed(h) = h
      BY <1>1 DEF Executed
    <2> QED BY <2>1
  <1>2. CASE ~(known = {} \/ Crosses(op, addr))
    <2> DEFINE Broken   == [h EXCEPT !.broke = TRUE]
               Moved(p) == [h EXCEPT !.pc = p]
               Lit      == [h EXCEPT !.pc = next, !.led = UInt(Bits(b, 3, 0))]
               Filled   == [h EXCEPT !.pc = next, !.mem = Put(Stored(op, word, addr, b))]
               Changed  == CASE op = "EBREAK" -> Broken
                             [] op = "LUI"    -> Write(upper, next)
                             [] op = "AUIPC"  -> Write(Plus(h.pc, upper), next)
                             [] op = "JAL"    -> Write(next, jump)
                             [] op = "JALR"   -> Write(next, [addr EXCEPT ![1] = 0])
                             [] format = "B"  -> Moved(IF Branches(op, a, b) THEN jump ELSE next)
                             [] format = "S"  -> IF IsLed(addr) THEN Lit ELSE Filled
                             [] op \in {"LB", "LH", "LW", "LBU", "LHU"} -> Write(Loaded(op, word, addr), next)
                             [] format = "R"  -> Write(Arithmetic(op, a, b), next)
                             [] OTHER         -> Write(Arithmetic(op, a, Signed(imm)), next)
    <2>1. Executed(h) = Changed
      BY <1>2, Zenon DEF Executed
    <2>2. op \in DOMAIN instructions /\ op \notin Unused /\ ~Crosses(op, addr)
      BY <1>2, Zenon DEF Decoded
    <2>3. h.pc \in Bits32 /\ h.mem \in Memories /\ h.regs \in [0..31 -> Bits32]
      BY DEF HartOK, Harts
    <2> HIDE DEF known, Write, Put, Broken, Moved, Lit, Filled
    <2>4. insn \in Bits32
      <3>1. WordOf(h.pc) \in Nat
        BY <2>3, PartsTyped, Zenon
      <3> QED BY <2>3, <3>1, MemoryTyped, Constants, Zenon
    <2> HIDE DEF insn
    <2>5. get_rd(insn) \in 0..31 /\ a \in Bits32 /\ b \in Bits32
      <3>1. get_rd(insn) \in 0..31 /\ get_rs1(insn) \in 0..31 /\ get_rs2(insn) \in 0..31
        BY <2>4, PartsTyped, Zenon
      <3> QED BY <2>3, <3>1
    <2> HIDE DEF op, a, b
    <2>6. next \in Bits32
      <3>1. <<0, 0, 1>> \in BitSeq(3) /\ 3 \in 1..32
        BY DEF BitSeq, Bit
      <3>2. Unsigned(<<0, 0, 1>>) \in Bits32
        BY <3>1, Extensions, Zenon
      <3> QED BY <2>3, <3>2, SumTyped, Zenon
    <2> HIDE DEF next
    <2>7. /\ format = "I" \/ format = "S" \/ format = "B" => imm \in BitSeq(12)
          /\ format = "U" \/ format = "J" => imm \in BitSeq(20)
      BY <2>4, ImmediateTyped, Zenon
    <2> HIDE DEF imm, format
    <2>8. \A v \in Bits32, p \in Bits32 : HartOK(Write(v, p))
      BY <2>5, RegisterWritten, Zenon DEF Write
    <2>9. ASSUME imm \in BitSeq(12)
          PROVE  Signed(imm) \in Bits32 /\ addr \in Bits32
      <3>1. 12 \in 1..32
        OBVIOUS
      <3>2. Signed(imm) \in Bits32
        BY <2>9, <3>1, Extensions, Zenon
      <3> QED BY <2>5, <3>2, SumTyped, Zenon
    <2>10. ASSUME NEW n \in {12, 20}, imm \in BitSeq(n)
           PROVE  jump \in Bits32
      <3>1. <<0>> \in BitSeq(1)
        BY DEF BitSeq, Bit
      <3>2. <<0>> \o imm \in BitSeq(1 + n)
        BY <2>10, <3>1, JoinBits
      <3>3. 1 + n \in 1..32
        OBVIOUS
      <3>4. Signed(<<0>> \o imm) \in Bits32
        BY <3>2, <3>3, Extensions, Zenon
      <3> QED BY <2>3, <3>4, SumTyped, Zenon
    <2>11. ASSUME imm \in BitSeq(20)
           PROVE  upper \in Bits32
      <3>1. Fill(12, 0) \in BitSeq(12)
        BY Zenon DEF Fill, BitSeq, Bit
      <3>2. Fill(12, 0) \o imm \in BitSeq(12 + 20)
        BY <2>11, <3>1, JoinBits
      <3>3. 12 + 20 = 32
        OBVIOUS
      <3> QED BY <3>2, <3>3, Zenon DEF BitSeq, Bits32
    <2>12. ASSUME addr \in Bits32
           PROVE  /\ cell \in Nat /\ word \in Bits32 /\ [addr EXCEPT ![1] = 0] \in Bits32
                  /\ op \in Memory => Lane(addr) + Width(op) <= 32
      <3> HIDE DEF addr
      <3>1. cell \in Nat
        BY <2>12, PartsTyped, Zenon
      <3>2. word \in Bits32
        <4> HIDE DEF cell
        <4> QED BY <2>3, <3>1, MemoryTyped, Constants, Zenon
      <3>3. [addr EXCEPT ![1] = 0] \in Bits32
        BY <2>12 DEF Bits32, Bit
      <3>4. op \in Memory => Lane(addr) + Width(op) <= 32
        <4>1. Lane(addr) \in {0, 8, 16, 24}
          BY <2>12, PartsTyped, Zenon
        <4>2. Width(op) \in {8, 16, 32}
          BY Zenon DEF Width
        <4>3. op \in Memory => ~(Lane(addr) + Width(op) > 32)
          BY <2>2, Zenon DEF Crosses
        <4> QED BY <4>1, <4>2, <4>3, SMT
      <3> QED BY <3>1, <3>2, <3>3, <3>4
    <2>13. /\ op = "EBREAK" /\ format = "I" => Changed = Broken
           /\ op = "LUI" /\ format = "U" => Changed = Write(upper, next)
           /\ op = "AUIPC" /\ format = "U" => Changed = Write(Plus(h.pc, upper), next)
           /\ op = "JAL" /\ format = "J" => Changed = Write(next, jump)
           /\ op = "JALR" /\ format = "I" => Changed = Write(next, [addr EXCEPT ![1] = 0])
      <3> HIDE DEF addr, cell, word, upper, jump
      <3> QED BY SMT
    <2>14. op \notin {"EBREAK", "LUI", "AUIPC", "JAL", "JALR"} /\ op \notin {"LB", "LH", "LW", "LBU", "LHU"} =>
             /\ format = "B" => Changed \in {Moved(jump), Moved(next)}
             /\ format = "S" => Changed \in {Lit, Filled}
      <3> HIDE DEF addr, cell, word, upper, jump
      <3> QED BY SMT
    <2>15. op \notin {"EBREAK", "LUI", "AUIPC", "JAL", "JALR"} =>
             /\ op \in DOMAIN Load /\ format = "I" => Changed = Write(Loaded(op, word, addr), next)
             /\ op \notin DOMAIN Load /\ format = "R" => Changed = Write(Arithmetic(op, a, b), next)
             /\ op \notin DOMAIN Load /\ format = "I" => Changed = Write(Arithmetic(op, a, Signed(imm)), next)
      <3>1. DOMAIN Load = {"LB", "LH", "LW", "LBU", "LHU"}
        BY DEF Load
      <3> HIDE DEF addr, cell, word, upper, jump
      <3> QED BY <3>1, SMT
    <2> HIDE DEF Changed, addr, cell, word, upper, jump
    <2>16. CASE op = "EBREAK" /\ format = "I"
      <3>1. h.pc \in Bits32 /\ 0 \in 0..15
        BY <2>3
      <3> QED BY <2>1, <2>3, <2>13, <2>16, <3>1, HartChanged, Zenon DEF Broken
    <2>17. CASE op \in DOMAIN Upper /\ format = "U"
      <3>1. op \in {"LUI", "AUIPC"}
        BY <2>17, SMT DEF Upper
      <3>2. upper \in Bits32
        BY <2>7, <2>11, <2>17, Zenon
      <3>3. Plus(h.pc, upper) \in Bits32
        BY <2>3, <3>2, SumTyped, Zenon
      <3>4. Changed = Write(upper, next) \/ Changed = Write(Plus(h.pc, upper), next)
        BY <2>13, <2>17, <3>1, SMT
      <3> QED BY <2>1, <2>6, <2>8, <3>2, <3>3, <3>4, Zenon
    <2>18. CASE op = "JAL" /\ format = "J"
      <3>1. jump \in Bits32
        <4>1. 20 \in {12, 20}
          OBVIOUS
        <4> QED BY <2>7, <2>10, <2>18, <4>1, Zenon
      <3> QED BY <2>1, <2>6, <2>8, <2>13, <2>18, <3>1, Zenon
    <2>19. CASE op = "JALR" /\ format = "I"
      <3>1. [addr EXCEPT ![1] = 0] \in Bits32
        BY <2>7, <2>9, <2>12, <2>19, Zenon
      <3> QED BY <2>1, <2>6, <2>8, <2>13, <2>19, <3>1, Zenon
    <2>20. CASE op \in DOMAIN Branch /\ format = "B"
      <3>1. op \notin {"EBREAK", "LUI", "AUIPC", "JAL", "JALR"} /\ op \notin {"LB", "LH", "LW", "LBU", "LHU"}
        BY <2>20, SMT DEF Branch
      <3>2. jump \in Bits32
        <4>1. 12 \in {12, 20}
          OBVIOUS
        <4> QED BY <2>7, <2>10, <2>20, <4>1, Zenon
      <3>3. Changed \in {Moved(jump), Moved(next)} /\ 0 \in 0..15
        BY <2>14, <2>20, <3>1, SMT
      <3>4. h.led \in 0..15
        BY DEF HartOK, Harts
      <3>5. HartOK(Moved(jump)) /\ HartOK(Moved(next))
        BY <2>3, <2>6, <3>2, <3>4, HartChanged, Zenon DEF Moved
      <3> QED BY <2>1, <3>3, <3>5, Zenon
    <2>21. CASE op \in DOMAIN Store /\ format = "S"
      <3>1. op \notin {"EBREAK", "LUI", "AUIPC", "JAL", "JALR"} /\ op \notin {"LB", "LH", "LW", "LBU", "LHU"}
            /\ op \in Memory
        BY <2>21, SMT DEF Store, Memory
      <3>2. addr \in Bits32 /\ cell \in Nat /\ word \in Bits32 /\ Lane(addr) + Width(op) <= 32
        BY <2>7, <2>9, <2>12, <2>21, <3>1, Zenon
      <3>3. Stored(op, word, addr, b) \in Bits32
        BY <2>5, <3>2, MemoryAccess, Zenon
      <3>4. Put(Stored(op, word, addr, b)) \in Memories
        BY <2>3, <3>2, <3>3, MemoryTyped, Zenon DEF Put
      <3>5. UInt(Bits(b, 3, 0)) \in 0..15
        BY <2>5, PartsTyped, Zenon
      <3>6. Changed \in {Lit, Filled}
        BY <2>14, <2>21, <3>1, SMT
      <3> DEFINE led == UInt(Bits(b, 3, 0))
                 mem == Put(Stored(op, word, addr, b))
      <3>7. led \in 0..15 /\ mem \in Memories
        BY <3>4, <3>5
      <3>8. Lit = [h EXCEPT !.pc = next, !.led = led] /\ Filled = [h EXCEPT !.pc = next, !.mem = mem]
        BY ZenonT(60) DEF Lit, Filled
      <3> HIDE DEF led, mem
      <3>9. /\ HartOK([h EXCEPT !.pc = next, !.led = led])
            /\ HartOK([h EXCEPT !.pc = next, !.mem = mem])
        BY <2>6, <3>7, HartChanged, ZenonT(60)
      <3> QED BY <2>1, <3>6, <3>8, <3>9, Zenon
    <2>22. CASE op \in DOMAIN Load /\ format = "I"
      <3>1. op \notin {"EBREAK", "LUI", "AUIPC", "JAL", "JALR"} /\ op \in Memory
        BY <2>22, SMT DEF Load, Memory
      <3>2. addr \in Bits32 /\ cell \in Nat /\ word \in Bits32 /\ Lane(addr) + Width(op) <= 32
        BY <2>7, <2>9, <2>12, <2>22, <3>1, Zenon
      <3>3. Loaded(op, word, addr) \in Bits32
        BY <2>5, <3>2, MemoryAccess, Zenon
      <3>4. Changed = Write(Loaded(op, word, addr), next)
        BY <2>15, <2>22, <3>1, SMT
      <3> QED BY <2>1, <2>6, <2>8, <3>3, <3>4, Zenon
    <2>23. CASE op \in Computing /\ format \in {"R", "I"}
      <3>1. op \notin {"EBREAK", "LUI", "AUIPC", "JAL", "JALR"} /\ op \notin DOMAIN Load
        BY <2>23, SMT DEF Computing, Op, OpImm, Shift, Load
      <3> DEFINE c == IF format = "R" THEN b ELSE Signed(imm)
      <3>2. c \in Bits32
        BY <2>5, <2>7, <2>9, <2>23, SMT
      <3>3. Changed = Write(Arithmetic(op, a, c), next)
        BY <2>15, <2>23, <3>1, SMT
      <3> HIDE DEF c
      <3>4. Arithmetic(op, a, c) \in Bits32
        BY <2>5, <2>23, <3>2, ArithmeticTyped, Zenon
      <3> QED BY <2>1, <2>6, <2>8, <3>3, <3>4, Zenon
    <2>24. \/ op = "EBREAK" /\ format = "I"
           \/ op \in DOMAIN Upper /\ format = "U"
           \/ op = "JAL" /\ format = "J"
           \/ op = "JALR" /\ format = "I"
           \/ op \in DOMAIN Branch /\ format = "B"
           \/ op \in DOMAIN Store /\ format = "S"
           \/ op \in DOMAIN Load /\ format = "I"
           \/ op \in Computing /\ format \in {"R", "I"}
      <3> DEFINE f == instructions[op].format
      <3>1. format = f
        BY Zenon DEF format
      <3> HIDE DEF f
      <3>2. f = "R" \/ f = "I" => f \in {"R", "I"}
        OBVIOUS
      <3> QED BY <2>2, <3>1, <3>2, KnownClasses, Zenon DEF Computing, f
    <2> QED BY <2>16, <2>17, <2>18, <2>19, <2>20, <2>21, <2>22, <2>23, <2>24, Zenon
  <1> QED BY <1>1, <1>2

-----------------------------------------------------------------------------
(* A byte is written and read bit by bit.                                    *)
LEMMA ByteIsBits ==
    ASSUME NEW v \in Int
    PROVE  Byte(v) \in BitSeq(8) /\ \A k \in 1..8 : Byte(v)[k] = (v \div 2^(k - 1)) % 2
  <1>1. 8 \in 0..32
    OBVIOUS
  <1>2. Low(v, 8) \in BitSeq(8) /\ \A k \in 1..8 : Low(v, 8)[k] = (v \div 2^(k - 1)) % 2
    BY <1>1, LowBits, Zenon
  <1>3. DOMAIN Low(v, 8) = 1..8
    BY <1>2 DEF BitSeq
  <1>4. Low(v, 8) = Byte(v)
    <2>1. Low(v, 8) = [k \in 1..8 |-> Low(v, 8)[k]]
      BY <1>2, Zenon DEF BitSeq
    <2>2. [k \in 1..8 |-> Low(v, 8)[k]] = [k \in 1..8 |-> (v \div 2^(k - 1)) % 2]
      BY <1>2, Zenon
    <2> QED BY <2>1, <2>2, Zenon DEF Byte
  <1> QED BY <1>2, <1>4, Zenon

LEMMA ByteRead ==
    ASSUME NEW s \in BitSeq(8)
    PROVE  UInt(s) \in 0..255 /\ Byte(UInt(s)) = s
  <1> DEFINE u == UInt(s)
  <1>1. u \in 0..255
    <2>1. 8 \in 0..31
      OBVIOUS
    <2>2. u \in 0..(2^8 - 1)
      BY <2>1, UIntRange, Zenon
    <2> QED BY <2>2, SMT
  <1>2. PICK v \in [0..8 -> Nat] :
             /\ u = v[8] /\ v[0] = 0
             /\ \A k \in 1..8 : v[k] = v[k - 1] + s[k] * 2^(k - 1)
    <2>1. 8 \in 0..32
      OBVIOUS
    <2> QED BY <2>1, UIntRuns
  <1>3. ASSUME NEW k \in 1..8
        PROVE  IsPower(k - 1, 2^(k - 1)) /\ s[k] \in {0, 1}
    BY Powers, Zenon DEF BitSeq, Bit
  <1>4. u = s[1] + 2 * s[2] + 4 * s[3] + 8 * s[4] + 16 * s[5] + 32 * s[6] + 64 * s[7] + 128 * s[8]
    <2> DEFINE p(k) == 2^(k - 1)
    <2>1. p(1) = 1 /\ p(2) = 2 /\ p(3) = 4 /\ p(4) = 8 /\ p(5) = 16 /\ p(6) = 32 /\ p(7) = 64 /\ p(8) = 128
      OBVIOUS
    <2>2. \A k \in 1..8 : v[k] = v[k - 1] + s[k] * p(k)
      BY <1>2, Zenon
    <2> HIDE DEF p
    <2>3. /\ v[1] = v[0] + s[1] * 1 /\ v[2] = v[1] + s[2] * 2 /\ v[3] = v[2] + s[3] * 4
          /\ v[4] = v[3] + s[4] * 8 /\ v[5] = v[4] + s[5] * 16 /\ v[6] = v[5] + s[6] * 32
          /\ v[7] = v[6] + s[7] * 64 /\ v[8] = v[7] + s[8] * 128
      BY <2>1, <2>2
    <2>4. /\ s[1] \in Int /\ s[2] \in Int /\ s[3] \in Int /\ s[4] \in Int
          /\ s[5] \in Int /\ s[6] \in Int /\ s[7] \in Int /\ s[8] \in Int
      BY <1>3
    <2> QED BY <1>2, <2>3, <2>4
  <1> HIDE DEF u
  <1>5. /\ (u \div 1) % 2 = s[1] /\ (u \div 2) % 2 = s[2] /\ (u \div 4) % 2 = s[3] /\ (u \div 8) % 2 = s[4]
        /\ (u \div 16) % 2 = s[5] /\ (u \div 32) % 2 = s[6] /\ (u \div 64) % 2 = s[7] /\ (u \div 128) % 2 = s[8]
    <2> DEFINE a == s[1]
               b == s[2]
               c == s[3]
               d == s[4]
               e == s[5]
               f == s[6]
               g == s[7]
               h == s[8]
    <2>1. /\ a \in Int /\ b \in Int /\ c \in Int /\ d \in Int /\ e \in Int /\ f \in Int /\ g \in Int /\ h \in Int
          /\ u \in Int
      BY <1>1, <1>3
    <2>2. /\ (a = 0 \/ a = 1) /\ (b = 0 \/ b = 1) /\ (c = 0 \/ c = 1) /\ (d = 0 \/ d = 1)
          /\ (e = 0 \/ e = 1) /\ (f = 0 \/ f = 1) /\ (g = 0 \/ g = 1) /\ (h = 0 \/ h = 1)
      BY <1>3
    <2>3. u = a + 2 * b + 4 * c + 8 * d + 16 * e + 32 * f + 64 * g + 128 * h
      BY <1>4
    <2> HIDE DEF a, b, c, d, e, f, g, h
    <2>4. (u \div 1) % 2 = a /\ (u \div 2) % 2 = b /\ (u \div 4) % 2 = c
      BY <2>1, <2>2, <2>3
    <2>5. (u \div 8) % 2 = d /\ (u \div 16) % 2 = e
      BY <2>1, <2>2, <2>3
    <2>6. (u \div 32) % 2 = f
      BY <2>1, <2>2, <2>3
    <2>7. (u \div 64) % 2 = g /\ (u \div 128) % 2 = h
      BY <2>1, <2>2, <2>3
    <2> QED BY <2>4, <2>5, <2>6, <2>7 DEF a, b, c, d, e, f, g, h
  <1>6. ASSUME NEW k \in 1..8
        PROVE  Byte(u)[k] = s[k]
    <2> DEFINE p == 2^(k - 1)
    <2>1. IsPower(k - 1, p) /\ Byte(u)[k] = (u \div p) % 2
      <3>1. u \in Int
        BY <1>1
      <3> QED BY <1>3, <3>1, ByteIsBits, Zenon
    <2> HIDE DEF p
    <2>2. \/ (p = 1 /\ k = 1) \/ (p = 2 /\ k = 2) \/ (p = 4 /\ k = 3) \/ (p = 8 /\ k = 4)
          \/ (p = 16 /\ k = 5) \/ (p = 32 /\ k = 6) \/ (p = 64 /\ k = 7) \/ (p = 128 /\ k = 8)
      BY <2>1 DEF IsPower
    <2> QED BY <1>5, <2>1, <2>2, Zenon
  <1>7. Byte(u) = s
    <2>1. u \in Int /\ 8 \in Nat
      BY <1>1
    <2>2. Byte(u) \in BitSeq(8)
      BY <2>1, ByteIsBits, Zenon
    <2> QED BY <1>6, <2>1, <2>2, BitSeqEqual, Zenon
  <1> QED BY <1>1, <1>7, Zenon DEF u

LEMMA WordIsBits ==
    ASSUME NEW bytes, bytes[1] \in Int, bytes[2] \in Int, bytes[3] \in Int, bytes[4] \in Int
    PROVE  /\ Word(bytes) \in Bits32
           /\ \A k \in 1..8 : /\ Word(bytes)[k] = Byte(bytes[1])[k]
                              /\ Word(bytes)[8 + k] = Byte(bytes[2])[k]
                              /\ Word(bytes)[16 + k] = Byte(bytes[3])[k]
                              /\ Word(bytes)[24 + k] = Byte(bytes[4])[k]
  <1> DEFINE a == Byte(bytes[1])
             b == Byte(bytes[2])
             c == Byte(bytes[3])
             d == Byte(bytes[4])
             ab == a \o b
             abc == ab \o c
             abcd == abc \o d
  <1>1. a \in BitSeq(8) /\ b \in BitSeq(8) /\ c \in BitSeq(8) /\ d \in BitSeq(8)
    BY ByteIsBits
  <1>2. Word(bytes) = abcd
    BY DEF Word
  <1> HIDE DEF a, b, c, d
  <1>3. 8 \in Nat /\ 16 \in Nat /\ 24 \in Nat /\ 8 + 8 = 16 /\ 16 + 8 = 24 /\ 24 + 8 = 32
    OBVIOUS
  <1>4. ab \in BitSeq(8 + 8) /\ (\A k \in 1..8 : ab[k] = a[k]) /\ \A k \in 1..8 : ab[8 + k] = b[k]
    BY <1>1, <1>3, JoinBits, ZenonT(60)
  <1> HIDE DEF ab
  <1>5. abc \in BitSeq(16 + 8) /\ (\A k \in 1..16 : abc[k] = ab[k]) /\ \A k \in 1..8 : abc[16 + k] = c[k]
    <2>1. 16 \in Nat /\ 8 \in Nat /\ ab \in BitSeq(16)
      BY <1>3, <1>4, Zenon
    <2> QED BY <1>1, <2>1, JoinBits, ZenonT(60)
  <1> HIDE DEF abc
  <1>6. abcd \in BitSeq(24 + 8) /\ (\A k \in 1..24 : abcd[k] = abc[k]) /\ \A k \in 1..8 : abcd[24 + k] = d[k]
    <2>1. 24 \in Nat /\ 8 \in Nat /\ abc \in BitSeq(24)
      BY <1>3, <1>5, Zenon
    <2> QED BY <1>1, <2>1, JoinBits, ZenonT(60)
  <1> HIDE DEF abcd
  <1>7. abcd \in Bits32
    BY <1>3, <1>6, Zenon DEF BitSeq, Bits32
  <1>8. ASSUME NEW k \in 1..8
        PROVE  abcd[k] = a[k] /\ abcd[8 + k] = b[k] /\ abcd[16 + k] = c[k] /\ abcd[24 + k] = d[k]
    <2>1. k \in 1..16 /\ k \in 1..24 /\ 8 + k \in 1..16 /\ 8 + k \in 1..24 /\ 16 + k \in 1..24
      OBVIOUS
    <2> QED BY <1>4, <1>5, <1>6, <2>1, Zenon
  <1> QED BY <1>2, <1>7, <1>8, Zenon DEF a, b, c, d

LEMMA WordRead ==
    ASSUME NEW w \in Bits32
    PROVE  /\ \A n \in 0..3 : ByteOf(w, n) \in 0..255
           /\ \A bytes : bytes[1] = ByteOf(w, 0) /\ bytes[2] = ByteOf(w, 1)
                         /\ bytes[3] = ByteOf(w, 2) /\ bytes[4] = ByteOf(w, 3) => Word(bytes) = w
  <1>1. ASSUME NEW n \in 0..3
        PROVE  /\ ByteOf(w, n) \in 0..255
               /\ \A k \in 1..8 : Byte(ByteOf(w, n))[k] = w[8 * n + k]
    <2> DEFINE lo == 8 * n
               hi == 8 * n + 7
               s  == SubSeq(w, 8 * n + 1, 8 * n + 8)
    <2>1. lo \in 0..31 /\ hi \in lo..31 /\ hi - lo + 1 = 8 /\ hi + 1 = 8 * n + 8
      OBVIOUS
    <2>2. s = Bits(w, hi, lo)
      BY <2>1, Zenon DEF Bits
    <2> HIDE DEF s, lo, hi
    <2>3. s \in BitSeq(8) /\ \A k \in 1..8 : s[k] = w[lo + k]
      BY <2>1, <2>2, PartBits, Zenon
    <2>4. ByteOf(w, n) = UInt(s)
      BY Zenon DEF ByteOf, s
    <2> QED BY <2>3, <2>4, ByteRead, ZenonT(60) DEF lo
  <1>2. ASSUME NEW bytes, bytes[1] = ByteOf(w, 0), bytes[2] = ByteOf(w, 1),
               bytes[3] = ByteOf(w, 2), bytes[4] = ByteOf(w, 3)
        PROVE  Word(bytes) = w
    <2> DEFINE v == Word(bytes)
    <2>1. 0 \in 0..3 /\ 1 \in 0..3 /\ 2 \in 0..3 /\ 3 \in 0..3
      OBVIOUS
    <2>2. /\ bytes[1] \in 0..255 /\ \A k \in 1..8 : Byte(bytes[1])[k] = w[8 * 0 + k]
          /\ bytes[2] \in 0..255 /\ \A k \in 1..8 : Byte(bytes[2])[k] = w[8 * 1 + k]
          /\ bytes[3] \in 0..255 /\ \A k \in 1..8 : Byte(bytes[3])[k] = w[8 * 2 + k]
          /\ bytes[4] \in 0..255 /\ \A k \in 1..8 : Byte(bytes[4])[k] = w[8 * 3 + k]
      <3>1. ASSUME NEW n \in 0..3, NEW x, x = ByteOf(w, n)
            PROVE  x \in 0..255 /\ \A k \in 1..8 : Byte(x)[k] = w[8 * n + k]
        BY <1>1, <3>1, Zenon
      <3>2. bytes[1] \in 0..255 /\ \A k \in 1..8 : Byte(bytes[1])[k] = w[8 * 0 + k]
        BY <1>2, <2>1, <3>1, Zenon
      <3>3. bytes[2] \in 0..255 /\ \A k \in 1..8 : Byte(bytes[2])[k] = w[8 * 1 + k]
        BY <1>2, <2>1, <3>1, Zenon
      <3>4. bytes[3] \in 0..255 /\ \A k \in 1..8 : Byte(bytes[3])[k] = w[8 * 2 + k]
        BY <1>2, <2>1, <3>1, Zenon
      <3>5. bytes[4] \in 0..255 /\ \A k \in 1..8 : Byte(bytes[4])[k] = w[8 * 3 + k]
        BY <1>2, <2>1, <3>1, Zenon
      <3> QED BY <3>2, <3>3, <3>4, <3>5
    <2>3. bytes[1] \in Int /\ bytes[2] \in Int /\ bytes[3] \in Int /\ bytes[4] \in Int
      BY <2>2
    <2>4. /\ v \in Bits32
          /\ \A k \in 1..8 : /\ v[k] = Byte(bytes[1])[k] /\ v[8 + k] = Byte(bytes[2])[k]
                             /\ v[16 + k] = Byte(bytes[3])[k] /\ v[24 + k] = Byte(bytes[4])[k]
      BY <2>3, WordIsBits, Zenon
    <2> HIDE DEF v
    <2>5. ASSUME NEW k \in 1..8
          PROVE  v[k] = w[k] /\ v[8 + k] = w[8 + k] /\ v[16 + k] = w[16 + k] /\ v[24 + k] = w[24 + k]
      <3>1. 8 * 0 + k = k /\ 8 * 1 = 8 /\ 8 * 2 = 16 /\ 8 * 3 = 24
        OBVIOUS
      <3> QED BY <2>2, <2>4, <3>1, ZenonT(60)
    <2>6. ASSUME NEW k \in 1..32
          PROVE  v[k] = w[k]
      <3>1. PICK j \in 1..8 : k = j \/ k = 8 + j \/ k = 16 + j \/ k = 24 + j
        <4>1. k \in 1..8 \/ k - 8 \in 1..8 \/ k - 16 \in 1..8 \/ k - 24 \in 1..8
          OBVIOUS
        <4>2. k = 8 + (k - 8) /\ k = 16 + (k - 16) /\ k = 24 + (k - 24)
          OBVIOUS
        <4> QED BY <4>1, <4>2, Zenon
      <3> QED BY <2>5, <3>1, Zenon
    <2>7. v = w
      BY <2>4, <2>6 DEF Bits32
    <2> QED BY <2>7 DEF v
  <1> QED BY <1>1, <1>2, Zenon

-----------------------------------------------------------------------------
(* The program in memory: no more words than the block RAM has.              *)
WordsOK == words \in Seq(Bits32) /\ Len(words) <= 4096

LEMMA FunctionIsSeq ==
    ASSUME NEW n \in Nat, NEW X, NEW f \in [1..n -> X]
    PROVE  f \in Seq(X) /\ Len(f) = n
  OBVIOUS

LEMMA BytesTyped ==
    ASSUME WordsOK
    PROVE  /\ Bytes \in Seq(0..255) /\ Len(Bytes) = 4 * Len(words)
           /\ \A w \in 0..(Len(words) - 1), n \in 0..3 : Bytes[4 * w + n + 1] = ByteOf(words[w + 1], n)
  <1> DEFINE M == Len(words)
  <1>1. M \in Nat /\ \A k \in 1..M : words[k] \in Bits32
    BY DEF WordsOK
  <1> HIDE DEF M
  <1>2. Bytes = [b \in 1..(4 * M) |-> ByteOf(words[((b - 1) \div 4) + 1], (b - 1) % 4)]
    BY Zenon DEF Bytes, M
  <1>3. ASSUME NEW b \in 1..(4 * M)
        PROVE  ByteOf(words[((b - 1) \div 4) + 1], (b - 1) % 4) \in 0..255
    <2>1. ((b - 1) \div 4) + 1 \in 1..M /\ (b - 1) % 4 \in 0..3
      BY <1>1
    <2> QED BY <1>1, <2>1, WordRead, Zenon
  <1>4. Bytes \in [1..(4 * M) -> 0..255]
    BY <1>2, <1>3, Zenon
  <1>5. Bytes \in Seq(0..255) /\ Len(Bytes) = 4 * M
    <2>1. 4 * M \in Nat
      BY <1>1
    <2> QED BY <1>4, <2>1, FunctionIsSeq, Zenon
  <1>6. ASSUME NEW w \in 0..(M - 1), NEW n \in 0..3
        PROVE  Bytes[4 * w + n + 1] = ByteOf(words[w + 1], n)
    <2> DEFINE b == 4 * w + n + 1
    <2>1. b \in 1..(4 * M) /\ (b - 1) \div 4 = w /\ (b - 1) % 4 = n
      <3>1. M \in Nat /\ w \in Int /\ n \in Int /\ 0 <= w /\ w <= M - 1 /\ 0 <= n /\ n <= 3
        BY <1>1
      <3>2. b \in Int /\ b - 1 = 4 * w + n /\ 1 <= b /\ b <= 4 * M
        BY <3>1
      <3> HIDE DEF b
      <3> QED BY <3>1, <3>2
    <2> HIDE DEF b
    <2>2. Bytes[b] = ByteOf(words[w + 1], n)
      BY <1>2, <2>1, Zenon
    <2> QED BY <2>2 DEF b
  <1> QED BY <1>5, <1>6, Zenon DEF M

LEMMA WordsFromBytes ==
    ASSUME WordsOK, NEW w \in 0..(Len(words) - 1), NEW q,
           q[1] = Bytes[4 * w + 1], q[2] = Bytes[4 * w + 2], q[3] = Bytes[4 * w + 3], q[4] = Bytes[4 * w + 4]
    PROVE  Word(q) = words[w + 1]
  <1>1. /\ Bytes[4 * w + 0 + 1] = ByteOf(words[w + 1], 0) /\ Bytes[4 * w + 1 + 1] = ByteOf(words[w + 1], 1)
        /\ Bytes[4 * w + 2 + 1] = ByteOf(words[w + 1], 2) /\ Bytes[4 * w + 3 + 1] = ByteOf(words[w + 1], 3)
    <2>1. 0 \in 0..3 /\ 1 \in 0..3 /\ 2 \in 0..3 /\ 3 \in 0..3
      OBVIOUS
    <2> QED BY <2>1, BytesTyped, Zenon
  <1>2. /\ 4 * w + 0 + 1 = 4 * w + 1 /\ 4 * w + 1 + 1 = 4 * w + 2
        /\ 4 * w + 2 + 1 = 4 * w + 3 /\ 4 * w + 3 + 1 = 4 * w + 4
    OBVIOUS
  <1>3. words[w + 1] \in Bits32
    BY DEF WordsOK
  <1> QED BY <1>1, <1>2, <1>3, WordRead, ZenonT(60)

(* A raw binary, with or without its last zero, is the program or refused.   *)
LEMMA BinaryArrives ==
    ASSUME WordsOK, NEW bytes \in Binaries
    PROVE  load_bin(bytes) \in {NoImage, Image(Expected)}
  <1> DEFINE M == Len(words)
             L == Len(Bytes)
  <1>1. Bytes \in Seq(0..255) /\ L = 4 * M /\ M \in Nat
    BY BytesTyped DEF WordsOK
  <1>2. bytes = Bytes \/ (bytes = SubSeq(Bytes, 1, L - 1) /\ Bytes[L] = 0)
    BY Zenon DEF Binaries
  <1> HIDE DEF M, L
  <1>3. CASE M = 0
    <2>1. Bytes = <<>>
      BY <1>1, <1>3 DEF L
    <2>2. SubSeq(Bytes, 1, L - 1) = <<>>
      BY <1>1, <1>3, <2>1 DEF L
    <2>3. bytes = <<>>
      BY <1>2, <2>1, <2>2
    <2> QED BY <2>3, Zenon DEF load_bin
  <1>4. CASE M # 0
    <2>1. Padded(bytes) = Bytes
      <3>1. CASE bytes = Bytes
        <4>1. Len(bytes) % 4 = 0
          <5>1. L % 4 = 0
            BY <1>1
          <5> QED BY <3>1, <5>1, Zenon DEF L
        <4> QED BY <3>1, <4>1, Zenon DEF Padded
      <3>2. CASE bytes = SubSeq(Bytes, 1, L - 1) /\ Bytes[L] = 0
        <4>1. Len(bytes) = L - 1 /\ bytes \in Seq(0..255) /\ \A k \in 1..(L - 1) : bytes[k] = Bytes[k]
          <5>1. \A i \in 1..(L - 1) : Bytes[i] \in 0..255
            <6>1. \A i \in 1..(L - 1) : i \in 1..L
              BY <1>1
            <6>2. Bytes \in Seq(0..255)
              BY <1>1, Zenon
            <6>3. ASSUME NEW X, Bytes \in Seq(X)
                  PROVE  \A i \in 1..Len(Bytes) : Bytes[i] \in X
              BY ONLY <6>3, ElementOfSeq, Zenon
            <6> QED BY <6>1, <6>2, <6>3, Zenon DEF L
          <5>2. 1 \in Int /\ L - 1 \in Int /\ 1 <= L - 1 /\ (L - 1) - 1 + 1 = L - 1
            BY <1>1, <1>4
          <5>3. /\ bytes \in Seq(0..255)
                /\ Len(bytes) = (L - 1) - 1 + 1
                /\ \A k \in 1..((L - 1) - 1 + 1) : bytes[k] = Bytes[1 + k - 1]
            BY <3>2, <5>1, <5>2, SubSeqProperties
          <5>4. \A k \in 1..(L - 1) : 1 + k - 1 = k
            OBVIOUS
          <5> QED BY <5>2, <5>3, <5>4
        <4>2. Len(bytes) % 4 = 3 /\ 4 - 3 = 1
          BY <1>1, <1>4, <4>1
        <4> DEFINE z == [k \in 1..1 |-> 0]
        <4>3. Padded(bytes) = bytes \o z
          <5>1. 3 # 0
            OBVIOUS
          <5> QED BY <4>2, <5>1, Zenon DEF Padded
        <4>4. z \in Seq(0..255) /\ Len(z) = 1 /\ z[1] = 0
          OBVIOUS
        <4> HIDE DEF z
        <4> DEFINE p == bytes \o z
        <4>5. p \in Seq(0..255) /\ Len(p) = L /\ \A k \in 1..L : p[k] = Bytes[k]
          <5>1. /\ p \in Seq(0..255) /\ Len(p) = (L - 1) + 1
                /\ \A k \in 1..((L - 1) + 1) : p[k] = IF k <= L - 1 THEN bytes[k] ELSE z[k - (L - 1)]
            <6>1. /\ p \in Seq(0..255) /\ Len(p) = Len(bytes) + Len(z)
                  /\ \A k \in 1..(Len(bytes) + Len(z)) :
                        p[k] = IF k <= Len(bytes) THEN bytes[k] ELSE z[k - Len(bytes)]
              BY <4>1, <4>4, ConcatProperties, ZenonT(60)
            <6> HIDE DEF p
            <6>2. Len(bytes) = L - 1 /\ Len(z) = 1
              BY <4>1, <4>4
            <6> QED BY <6>1, <6>2, Zenon
          <5>2. L \in Nat /\ (L - 1) + 1 = L
            BY <1>1
          <5>3. ASSUME NEW k \in 1..L
                PROVE  p[k] = Bytes[k]
            <6>1. CASE k <= L - 1
              BY <4>1, <5>1, <5>2, <6>1
            <6>2. CASE k = L
              <7>1. k - (L - 1) = 1 /\ ~(k <= L - 1)
                BY <5>2, <6>2
              <7> QED BY <3>2, <4>4, <5>1, <5>2, <6>2, <7>1
            <6>3. k <= L - 1 \/ k = L
              BY <5>2
            <6> QED BY <6>1, <6>2, <6>3, Zenon
          <5> QED BY <5>1, <5>2, <5>3
        <4> HIDE DEF p
        <4>6. p = Bytes
          BY <1>1, <4>5, SeqEqual DEF L
        <4> QED BY <4>3, <4>6 DEF p
      <3> QED BY <1>2, <3>1, <3>2
    <2> DEFINE f == [w \in 0..((Len(Bytes) \div 4) - 1) |-> Word(SubSeq(Bytes, 4 * w + 1, 4 * w + 4))]
    <2>2. load_bin(bytes) \in {NoImage, Image(f)}
      BY <2>1, Zenon DEF load_bin
    <2>3. f = Expected
      <3>1. Len(Bytes) \div 4 = M
        BY <1>1 DEF L
      <3>2. ASSUME NEW w \in 0..(M - 1)
            PROVE  Word(SubSeq(Bytes, 4 * w + 1, 4 * w + 4)) = words[w + 1]
        <4> DEFINE q == SubSeq(Bytes, 4 * w + 1, 4 * w + 4)
        <4>1. /\ q[1] = Bytes[4 * w + 1] /\ q[2] = Bytes[4 * w + 2]
              /\ q[3] = Bytes[4 * w + 3] /\ q[4] = Bytes[4 * w + 4]
          BY <1>1 DEF L
        <4> HIDE DEF q
        <4>2. Word(q) = words[w + 1]
          BY <4>1, WordsFromBytes, Zenon DEF M
        <4> QED BY <4>2 DEF q
      <3> QED BY <3>1, <3>2, Zenon DEF Expected, M
    <2> QED BY <2>2, <2>3, Zenon
  <1> QED BY <1>3, <1>4

(* A complete memory is the program; words of whatever bytes are words.      *)
LEMMA LowestOf ==
    ASSUME NEW n \in Nat
    PROVE  Lowest(0..n) = 0 /\ Highest(0..n) = n
  <1>1. \A a \in 0..n : (\A x \in 0..n : a <= x) <=> a = 0
    OBVIOUS
  <1>2. \A a \in 0..n : (\A x \in 0..n : a >= x) <=> a = n
    OBVIOUS
  <1>3. 0 \in 0..n /\ n \in 0..n
    OBVIOUS
  <1>4. Lowest(0..n) = 0
    BY <1>1, <1>3, Zenon DEF Lowest
  <1>5. Highest(0..n) = n
    BY <1>2, <1>3, Zenon DEF Highest
  <1> QED BY <1>4, <1>5

LEMMA MemoryArrives ==
    ASSUME WordsOK, NEW m, DOMAIN m = 0..(Len(Bytes) - 1), \A a \in 0..(Len(Bytes) - 1) : m[a] = Bytes[a + 1]
    PROVE  get_word_aligned_data(m) \in {NoImage, Image(Expected)}
  <1> DEFINE M == Len(words)
             L == Len(Bytes)
             Get(a) == IF a \in DOMAIN m THEN m[a] ELSE 0
             range == get_memory_range(m)
             f == [w \in (range.low \div 4)..(range.high \div 4) |->
                     Word(<<Get(4 * w), Get(4 * w + 1), Get(4 * w + 2), Get(4 * w + 3)>>)]
  <1>1. L = 4 * M /\ M \in Nat
    BY BytesTyped DEF WordsOK
  <1>2. CASE DOMAIN m = {}
    BY <1>2, Zenon DEF get_word_aligned_data
  <1>3. CASE DOMAIN m # {}
    <2>1. get_word_aligned_data(m) = Image(f)
      BY <1>3, Zenon DEF get_word_aligned_data
    <2>2. range.low = 0 /\ range.high = L - 1
      <3>1. L - 1 \in Nat
        BY <1>1, <1>3
      <3>2. get_memory_range(m) = [low |-> Lowest(0..(L - 1)), high |-> Highest(0..(L - 1))]
        BY Zenon DEF get_memory_range
      <3> QED BY <3>1, <3>2, LowestOf
    <2> HIDE DEF range
    <2>3. range.low \div 4 = 0 /\ range.high \div 4 = M - 1
      BY <1>1, <1>3, <2>2
    <2>4. ASSUME NEW w \in 0..(M - 1)
          PROVE  Word(<<Get(4 * w), Get(4 * w + 1), Get(4 * w + 2), Get(4 * w + 3)>>) = words[w + 1]
      <3> DEFINE q == <<Get(4 * w), Get(4 * w + 1), Get(4 * w + 2), Get(4 * w + 3)>>
      <3> HIDE DEF L
      <3>1. 4 * w \in 0..(L - 1) /\ 4 * w + 1 \in 0..(L - 1) /\ 4 * w + 2 \in 0..(L - 1) /\ 4 * w + 3 \in 0..(L - 1)
        BY <1>1
      <3>2. (4 * w + 1) + 1 = 4 * w + 2 /\ (4 * w + 2) + 1 = 4 * w + 3 /\ (4 * w + 3) + 1 = 4 * w + 4
        OBVIOUS
      <3>3. /\ Get(4 * w) = Bytes[4 * w + 1] /\ Get(4 * w + 1) = Bytes[4 * w + 2]
            /\ Get(4 * w + 2) = Bytes[4 * w + 3] /\ Get(4 * w + 3) = Bytes[4 * w + 4]
        BY <3>1, <3>2, Zenon DEF L
      <3> HIDE DEF Get
      <3>4. /\ q[1] = Bytes[4 * w + 1] /\ q[2] = Bytes[4 * w + 2]
            /\ q[3] = Bytes[4 * w + 3] /\ q[4] = Bytes[4 * w + 4]
        BY <3>3
      <3> HIDE DEF q
      <3>5. Word(q) = words[w + 1]
        BY <3>4, WordsFromBytes, Zenon DEF M
      <3> QED BY <3>5 DEF q
    <2>5. f = Expected
      BY <2>3, <2>4, Zenon DEF Expected, M
    <2> QED BY <2>1, <2>5, Zenon
  <1> QED BY <1>2, <1>3

LEMMA MemoryWords ==
    ASSUME NEW m, \A a \in DOMAIN m : m[a] \in Int
    PROVE  \A w \in DOMAIN get_word_aligned_data(m).words : get_word_aligned_data(m).words[w] \in Bits32
  <1> DEFINE Get(a) == IF a \in DOMAIN m THEN m[a] ELSE 0
             range == get_memory_range(m)
             f == [w \in (range.low \div 4)..(range.high \div 4) |->
                     Word(<<Get(4 * w), Get(4 * w + 1), Get(4 * w + 2), Get(4 * w + 3)>>)]
  <1>1. CASE DOMAIN m = {}
    <2>1. get_word_aligned_data(m) = NoImage
      BY <1>1, Zenon DEF get_word_aligned_data
    <2>2. DOMAIN NoImage.words = {}
      BY DEF NoImage
    <2> QED BY <2>1, <2>2
  <1>2. CASE DOMAIN m # {}
    <2>1. get_word_aligned_data(m) = Image(f)
      BY <1>2, Zenon DEF get_word_aligned_data
    <2>2. ASSUME NEW w
          PROVE  Word(<<Get(4 * w), Get(4 * w + 1), Get(4 * w + 2), Get(4 * w + 3)>>) \in Bits32
      <3> DEFINE q == <<Get(4 * w), Get(4 * w + 1), Get(4 * w + 2), Get(4 * w + 3)>>
      <3>1. 0 \in Int
        OBVIOUS
      <3>2. Get(4 * w) \in Int /\ Get(4 * w + 1) \in Int /\ Get(4 * w + 2) \in Int /\ Get(4 * w + 3) \in Int
        BY <3>1, Zenon
      <3> HIDE DEF Get
      <3>3. q[1] \in Int /\ q[2] \in Int /\ q[3] \in Int /\ q[4] \in Int
        BY <3>2
      <3> HIDE DEF q
      <3>4. Word(q) \in Bits32
        BY <3>3, WordIsBits, Zenon
      <3> QED BY <3>4 DEF q
    <2>3. \A w \in DOMAIN f : f[w] \in Bits32
      <3> HIDE DEF Get, range
      <3> QED BY <2>2, Zenon
    <2> HIDE DEF f
    <2>4. Image(f).words = f
      BY DEF Image
    <2> QED BY <2>1, <2>3, <2>4, Zenon
  <1> QED BY <1>1, <1>2

-----------------------------------------------------------------------------
Octet == 0..255

LEMMA OctetSeq ==
    ASSUME NEW bytes \in Seq(Octet)
    PROVE  /\ Len(bytes) \in Nat /\ Len(bytes) \in 0..Len(bytes)
           /\ \A k \in 1..Len(bytes) : bytes[k] \in Octet /\ bytes[k] \in Int
  <1>1. Len(bytes) \in Nat /\ \A k \in 1..Len(bytes) : bytes[k] \in Octet
    OBVIOUS
  <1>2. Octet \subseteq Int
    BY DEF Octet
  <1>3. Len(bytes) \in 0..Len(bytes)
    BY <1>1
  <1> QED BY <1>1, <1>2, <1>3, Zenon

LEMMA OctetSums ==
    /\ 0 \in Octet /\ 0 \in Nat
    /\ \A x, y \in Octet : (x + y) % 256 \in Octet
    /\ \A x \in Nat, y \in Octet : 256 * x + y \in Nat
    /\ \A x, y, z \in Octet : (x + z) % 256 = (y + z) % 256 => x = y
    /\ \A x, y, z \in Octet : (z + x) % 256 = (z + y) % 256 => x = y
  <1>1. 0 \in Octet /\ 0 \in Nat
    BY DEF Octet
  <1>2. ASSUME NEW x \in Octet, NEW y \in Octet
        PROVE  (x + y) % 256 \in Octet
    BY SMT DEF Octet
  <1>3. \A x \in Nat, y \in Octet : 256 * x + y \in Nat
    BY DEF Octet
  <1>4. ASSUME NEW x \in Octet, NEW y \in Octet, NEW z \in Octet
        PROVE  /\ (x + z) % 256 = (y + z) % 256 => x = y
               /\ (z + x) % 256 = (z + y) % 256 => x = y
    <2>1. x \in Int /\ y \in Int /\ z \in Int /\ x <= 255 /\ y <= 255 /\ z <= 255 /\ 0 <= x /\ 0 <= y /\ 0 <= z
      BY DEF Octet
    <2>2. (x + z) % 256 = x + z \/ (x + z) % 256 = x + z - 256
      BY <2>1
    <2>3. (y + z) % 256 = y + z \/ (y + z) % 256 = y + z - 256
      BY <2>1
    <2>4. z + x = x + z /\ z + y = y + z
      BY <2>1
    <2> QED BY <2>1, <2>2, <2>3, <2>4
  <1> QED BY <1>1, <1>2, <1>3, <1>4, SMTT(30)

(* Sums and numbers made of the bytes of a record.                           *)
SumsUp(v, bytes) ==
    v = [k \in 0..Len(bytes) |-> IF k = 0 THEN 0 ELSE (v[k - 1] + bytes[k]) % 256]

LEMMA Sum8Runs ==
    ASSUME NEW bytes \in Seq(Octet)
    PROVE  \E v \in [0..Len(bytes) -> Octet] :
             /\ Sum8(bytes) = v[Len(bytes)] /\ v[0] = 0
             /\ \A k \in 1..Len(bytes) : v[k] = (v[k - 1] + bytes[k]) % 256
  <1> DEFINE n == Len(bytes)
             step == [k \in 1..n |-> [x \in Octet |-> (x + bytes[k]) % 256]]
  <1>1. n \in Nat /\ n \in 0..n /\ \A k \in 1..n : bytes[k] \in Octet
    <2> HIDE DEF step
    <2> QED BY OctetSeq
  <1>2. step \in [1..n -> [Octet -> Octet]] /\ 0 \in Octet
    <2>1. \A k \in 1..n, x \in Octet : (x + bytes[k]) % 256 \in Octet 
      <3> TAKE k \in 1..n, x \in Octet
      <3> DEFINE b == bytes[k]
      <3>1. b \in Octet
        BY <1>1
      <3> HIDE DEF b
      <3>2. (x + b) % 256 \in Octet
        BY <3>1, OctetSums
      <3> QED BY <3>2 DEF b
    <2> HIDE DEF n
    <2> QED BY <2>1, OctetSums, SMT
  <1>3. PICK v \in [0..n -> Octet] : Solves(v, 0, step, n)
    <2> HIDE DEF n, step
    <2> QED BY <1>1, <1>2, Solution
  <1>4. \A k \in 1..n : v[k] = (v[k - 1] + bytes[k]) % 256
    <2> TAKE k \in 1..n
    <2>1. v[k] = step[k][v[k - 1]] /\ v[k - 1] \in Octet
      <3>1. k \in 0..n /\ k # 0 /\ k - 1 \in 0..n
        OBVIOUS
      <3> HIDE DEF step
      <3>2. v[k] = step[k][v[k - 1]]
        BY <1>1, <1>3, SolvesAt
      <3> QED BY <3>1, <3>2
    <2> QED BY <2>1
  <1>5. v[0] = 0
    BY <1>1, <1>3 DEF Solves
  <1>6. SumsUp(v, bytes)
    BY <1>4, <1>5 DEF SumsUp
  <1> DEFINE u == CHOOSE w : SumsUp(w, bytes)
  <1>7. SumsUp(u, bytes)
    BY <1>6
  <1>8. Sum8(bytes) = u[n]
    BY Zenon DEF Sum8, SumsUp
  <1> HIDE DEF u, step
  <1>9. \A k \in 0..n : u[k] = v[k]
    <2>1. u[0] = v[0]
      BY <1>1, <1>5, <1>7 DEF SumsUp
    <2>2. \A k \in 1..n : u[k] = (u[k - 1] + bytes[k]) % 256
      BY <1>1, <1>7 DEF SumsUp
    <2>3. ASSUME NEW k \in 1..n, u[k - 1] = v[k - 1] PROVE u[k] = v[k]
      <3>1. u[k] = (u[k - 1] + bytes[k]) % 256 /\ v[k] = (v[k - 1] + bytes[k]) % 256
        BY <1>4, <2>2
      <3> QED BY <2>3, <3>1
    <2> HIDE DEF n
    <2>4. InStep(n, u, v)
      BY <2>1, <2>3 DEF InStep
    <2>5. n \in Nat
      BY <1>1
    <2> QED BY <2>4, <2>5, Alike, Zenon
  <1> QED BY <1>1, <1>4, <1>5, <1>8, <1>9

Numbers(v, bytes) ==
    v = [k \in 0..Len(bytes) |-> IF k = 0 THEN 0 ELSE 256 * v[k - 1] + bytes[k]]

LEMMA BigEndianRuns ==
    ASSUME NEW bytes \in Seq(Octet)
    PROVE  \E v \in [0..Len(bytes) -> Nat] :
             /\ BigEndian(bytes) = v[Len(bytes)] /\ v[0] = 0
             /\ \A k \in 1..Len(bytes) : v[k] = 256 * v[k - 1] + bytes[k]
  <1> DEFINE n == Len(bytes)
             step == [k \in 1..n |-> [x \in Nat |-> 256 * x + bytes[k]]]
  <1>1. n \in Nat /\ n \in 0..n /\ \A k \in 1..n : bytes[k] \in Octet
    <2> HIDE DEF step
    <2> QED BY OctetSeq
  <1>2. step \in [1..n -> [Nat -> Nat]] /\ 0 \in Nat
    <2>1. \A k \in 1..n, x \in Nat : 256 * x + bytes[k] \in Nat 
      <3> TAKE k \in 1..n, x \in Nat
      <3> DEFINE b == bytes[k]
      <3>1. b \in Octet
        BY <1>1
      <3> HIDE DEF b
      <3>2. 256 * x + b \in Nat
        BY <3>1, OctetSums
      <3> QED BY <3>2 DEF b
    <2> HIDE DEF n
    <2> QED BY <2>1, OctetSums, SMT
  <1>3. PICK v \in [0..n -> Nat] : Solves(v, 0, step, n)
    <2> HIDE DEF n, step
    <2> QED BY <1>1, <1>2, Solution
  <1>4. \A k \in 1..n : v[k] = 256 * v[k - 1] + bytes[k]
    <2> TAKE k \in 1..n
    <2>1. v[k] = step[k][v[k - 1]] /\ v[k - 1] \in Nat
      <3>1. k \in 0..n /\ k # 0 /\ k - 1 \in 0..n
        OBVIOUS
      <3> HIDE DEF step
      <3>2. v[k] = step[k][v[k - 1]]
        BY <1>1, <1>3, SolvesAt
      <3> QED BY <3>1, <3>2
    <2> QED BY <2>1
  <1>5. v[0] = 0
    BY <1>1, <1>3 DEF Solves
  <1>6. Numbers(v, bytes)
    BY <1>4, <1>5 DEF Numbers
  <1> DEFINE u == CHOOSE w : Numbers(w, bytes)
  <1>7. Numbers(u, bytes)
    BY <1>6
  <1>8. BigEndian(bytes) = u[n]
    BY Zenon DEF BigEndian, Numbers
  <1> HIDE DEF u, step
  <1>9. \A k \in 0..n : u[k] = v[k]
    <2>1. u[0] = v[0]
      BY <1>1, <1>5, <1>7 DEF Numbers
    <2>2. \A k \in 1..n : u[k] = 256 * u[k - 1] + bytes[k]
      BY <1>1, <1>7 DEF Numbers
    <2>3. ASSUME NEW k \in 1..n, u[k - 1] = v[k - 1] PROVE u[k] = v[k]
      <3>1. u[k] = 256 * u[k - 1] + bytes[k] /\ v[k] = 256 * v[k - 1] + bytes[k]
        BY <1>4, <2>2
      <3> QED BY <2>3, <3>1
    <2> HIDE DEF n
    <2>4. InStep(n, u, v)
      BY <2>1, <2>3 DEF InStep
    <2>5. n \in Nat
      BY <1>1
    <2> QED BY <2>4, <2>5, Alike, Zenon
  <1> QED BY <1>1, <1>4, <1>5, <1>8, <1>9

LEMMA RecordNumbers ==
    ASSUME NEW bytes \in Seq(Octet)
    PROVE  /\ Sum8(bytes) \in Octet /\ BigEndian(bytes) \in Nat
           /\ Len(bytes) = 2 => BigEndian(bytes) = 256 * bytes[1] + bytes[2]
  <1> DEFINE n == Len(bytes)
  <1>1. n \in Nat /\ n \in 0..n
    OBVIOUS
  <1>2. Sum8(bytes) \in Octet
    <2>1. PICK v \in [0..n -> Octet] : Sum8(bytes) = v[n]
      BY Sum8Runs, Zenon
    <2> QED BY <1>1, <2>1
  <1>3. PICK v \in [0..n -> Nat] :
             /\ BigEndian(bytes) = v[n] /\ v[0] = 0
             /\ \A k \in 1..n : v[k] = 256 * v[k - 1] + bytes[k]
    BY BigEndianRuns
  <1>4. ASSUME n = 2
        PROVE  BigEndian(bytes) = 256 * bytes[1] + bytes[2]
    <2>1. 1 \in 1..n /\ 2 \in 1..n /\ bytes[1] \in Int /\ bytes[2] \in Int
      <3>1. 1 \in 1..n /\ 2 \in 1..n
        BY <1>4
      <3> QED BY <3>1, OctetSeq
    <2>2. v[1] = 256 * v[0] + bytes[1] /\ v[2] = 256 * v[1] + bytes[2]
      BY <1>3, <2>1
    <2> QED BY <1>3, <1>4, <2>1, <2>2
  <1> QED BY <1>1, <1>2, <1>3, <1>4

(* One byte changed changes the sum.                                         *)
LEMMA SumChanged ==
    ASSUME NEW x \in Seq(Octet), NEW y \in Seq(Octet), Len(x) = Len(y), NEW j \in 1..Len(x),
           x[j] # y[j], \A k \in 1..Len(x) : k # j => x[k] = y[k]
    PROVE  Sum8(x) # Sum8(y)
  <1> DEFINE n == Len(x)
  <1>1. n \in Nat /\ \A k \in 1..n : x[k] \in Octet /\ y[k] \in Octet
    OBVIOUS
  <1>2. PICK v \in [0..n -> Octet] :
             Sum8(x) = v[n] /\ v[0] = 0 /\ \A k \in 1..n : v[k] = (v[k - 1] + x[k]) % 256
    BY Sum8Runs
  <1>3. PICK w \in [0..n -> Octet] :
             Sum8(y) = w[n] /\ w[0] = 0 /\ \A k \in 1..n : w[k] = (w[k - 1] + y[k]) % 256
    BY Sum8Runs
  <1> HIDE DEF n
  <1> DEFINE X == {k \in Nat : k <= n => (v[k] = w[k] <=> k < j)}
  <1>4. 0 \in X
    BY <1>1, <1>2, <1>3 DEF n
  <1>5. ASSUME NEW k \in Nat, k \in X
        PROVE  k + 1 \in X
    <2> SUFFICES ASSUME k + 1 <= n PROVE v[k + 1] = w[k + 1] <=> k + 1 < j
      OBVIOUS
    <2> DEFINE a == v[k]
               b == w[k]
               c == x[k + 1]
               d == y[k + 1]
    <2>1. /\ a \in Octet /\ b \in Octet /\ c \in Octet /\ d \in Octet
          /\ v[k + 1] = (a + c) % 256 /\ w[k + 1] = (b + d) % 256
      <3>1. k + 1 \in 1..n /\ (k + 1) - 1 = k /\ k \in 0..n
        BY <1>1
      <3> QED BY <1>1, <1>2, <1>3, <3>1
    <2>2. (a = b <=> k < j) /\ (k + 1 # j => c = d) /\ (k + 1 = j => c # d)
      <3>1. k + 1 \in 1..n
        BY <1>1
      <3> QED BY <1>1, <1>5, <3>1 DEF n
    <2> HIDE DEF a, b, c, d
    <2>3. (a + c) % 256 = (b + d) % 256 <=> k + 1 < j
      <3>1. j \in Nat
        BY <1>1 DEF n
      <3>2. CASE k + 1 < j
        BY <2>1, <2>2, <3>1, <3>2
      <3>3. CASE k + 1 = j
        <4>1. a = b /\ c # d /\ ~(k + 1 < j)
          BY <2>2, <3>1, <3>3
        <4> QED BY <2>1, <4>1, OctetSums
      <3>4. CASE k + 1 > j
        <4>1. a # b /\ c = d /\ ~(k + 1 < j)
          BY <2>2, <3>1, <3>4
        <4> QED BY <2>1, <4>1, OctetSums
      <3> QED BY <3>1, <3>2, <3>3, <3>4
    <2> QED BY <2>1, <2>3
  <1> HIDE DEF X
  <1>6. Nat \subseteq X
    BY <1>4, <1>5, Counting
  <1>7. v[n] # w[n]
    <2>1. n \in X /\ n <= n /\ ~(n < j)
      BY <1>1, <1>6 DEF n
    <2> QED BY <2>1 DEF X
  <1> QED BY <1>2, <1>3, <1>7 DEF n

-----------------------------------------------------------------------------
(* The lines of the file, and which of them a parser refuses.                *)
HexLine == [kind : {"record", "junk", "blank"}, bytes : Seq(Octet)]

Bad(line) ==
    \/ line.kind = "junk"
    \/ line.kind = "record"
       /\ (Len(line.bytes) < 5 \/ Len(line.bytes) < 5 + line.bytes[1]
           \/ line.bytes[5 + line.bytes[1]] # calculate_checksum(SubSeq(line.bytes, 1, Len(line.bytes) - 1)))

(* What a record says before its checksum: the count, the address, the type   *)
(* and as many bytes as were counted.                                        *)
IsBody(x) == x \in Seq(Octet) /\ Len(x) >= 4 /\ x[1] = Len(x) - 4

Address(x) == 256 * x[2] + x[3]

LEMMA AddressIs ==
    ASSUME NEW x, IsBody(x)
    PROVE  Address(x) \in Int
  <1> DEFINE p == x[2]
             q == x[3]
  <1>1. p \in Octet /\ q \in Octet
    BY DEF IsBody
  <1> HIDE DEF p, q
  <1>2. 256 * p + q \in Int
    BY <1>1 DEF Octet
  <1> QED BY <1>2 DEF Address, p, q

LEMMA BadRefused ==
    ASSUME NEW l, NEW line, Bad(line)
    PROVE  Parsed(l, line) = [l EXCEPT !.state = Refused]
  <1>1. CASE line.kind = "junk"
    BY <1>1, SMT DEF Parsed
  <1>2. CASE line.kind = "record"
    <2> DEFINE b == line.bytes
               refused == [l EXCEPT !.state = Refused]
               p == process_record(l, b[4], 256 * b[2] + b[3], SubSeq(b, 5, 4 + b[1]))
               wrong == Len(b) < 5 \/ Len(b) < 5 + b[1] \/ b[5 + b[1]] # calculate_checksum(SubSeq(b, 1, Len(b) - 1))
    <2>1. Parsed(l, line) = IF wrong THEN refused ELSE p
      <3> HIDE DEF wrong, p, refused
      <3>1. Parsed(l, line) = CASE line.kind = "blank" -> l
                                [] line.kind = "junk" -> refused
                                [] line.kind = "record" -> IF wrong THEN refused ELSE p
        BY Zenon DEF Parsed, wrong, p, refused
      <3> QED BY <1>2, <3>1, SMT
    <2>2. line.kind # "junk"
      BY <1>2
    <2>3. wrong
      BY <1>2, <2>2, Zenon DEF Bad
    <2> HIDE DEF wrong, p, refused
    <2>4. Parsed(l, line) = refused
      BY <2>1, <2>3, Zenon
    <2> QED BY <2>4, Zenon DEF refused
  <1> QED BY <1>1, <1>2, Zenon DEF Bad

(* A record and its checksum.                                                *)
LEMMA SealedIs ==
    ASSUME NEW x, IsBody(x)
    PROVE  LET b == x \o <<calculate_checksum(x)>>
           IN /\ Sealed(x) = Record(b) /\ b \in Seq(Octet) /\ Len(b) = Len(x) + 1
              /\ \A k \in 1..Len(x) : b[k] = x[k]
              /\ b[Len(x) + 1] = calculate_checksum(x)
              /\ SubSeq(b, 1, Len(b) - 1) = x
              /\ Sealed(x) \in HexLine /\ calculate_checksum(x) \in Octet
  <1> DEFINE n == Len(x)
             c == calculate_checksum(x)
             z == <<c>>
             b == x \o z
  <1>1. x \in Seq(Octet) /\ n \in Nat /\ n >= 4
    BY OctetSeq, SMT DEF IsBody
  <1>2. c \in Octet
    <2>1. Sum8(x) \in Octet
      BY <1>1, RecordNumbers
    <2> QED BY <2>1 DEF calculate_checksum, Octet
  <1>3. Sealed(x) = Record(b)
    BY Zenon DEF Sealed, calculate_checksum
  <1> HIDE DEF c
  <1>4. z \in Seq(Octet) /\ Len(z) = 1 /\ z[1] = c
    BY <1>2
  <1> HIDE DEF z
  <1>5. /\ b \in Seq(Octet) /\ Len(b) = n + 1
        /\ \A k \in 1..(n + 1) : b[k] = IF k <= n THEN x[k] ELSE z[k - n]
    <2>1. /\ b \in Seq(Octet) /\ Len(b) = Len(x) + Len(z)
          /\ \A k \in 1..(Len(x) + Len(z)) : b[k] = IF k <= Len(x) THEN x[k] ELSE z[k - Len(x)]
      BY <1>1, <1>4, ConcatProperties, Zenon
    <2> HIDE DEF b
    <2> QED BY <1>4, <2>1
  <1> HIDE DEF b, n
  <1>6. \A k \in 1..n : b[k] = x[k]
    BY <1>1, <1>5
  <1>7. b[n + 1] = c
    <2>1. n + 1 \in 1..(n + 1) /\ ~(n + 1 <= n) /\ (n + 1) - n = 1
      BY <1>1
    <2> QED BY <1>4, <1>5, <2>1
  <1>8. SubSeq(b, 1, Len(b) - 1) = x
    <2> DEFINE s == SubSeq(b, 1, n)
    <2>1. Len(b) - 1 = n
      BY <1>1, <1>5
    <2>2. s \in Seq(Octet) /\ Len(s) = n /\ \A k \in 1..n : s[k] = b[k]
      <3>1. \A i \in 1..n : b[i] \in Octet
        BY <1>1, <1>6, OctetSeq DEF n
      <3>2. 1 \in Int /\ n \in Int /\ 1 <= n /\ n - 1 + 1 = n /\ \A k \in 1..n : 1 + k - 1 = k
        BY <1>1
      <3>3. s \in Seq(Octet) /\ Len(s) = n - 1 + 1 /\ \A k \in 1..(n - 1 + 1) : s[k] = b[1 + k - 1]
        BY <3>1, <3>2, SubSeqProperties
      <3> QED BY <3>2, <3>3, Zenon
    <2> HIDE DEF s
    <2>3. s = x
      BY <1>1, <1>6, <2>2, SeqEqual DEF n
    <2> QED BY <2>1, <2>3 DEF s
  <1>9. Sealed(x) \in HexLine
    BY <1>3, <1>5 DEF Record, HexLine
  <1> QED BY <1>2, <1>3, <1>5, <1>6, <1>7, <1>8, <1>9, Zenon DEF b, z, c, n

LEMMA RecordIs ==
    ASSUME NEW b
    PROVE  Record(b).kind = "record" /\ Record(b).bytes = b
  BY DEF Record

LEMMA SealedBytes ==
    ASSUME NEW x, IsBody(x)
    PROVE  LET b == Sealed(x).bytes
           IN /\ Sealed(x) = Record(b) /\ Sealed(x).kind = "record" /\ b \in Seq(Octet) /\ Len(b) = Len(x) + 1
              /\ \A k \in 1..Len(x) : b[k] = x[k]
              /\ b[Len(x) + 1] = calculate_checksum(x)
              /\ SubSeq(b, 1, Len(b) - 1) = x
  <1> DEFINE w == x \o <<calculate_checksum(x)>>
  <1>1. /\ Sealed(x) = Record(w) /\ w \in Seq(Octet) /\ Len(w) = Len(x) + 1
        /\ \A k \in 1..Len(x) : w[k] = x[k]
        /\ w[Len(x) + 1] = calculate_checksum(x) /\ SubSeq(w, 1, Len(w) - 1) = x
    BY SealedIs, Zenon
  <1> HIDE DEF w
  <1>2. Sealed(x).kind = "record" /\ Sealed(x).bytes = w
    BY <1>1, RecordIs, Zenon
  <1> QED BY <1>1, <1>2, Zenon

LEMMA SealedParsed ==
    ASSUME NEW x, IsBody(x), NEW l
    PROVE  \E data \in Seq(Octet) :
             /\ Len(data) = Len(x) - 4 /\ \A k \in 1..(Len(x) - 4) : data[k] = x[4 + k]
             /\ Parsed(l, Sealed(x)) = process_record(l, x[4], Address(x), data)
  <1> DEFINE n == Len(x)
             line == Sealed(x)
             b == line.bytes
             data == SubSeq(b, 5, 4 + b[1])
             wrong == Len(b) < 5 \/ Len(b) < 5 + b[1] \/ b[5 + b[1]] # calculate_checksum(SubSeq(b, 1, Len(b) - 1))
  <1>1. n \in Nat /\ n >= 4 /\ x[1] = n - 4
    BY OctetSeq, SMT DEF IsBody
  <1>2. /\ line.kind = "record" /\ b \in Seq(Octet) /\ Len(b) = n + 1 /\ \A k \in 1..n : b[k] = x[k]
        /\ b[n + 1] = calculate_checksum(x) /\ SubSeq(b, 1, Len(b) - 1) = x
    BY SealedBytes, Zenon
  <1> HIDE DEF line, n
  <1>3. b[1] = n - 4 /\ b[2] = x[2] /\ b[3] = x[3] /\ b[4] = x[4]
    BY <1>1, <1>2
  <1> HIDE DEF b
  <1>4. 5 + b[1] = n + 1 /\ 4 + b[1] = n /\ ~(n + 1 < 5) /\ ~(n + 1 < n + 1)
    BY <1>1, <1>3
  <1>5. ~wrong
    BY <1>2, <1>4, Zenon
  <1>6. data \in Seq(Octet) /\ Len(data) = n - 4 /\ \A k \in 1..(n - 4) : data[k] = x[4 + k]
    <2> DEFINE s == SubSeq(b, 5, n)
    <2>1. s \in Seq(Octet) /\ Len(s) = n - 4 /\ \A k \in 1..(n - 4) : s[k] = b[4 + k]
      <3>1. \A i \in 5..n : b[i] \in Octet
        <4>1. \A i \in 1..(n + 1) : b[i] \in Octet
          BY <1>2, OctetSeq
        <4> QED BY <1>1, <4>1
      <3>2. 5 \in Int /\ n \in Int
        BY <1>1
      <3>3. s \in Seq(Octet) /\ Len(s) = (IF 5 <= n THEN n - 5 + 1 ELSE 0) /\ \A k \in 1..(n - 5 + 1) : s[k] = b[5 + k - 1]
        BY <3>1, <3>2, SubSeqProperties
      <3>4. n - 5 + 1 = n - 4 /\ (~(5 <= n) => n - 4 = 0) /\ \A k \in 1..(n - 4) : 5 + k - 1 = 4 + k
        BY <1>1
      <3> HIDE DEF s
      <3> QED BY <3>3, <3>4, Zenon
    <2>2. \A k \in 1..(n - 4) : 4 + k \in 1..n
      BY <1>1
    <2> HIDE DEF s
    <2>3. data = s
      BY <1>4, Zenon DEF s
    <2> QED BY <1>2, <2>1, <2>2, <2>3, Zenon
  <1>7. Parsed(l, line) = process_record(l, b[4], 256 * b[2] + b[3], data)
    <2> DEFINE p == process_record(l, b[4], 256 * b[2] + b[3], data)
               refused == [l EXCEPT !.state = Refused]
    <2> HIDE DEF wrong, p, refused
    <2>1. Parsed(l, line) = CASE line.kind = "blank" -> l
                              [] line.kind = "junk" -> refused
                              [] line.kind = "record" -> IF wrong THEN refused ELSE p
      BY Zenon DEF Parsed, wrong, p, refused, b
    <2>2. Parsed(l, line) = p
      BY <1>2, <1>5, <2>1, SMT
    <2> QED BY <2>2, Zenon DEF p
  <1> HIDE DEF data
  <1>8. Parsed(l, line) = process_record(l, x[4], Address(x), data)
    BY <1>3, <1>7, SMT DEF Address
  <1> QED BY <1>6, <1>8, Zenon DEF n, line

LEMMA WrapsToOctet ==
    ASSUME NEW w \in Int
    PROVE  w % 256 \in Octet
  BY DEF Octet

LEMMA RecordChanged ==
    ASSUME NEW a, NEW b
    PROVE  [Record(a) EXCEPT !.bytes = b] = Record(b)
  BY SMT DEF Record

LEMMA RecordIsLine ==
    ASSUME NEW b \in Seq(Octet)
    PROVE  Record(b) \in HexLine
  BY SMT DEF Record, HexLine

LEMMA FrontIs ==
    ASSUME NEW b \in Seq(Octet), NEW n \in Nat, 1 <= n, n <= Len(b)
    PROVE  SubSeq(b, 1, n) \in Seq(Octet) /\ Len(SubSeq(b, 1, n)) = n /\ \A j \in 1..n : SubSeq(b, 1, n)[j] = b[j]
  <1> DEFINE s == SubSeq(b, 1, n)
  <1>1. \A i \in 1..n : b[i] \in Octet
    <2>1. \A i \in 1..Len(b) : b[i] \in Octet
      BY OctetSeq
    <2>2. Len(b) \in Nat
      BY OctetSeq
    <2> QED BY <2>1, <2>2
  <1>2. 1 \in Int /\ n \in Int /\ 1 <= n /\ n - 1 + 1 = n /\ \A j \in 1..n : 1 + j - 1 = j
    OBVIOUS
  <1>3. s \in Seq(Octet) /\ Len(s) = n - 1 + 1 /\ \A j \in 1..(n - 1 + 1) : s[j] = b[1 + j - 1]
    BY <1>1, <1>2, SubSeqProperties
  <1> HIDE DEF s
  <1>4. s \in Seq(Octet) /\ Len(s) = n /\ \A j \in 1..n : s[j] = b[j]
    BY <1>2, <1>3, Zenon
  <1> QED BY <1>4 DEF s

LEMMA ChecksumsDiffer ==
    ASSUME NEW x, NEW y, Sum8(x) \in Octet, Sum8(y) \in Octet, Sum8(x) # Sum8(y)
    PROVE  calculate_checksum(x) # calculate_checksum(y)
  <1> DEFINE p == Sum8(x)
             q == Sum8(y)
  <1>1. p \in 0..255 /\ q \in 0..255 /\ p # q
    BY DEF Octet
  <1> HIDE DEF p, q
  <1>2. (256 - p) % 256 = (IF p = 0 THEN 0 ELSE 256 - p) /\ (256 - q) % 256 = (IF q = 0 THEN 0 ELSE 256 - q)
    BY <1>1
  <1>3. (256 - p) % 256 # (256 - q) % 256
    BY <1>1, <1>2
  <1> QED BY <1>3, Zenon DEF calculate_checksum, p, q

(* A spoilt byte, the count apart, is noticed; so is a record cut short.     *)
LEMMA SealedSpoilt ==
    ASSUME NEW x, IsBody(x), NEW k \in 2..(Len(x) + 1), NEW c \in Int,
           NEW line, line = [Sealed(x) EXCEPT !.bytes[k] = (@ + c) % 256]
    PROVE  line \in HexLine /\ (line = Sealed(x) \/ Bad(line))
  <1> DEFINE n == Len(x)
             s == Sealed(x)
             a == s.bytes
             v == (a[k] + c) % 256
             b == [a EXCEPT ![k] = v]
  <1>1. n \in Nat /\ n >= 4 /\ x[1] = n - 4 /\ x \in Seq(Octet)
    BY OctetSeq, SMT DEF IsBody
  <1>2. /\ s = Record(a) /\ a \in Seq(Octet) /\ Len(a) = n + 1 /\ \A j \in 1..n : a[j] = x[j]
        /\ a[n + 1] = calculate_checksum(x) /\ SubSeq(a, 1, Len(a) - 1) = x
    BY SealedBytes, Zenon
  <1>3. line = Record(b)
    <2>1. line = [s EXCEPT !.bytes = b]
      BY SMT
    <2> HIDE DEF a, b, s
    <2> QED BY <1>2, <2>1, RecordChanged, Zenon
  <1>4. v \in Octet /\ a[k] \in Octet
    <2>1. k \in 1..(n + 1)
      BY <1>1
    <2>2. a[k] \in Octet /\ a[k] \in Int
      BY <1>2, <2>1, OctetSeq
    <2> DEFINE w == a[k] + c
    <2>3. w \in Int
      <3> HIDE DEF a
      <3> QED BY <2>2
    <2> HIDE DEF a, w
    <2>4. w % 256 \in Octet
      BY <2>3, WrapsToOctet, Zenon
    <2> QED BY <2>2, <2>4 DEF w
  <1> HIDE DEF n, s, a, v
  <1>5. /\ b \in Seq(Octet) /\ Len(b) = n + 1 /\ b[k] = v
        /\ \A j \in 1..(n + 1) : j # k => b[j] = a[j]
    <2>1. k \in 1..(n + 1)
      BY <1>1 DEF n
    <2> QED BY <1>1, <1>2, <1>4, <2>1
  <1>6. line \in HexLine
    <2> HIDE DEF b
    <2> QED BY <1>3, <1>5, RecordIsLine, Zenon
  <1>7. CASE v = a[k]
    <2>1. b = a
      BY <1>2, <1>7
    <2> QED BY <1>2, <1>3, <1>6, <2>1 DEF s
  <1>8. CASE v # a[k]
    <2> HIDE DEF b
    <2> DEFINE y == SubSeq(b, 1, n)
    <2>1. /\ k \in 2..(n + 1) /\ 1 \in 1..(n + 1) /\ b[1] = n - 4 /\ 5 + b[1] = n + 1 /\ Len(b) - 1 = n
      <3>1. k \in 2..(n + 1) /\ 1 \in 1..(n + 1) /\ 1 # k /\ 1 \in 1..n
        BY <1>1 DEF n
      <3>2. b[1] = x[1] /\ x[1] = n - 4
        BY <1>1, <1>2, <1>5, <3>1
      <3> QED BY <1>1, <1>5, <3>1, <3>2
    <2>2. y \in Seq(Octet) /\ Len(y) = n /\ \A j \in 1..n : y[j] = b[j]
      <3>1. 1 <= n /\ n <= Len(b) /\ n \in Nat
        BY <1>1, <1>5 DEF n
      <3> HIDE DEF n
      <3> QED BY <1>5, <3>1, FrontIs, Zenon
    <2>3. b[n + 1] # calculate_checksum(y)
      <3> HIDE DEF y
      <3>1. CASE k = n + 1
        <4>1. \A j \in 1..n : y[j] = x[j]
          BY <1>1, <1>2, <1>5, <2>2, <3>1
        <4>2. y = x
          BY <1>1, <2>2, <4>1, SeqEqual DEF n
        <4> QED BY <1>2, <1>5, <1>8, <3>1, <4>2, Zenon
      <3>2. CASE k # n + 1
        <4>1. k \in 1..n /\ n + 1 # k /\ n + 1 \in 1..(n + 1)
          BY <1>1, <2>1, <3>2
        <4>2. x[k] # y[k] /\ \A j \in 1..n : j # k => x[j] = y[j]
          <5>1. \A j \in 1..n : j \in 1..(n + 1)
            BY <1>1
          <5> QED BY <1>2, <1>5, <1>8, <2>2, <4>1, <5>1, Zenon
        <4>3. Sum8(x) # Sum8(y)
          BY <1>1, <2>2, <4>1, <4>2, SumChanged, Zenon DEF n
        <4>4. Sum8(x) \in Octet /\ Sum8(y) \in Octet
          BY <1>1, <2>2, RecordNumbers, Zenon
        <4>5. calculate_checksum(x) # calculate_checksum(y)
          BY <4>3, <4>4, ChecksumsDiffer, Zenon
        <4>6. b[n + 1] = a[n + 1]
          BY <1>5, <4>1, Zenon
        <4> QED BY <1>2, <4>5, <4>6, Zenon
      <3> QED BY <3>1, <3>2
    <2>4. Bad(line)
      <3>1. line.kind = "record" /\ line.bytes = b
        BY <1>3, RecordIs, Zenon
      <3> HIDE DEF y
      <3>2. b[5 + b[1]] # calculate_checksum(SubSeq(b, 1, Len(b) - 1))
        BY <2>1, <2>3, Zenon DEF y
      <3> QED BY <3>1, <3>2, Zenon DEF Bad
    <2> QED BY <1>6, <2>4
  <1> QED BY <1>7, <1>8

LEMMA SealedCut ==
    ASSUME NEW x, IsBody(x)
    PROVE  LET line == Record(SubSeq(Sealed(x).bytes, 1, Len(Sealed(x).bytes) - 1))
           IN line \in HexLine /\ Bad(line)
  <1> DEFINE line == Record(SubSeq(Sealed(x).bytes, 1, Len(Sealed(x).bytes) - 1))
  <1>1. line = Record(x)
    BY SealedBytes, Zenon
  <1>2. x \in Seq(Octet) /\ Len(x) \in Nat /\ Len(x) < 5 + x[1]
    <2>1. x \in Seq(Octet) /\ x[1] = Len(x) - 4
      BY DEF IsBody
    <2>2. Len(x) \in Nat
      BY <2>1, OctetSeq
    <2>3. Len(x) < 5 + (Len(x) - 4)
      BY <2>2
    <2> QED BY <2>1, <2>2, <2>3
  <1>3. Record(x).kind = "record" /\ Record(x).bytes = x /\ Record(x) \in HexLine
    BY <1>2 DEF Record, HexLine
  <1>4. Bad(Record(x))
    BY <1>2, <1>3, Zenon DEF Bad
  <1> QED BY <1>1, <1>3, <1>4, Zenon

-----------------------------------------------------------------------------
(* The lines objcopy writes, and the bytes a data line of them stands for.   *)
ExtBody     == <<2, 0, 0, 4, OffsetUpper \div 256, OffsetUpper % 256>>
EndBody     == <<0, 0, 0, 1>>
Begin(n)     == (n - 1) * ChunkBytes
Upto(n)     == IF Begin(n) + ChunkBytes < Len(Bytes) THEN Begin(n) + ChunkBytes ELSE Len(Bytes)
DataHead(n) == <<Upto(n) - Begin(n), Begin(n) \div 256, Begin(n) % 256, 0>>
DataBody(n) == DataHead(n) \o SubSeq(Bytes, Begin(n) + 1, Upto(n))

ExtLine   == Sealed(ExtBody)
EndLine   == Sealed(EndBody)
GoodLines == {ExtLine, Blank, EndLine} \cup {DataLine(n) : n \in 1..Chunks}
BadLines  == {line \in HexLine : Bad(line)}

LEMMA Division ==
    ASSUME NEW a \in Nat, NEW c \in Nat, 1 <= c
    PROVE  a \div c \in Nat /\ c * (a \div c) <= a /\ a < c * (a \div c) + c
  OBVIOUS

LEMMA Products ==
    ASSUME NEW c \in Nat, NEW k \in Nat, NEW m \in Nat
    PROVE  /\ c * k \in Nat /\ (k <= m => c * k <= c * m) /\ (k < m => c * k + c <= c * m)
           /\ c * (k + 1) = c * k + c
  OBVIOUS

LEMMA BytesOctets ==
    ASSUME WordsOK
    PROVE  Bytes \in Seq(Octet) /\ Len(Bytes) \in Nat /\ Len(Bytes) <= 16384
  <1>1. Bytes \in Seq(Octet) /\ Len(Bytes) = 4 * Len(words)
    BY BytesTyped, Zenon DEF Octet
  <1>2. Len(words) \in Nat /\ Len(words) <= 4096
    BY DEF WordsOK
  <1> QED BY <1>1, <1>2

LEMMA ChunkSpan ==
    ASSUME WordsOK, NEW n \in 1..Chunks
    PROVE  /\ Begin(n) \in Nat /\ Upto(n) \in Nat /\ Begin(n) < Upto(n) /\ Upto(n) <= Len(Bytes)
           /\ Upto(n) - Begin(n) <= 255 /\ Begin(n) <= 16384
  <1> DEFINE L == Len(Bytes)
             c == ChunkBytes
             q == (L + c - 1) \div c
             k == n - 1
             f == c * k
  <1>1. L \in Nat /\ L <= 16384 /\ c \in Nat /\ 1 <= c /\ c <= 255
    BY BytesOctets, ImageAssumption
  <1>2. n \in 1..q
    BY Zenon DEF Chunks
  <1> HIDE DEF L, c
  <1>3. q \in Nat /\ c * q <= L + c - 1
    <2>1. L + c - 1 \in Nat
      BY <1>1
    <2> QED BY <1>1, <2>1, Division
  <1> HIDE DEF q
  <1>4. k \in Nat /\ k < q
    BY <1>2, <1>3
  <1> HIDE DEF k
  <1>5. f \in Nat /\ f + c <= L + c - 1
    <2>1. f \in Nat /\ f + c <= c * q
      BY <1>1, <1>3, <1>4, Products
    <2> HIDE DEF f
    <2> DEFINE r == c * q
    <2>2. r \in Nat
      BY <1>1, <1>3, Products
    <2>3. f + c <= r /\ r <= L + c - 1
      BY <1>3, <2>1, Zenon
    <2> HIDE DEF r
    <2> QED BY <1>1, <2>1, <2>2, <2>3
  <1>6. Begin(n) = f
    BY <1>1, <1>4 DEF Begin, k, c
  <1> HIDE DEF f
  <1>7. f \in Nat /\ f < L
    BY <1>1, <1>5
  <1>8. Upto(n) = IF f + c < L THEN f + c ELSE L
    BY <1>6, Zenon DEF Upto, c, L
  <1>9. Upto(n) \in Nat /\ f < Upto(n) /\ Upto(n) <= L /\ Upto(n) - f <= 255 /\ f <= 16384
    BY <1>1, <1>7, <1>8
  <1> QED BY <1>6, <1>7, <1>9, SMT DEF L

LEMMA ChunksCover ==
    ASSUME WordsOK, NEW a \in 0..(Len(Bytes) - 1)
    PROVE  \E n \in 1..Chunks : a \in Begin(n)..(Upto(n) - 1)
  <1> DEFINE L == Len(Bytes)
             c == ChunkBytes
             q == (L + c - 1) \div c
             k == a \div c
             f == c * k
             r == c * q
             n == k + 1
  <1>1. L \in Nat /\ c \in Nat /\ 1 <= c
    BY BytesOctets, ImageAssumption
  <1>2. a \in Nat /\ a < L
    BY <1>1
  <1>3. Chunks = q
    BY Zenon DEF Chunks
  <1> HIDE DEF L, c
  <1>4. q \in Nat /\ L + c - 1 < r + c
    <2>1. L + c - 1 \in Nat
      BY <1>1
    <2> QED BY <1>1, <2>1, Division
  <1>5. k \in Nat /\ f <= a /\ a < f + c
    BY <1>1, <1>2, Division
  <1> HIDE DEF q, k
  <1>6. f \in Nat /\ r \in Nat /\ (q <= k => r <= f)
    BY <1>1, <1>4, <1>5, Products, Zenon
  <1> HIDE DEF f, r
  <1>7. k < q
    BY <1>1, <1>2, <1>4, <1>5, <1>6
  <1>8. n \in 1..Chunks
    BY <1>3, <1>4, <1>5, <1>7
  <1>9. Begin(n) = f
    <2>1. n - 1 = k
      BY <1>5
    <2>2. Begin(n) = k * c
      BY <2>1, Zenon DEF Begin, c
    <2> QED BY <1>1, <1>5, <2>2 DEF f
  <1>10. Upto(n) = IF f + c < L THEN f + c ELSE L
    BY <1>9, Zenon DEF Upto, c, L
  <1> HIDE DEF n
  <1>11. a \in f..(Upto(n) - 1)
    BY <1>1, <1>2, <1>5, <1>6, <1>10
  <1> QED BY <1>8, <1>9, <1>11

(* The good lines are records whose bodies the code fills like this.         *)
LEMMA SliceIs ==
    ASSUME NEW b \in Seq(Octet), NEW m \in Nat, NEW n \in Nat, 1 <= m, m <= n + 1, n <= Len(b)
    PROVE  /\ SubSeq(b, m, n) \in Seq(Octet) /\ Len(SubSeq(b, m, n)) = n - m + 1
           /\ \A j \in 1..(n - m + 1) : SubSeq(b, m, n)[j] = b[m + j - 1]
  <1> DEFINE s == SubSeq(b, m, n)
  <1>1. \A i \in m..n : b[i] \in Octet
    <2>1. \A i \in 1..Len(b) : b[i] \in Octet
      BY OctetSeq
    <2>2. Len(b) \in Nat
      BY OctetSeq
    <2> QED BY <2>1, <2>2
  <1>2. m \in Int /\ n \in Int /\ (IF m <= n THEN n - m + 1 ELSE 0) = n - m + 1
    OBVIOUS
  <1>3. /\ s \in Seq(Octet) /\ Len(s) = (IF m <= n THEN n - m + 1 ELSE 0)
        /\ \A j \in 1..(n - m + 1) : s[j] = b[m + j - 1]
    BY <1>1, <1>2, SubSeqProperties
  <1> HIDE DEF s
  <1>4. s \in Seq(Octet) /\ Len(s) = n - m + 1 /\ \A j \in 1..(n - m + 1) : s[j] = b[m + j - 1]
    BY <1>2, <1>3, Zenon
  <1> QED BY <1>4 DEF s

LEMMA ExtIsBody ==
    IsBody(ExtBody) /\ Len(ExtBody) = 6 /\ ExtBody[4] = 4
    /\ 256 * ExtBody[5] + ExtBody[6] = OffsetUpper
  <1> DEFINE p == OffsetUpper \div 256
             q == OffsetUpper % 256
  <1>1. p \in Octet /\ q \in Octet /\ 256 * p + q = OffsetUpper
    BY LoaderAssumption, SMTT(30) DEF Octet
  <1>2. 0 \in Octet /\ 2 \in Octet /\ 4 \in Octet
    BY DEF Octet
  <1>3. ExtBody = <<2, 0, 0, 4, p, q>>
    BY Zenon DEF ExtBody
  <1> HIDE DEF p, q
  <1>4. ExtBody \in Seq(Octet) /\ Len(ExtBody) = 6
    BY <1>1, <1>2, <1>3
  <1>5. ExtBody[1] = 2 /\ ExtBody[4] = 4 /\ ExtBody[5] = p /\ ExtBody[6] = q
    BY <1>3
  <1> QED BY <1>1, <1>4, <1>5, SMTT(30) DEF IsBody

LEMMA EndIsBody ==
    IsBody(EndBody) /\ Len(EndBody) = 4 /\ EndBody[4] = 1
  <1>1. 0 \in Octet /\ 1 \in Octet
    BY DEF Octet
  <1>2. EndBody \in Seq(Octet) /\ Len(EndBody) = 4 /\ EndBody[1] = 0 /\ EndBody[4] = 1
    BY <1>1 DEF EndBody
  <1> QED BY <1>2 DEF IsBody

LEMMA DataIsBody ==
    ASSUME WordsOK, NEW n \in 1..Chunks
    PROVE  /\ DataLine(n) = Sealed(DataBody(n)) /\ IsBody(DataBody(n))
           /\ Len(DataBody(n)) = 4 + (Upto(n) - Begin(n)) /\ DataBody(n)[4] = 0
           /\ 256 * DataBody(n)[2] + DataBody(n)[3] = Begin(n)
           /\ \A k \in 1..(Upto(n) - Begin(n)) : DataBody(n)[4 + k] = Bytes[Begin(n) + k]
  <1> DEFINE f == Begin(n)
             u == Upto(n)
             d == u - f
             p == f \div 256
             q == f % 256
             head == DataHead(n)
             data == SubSeq(Bytes, f + 1, u)
             x == DataBody(n)
  <1>1. f \in Nat /\ u \in Nat /\ f < u /\ u <= Len(Bytes) /\ u - f <= 255 /\ f <= 16384
    BY ChunkSpan
  <1>2. DataLine(n) = Sealed(x)
    BY Zenon DEF DataLine, DataBody, DataHead, Upto, Begin
  <1>3. head = <<d, p, q, 0>> /\ x = head \o data
    BY Zenon DEF DataBody, DataHead
  <1> HIDE DEF f, u, x, head
  <1>4. d \in Octet /\ p \in Octet /\ q \in Octet /\ 0 \in Octet /\ 256 * p + q = f
    BY <1>1 DEF Octet
  <1>5. d \in Nat /\ 1 <= f + 1 /\ f + 1 <= u + 1 /\ u - (f + 1) + 1 = d /\ f + 1 \in Nat
        /\ \A k \in 1..d : (f + 1) + k - 1 = f + k
    BY <1>1
  <1> HIDE DEF d, p, q
  <1>6. data \in Seq(Octet) /\ Len(data) = d /\ \A k \in 1..d : data[k] = Bytes[f + k]
    <2>1. /\ data \in Seq(Octet) /\ Len(data) = u - (f + 1) + 1
          /\ \A k \in 1..(u - (f + 1) + 1) : data[k] = Bytes[(f + 1) + k - 1]
      <3>1. u \in Nat /\ u <= Len(Bytes)
        BY <1>1
      <3>2. Bytes \in Seq(Octet)
        BY BytesOctets
      <3> QED BY <1>5, <3>1, <3>2, SliceIs, Zenon
    <2> HIDE DEF data
    <2> QED BY <1>5, <2>1, Zenon
  <1> HIDE DEF data
  <1>7. head \in Seq(Octet) /\ Len(head) = 4 /\ head[1] = d /\ head[2] = p /\ head[3] = q /\ head[4] = 0
    BY <1>3, <1>4
  <1>8. /\ x \in Seq(Octet) /\ Len(x) = 4 + d
        /\ \A k \in 1..(4 + d) : x[k] = IF k <= 4 THEN head[k] ELSE data[k - 4]
    <2>1. /\ x \in Seq(Octet) /\ Len(x) = Len(head) + Len(data)
          /\ \A k \in 1..(Len(head) + Len(data)) : x[k] = IF k <= Len(head) THEN head[k] ELSE data[k - Len(head)]
      <3> DEFINE y == head \o data
      <3>1. head \in Seq(Octet) /\ data \in Seq(Octet)
        BY <1>6, <1>7
      <3>2. /\ y \in Seq(Octet) /\ Len(y) = Len(head) + Len(data)
            /\ \A k \in 1..(Len(head) + Len(data)) : y[k] = IF k <= Len(head) THEN head[k] ELSE data[k - Len(head)]
        BY <3>1, ConcatProperties, Zenon
      <3>3. x = y
        BY <1>3
      <3> HIDE DEF y
      <3> QED BY <3>2, <3>3, Zenon
    <2> QED BY <1>6, <1>7, <2>1
  <1>9. x[1] = d /\ x[2] = p /\ x[3] = q /\ x[4] = 0 /\ \A k \in 1..d : x[4 + k] = data[k]
    <2>1. /\ 1 \in 1..(4 + d) /\ 2 \in 1..(4 + d) /\ 3 \in 1..(4 + d) /\ 4 \in 1..(4 + d)
          /\ \A k \in 1..d : 4 + k \in 1..(4 + d) /\ ~(4 + k <= 4) /\ 4 + k - 4 = k
      BY <1>5
    <2>2. \A k \in 1..d : x[4 + k] = data[4 + k - 4]
      BY <1>8, <2>1
    <2> QED BY <1>7, <1>8, <2>1, <2>2
  <1>10. IsBody(x)
    <2>1. Len(x) >= 4 /\ x[1] = Len(x) - 4
      BY <1>5, <1>8, <1>9
    <2> QED BY <1>8, <2>1 DEF IsBody
  <1>11. \A k \in 1..d : x[4 + k] = Bytes[f + k]
    BY <1>6, <1>9, Zenon
  <1>12. 256 * x[2] + x[3] = f
    BY <1>4, <1>9
  <1> QED BY <1>2, <1>8, <1>9, <1>10, <1>11, <1>12, SMT DEF d, f, u, x

(* Every one of them is a line of bytes, and only the last ends the file.    *)
LEMMA GoodIsLine ==
    ASSUME WordsOK
    PROVE  /\ GoodLines \subseteq HexLine /\ BadLines \subseteq HexLine
           /\ ExtLine # EndLine /\ Blank # EndLine /\ \A n \in 1..Chunks : DataLine(n) # EndLine
           /\ EndLine.kind = "record"
  <1>1. ASSUME NEW x, IsBody(x), x[4] # 1
        PROVE  Sealed(x) \in HexLine /\ Sealed(x) # EndLine
    <2>1. Sealed(x) \in HexLine
      BY <1>1, SealedIs, Zenon
    <2>2. Sealed(x).bytes[4] = x[4]
      <3>1. 4 \in 1..Len(x)
        <4>1. Len(x) \in Nat /\ Len(x) >= 4
          BY <1>1, OctetSeq DEF IsBody
        <4> QED BY <4>1
      <3> QED BY <1>1, <3>1, SealedBytes, Zenon
    <2>3. Sealed(EndBody).bytes[4] = 1
      <3>1. 4 \in 1..Len(EndBody)
        BY EndIsBody
      <3> QED BY EndIsBody, <3>1, SealedBytes, Zenon
    <2> QED BY <1>1, <2>1, <2>2, <2>3, Zenon DEF EndLine
  <1>2. ExtLine \in HexLine /\ ExtLine # EndLine
    <2>1. ExtBody[4] # 1
      BY ExtIsBody
    <2> QED BY <1>1, <2>1, ExtIsBody, Zenon DEF ExtLine
  <1>3. \A n \in 1..Chunks : DataLine(n) \in HexLine /\ DataLine(n) # EndLine
    <2>1. \A n \in 1..Chunks : DataBody(n)[4] # 1
      <3>1. 0 # 1
        OBVIOUS
      <3> QED BY <3>1, DataIsBody, Zenon
    <2>2. \A n \in 1..Chunks : DataLine(n) = Sealed(DataBody(n)) /\ IsBody(DataBody(n))
      BY DataIsBody, Zenon
    <2> QED BY <1>1, <2>1, <2>2, Zenon
  <1>4. EndLine \in HexLine /\ EndLine.kind = "record"
    BY EndIsBody, SealedIs, SealedBytes, Zenon DEF EndLine
  <1>5. Blank \in HexLine /\ Blank.kind = "blank"
    BY DEF Blank, HexLine
  <1>6. Blank # EndLine
    <2>1. "blank" # "record"
      OBVIOUS
    <2> QED BY <1>4, <1>5, <2>1, Zenon
  <1> QED BY <1>2, <1>3, <1>4, <1>5, <1>6, Zenon DEF GoodLines, BadLines

-----------------------------------------------------------------------------
(* What parsing has made of the lines so far.                                *)
Translated == UNION {[D -> Octet] : D \in SUBSET Int}
Loaders    == [memory : Translated, extended : Int, state : {"parsing", "parsed", Refused}]

LEMMA TranslatedIs ==
    ASSUME NEW D \in SUBSET Int, NEW m \in [D -> Octet]
    PROVE  m \in Translated
  BY Zenon DEF Translated

LEMMA OfTranslated ==
    ASSUME NEW m \in Translated
    PROVE  DOMAIN m \subseteq Int /\ \A a \in DOMAIN m : m[a] \in Octet /\ m[a] \in Int
  <1>1. PICK D \in SUBSET Int : m \in [D -> Octet]
    BY Zenon DEF Translated
  <1>2. \A a \in D : m[a] \in Octet
    BY <1>1
  <1>3. Octet \subseteq Int
    BY DEF Octet
  <1> QED BY <1>1, <1>2, <1>3

LEMMA Overlaid ==
    ASSUME NEW g \in Translated, NEW m \in Translated
    PROVE  /\ Overlay(g, m) \in Translated /\ DOMAIN Overlay(g, m) = DOMAIN g \cup DOMAIN m
           /\ \A a \in DOMAIN g : Overlay(g, m)[a] = g[a]
           /\ \A a \in DOMAIN m \ DOMAIN g : Overlay(g, m)[a] = m[a]
  <1> DEFINE D == DOMAIN g \cup DOMAIN m
             o == [a \in D |-> IF a \in DOMAIN g THEN g[a] ELSE m[a]]
  <1>1. Overlay(g, m) = o
    BY Zenon DEF Overlay
  <1>2. D \in SUBSET Int /\ (\A a \in DOMAIN g : g[a] \in Octet) /\ (\A a \in DOMAIN m : m[a] \in Octet)
    BY OfTranslated
  <1>3. o \in [D -> Octet]
    BY <1>2
  <1>4. o \in Translated
    <2> HIDE DEF o, D
    <2> QED BY <1>2, <1>3, TranslatedIs
  <1> QED BY <1>1, <1>4

LEMMA LoaderChanged ==
    ASSUME NEW l \in Loaders
    PROVE  /\ l.memory \in Translated /\ l.extended \in Int /\ l.state \in {"parsing", "parsed", Refused}
           /\ \A s \in {"parsing", "parsed", Refused} :
                LET k == [l EXCEPT !.state = s]
                IN k \in Loaders /\ k.memory = l.memory /\ k.extended = l.extended /\ k.state = s
           /\ \A e \in Int :
                LET k == [l EXCEPT !.extended = e]
                IN k \in Loaders /\ k.memory = l.memory /\ k.extended = e /\ k.state = l.state
           /\ \A m \in Translated :
                LET k == [l EXCEPT !.memory = m]
                IN k \in Loaders /\ k.memory = m /\ k.extended = l.extended /\ k.state = l.state
  BY DEF Loaders

LEMMA FreshIsLoader ==
    Fresh \in Loaders /\ Fresh.memory \in Translated /\ DOMAIN Fresh.memory = {} /\ Fresh.extended = 0 /\ Fresh.state = "parsing"
  <1> DEFINE e == [a \in {} |-> 0]
  <1>1. e \in [{} -> Octet] /\ DOMAIN e = {}
    OBVIOUS
  <1>2. Fresh = [memory |-> e, extended |-> 0, state |-> "parsing"]
    BY DEF Fresh
  <1> HIDE DEF e
  <1>3. e \in Translated
    BY <1>1, TranslatedIs
  <1> QED BY <1>1, <1>2, <1>3 DEF Loaders

(* Data bytes, placed in memory.                                             *)
Placed(first, data) == [a \in first..(first + Len(data) - 1) |-> data[a - first + 1]]

LEMMA PlacedIs ==
    ASSUME NEW first \in Int, NEW data \in Seq(Octet)
    PROVE  Placed(first, data) \in Translated /\ DOMAIN Placed(first, data) = first..(first + Len(data) - 1)
  <1> DEFINE n == Len(data)
             D == first..(first + n - 1)
             p == [a \in D |-> data[a - first + 1]]
  <1>1. n \in Nat /\ \A k \in 1..n : data[k] \in Octet
    BY OctetSeq
  <1> HIDE DEF n
  <1>2. \A a \in D : a - first + 1 \in 1..n
    BY <1>1
  <1>3. p \in [D -> Octet] /\ D \in SUBSET Int
    BY <1>1, <1>2
  <1>4. Placed(first, data) = p
    BY Zenon DEF Placed, n
  <1> QED BY <1>3, <1>4, TranslatedIs DEF n

(* What each kind of record does.                                            *)
LEMMA RecordEffects ==
    ASSUME NEW l \in Loaders, NEW type, NEW address \in Int, NEW data \in Seq(Octet)
    PROVE  /\ process_record(l, type, address, data) \in Loaders
           /\ type = 4 /\ Len(data) = 2 =>
                process_record(l, type, address, data) = [l EXCEPT !.extended = 256 * data[1] + data[2]]
  <1> DEFINE first == 65536 * (l.extended - OffsetUpper) + address
             refused == [l EXCEPT !.state = Refused]
             laid == [l EXCEPT !.memory = Overlay(Placed(first, data), l.memory)]
             moved == [l EXCEPT !.extended = BigEndian(data)]
             done == [l EXCEPT !.state = "parsed"]
             p == process_record(l, type, address, data)
  <1>1. first \in Int
    <2> DEFINE e == l.extended
    <2>1. e \in Int
      BY LoaderChanged
    <2> HIDE DEF e
    <2>2. 65536 * (e - OffsetUpper) + address \in Int
      BY <2>1, LoaderAssumption
    <2> QED BY <2>2 DEF e
  <1>2. refused \in Loaders /\ done \in Loaders /\ laid \in Loaders /\ moved \in Loaders
    <2>1. Overlay(Placed(first, data), l.memory) \in Translated
      <3> HIDE DEF first
      <3> QED BY <1>1, LoaderChanged, PlacedIs, Overlaid
    <2>2. BigEndian(data) \in Int
      BY RecordNumbers
    <2> HIDE DEF first
    <2> QED BY <2>1, <2>2, LoaderChanged
  <1>3. p = CASE type = 0 -> IF first < 0 THEN refused ELSE laid
              [] type = 4 -> IF data = <<>> THEN refused ELSE moved
              [] type = 1 -> done
              [] OTHER -> l
    BY SMT DEF process_record, Placed
  <1> HIDE DEF p, first, refused, laid, moved, done
  <1>4. p \in Loaders
    BY <1>2, <1>3
  <1>5. type = 4 /\ Len(data) = 2 => p = moved
    <2>1. Len(data) = 2 => data # <<>>
      OBVIOUS
    <2> QED BY <1>3, <2>1
  <1>6. Len(data) = 2 => BigEndian(data) = 256 * data[1] + data[2]
    BY RecordNumbers
  <1> QED BY <1>4, <1>5, <1>6 DEF p, moved

LEMMA RecordEnds ==
    ASSUME NEW l, NEW address, NEW data, NEW type, type = 1
    PROVE  process_record(l, type, address, data) = [l EXCEPT !.state = "parsed"]
  <1> DEFINE done == [l EXCEPT !.state = "parsed"]
             first == 65536 * (l.extended - OffsetUpper) + address
             p0 == IF first < 0 THEN [l EXCEPT !.state = Refused]
                   ELSE [l EXCEPT !.memory = Overlay(Placed(first, data), l.memory)]
             p4 == IF data = <<>> THEN [l EXCEPT !.state = Refused] ELSE [l EXCEPT !.extended = BigEndian(data)]
             p == process_record(l, type, address, data)
  <1>1. p = CASE type = 0 -> p0 [] type = 4 -> p4 [] type = 1 -> done [] OTHER -> l
    BY SMT DEF process_record, Placed
  <1> HIDE DEF p, p0, p4, done
  <1>2. p = done
    BY <1>1
  <1> QED BY <1>2 DEF p, done

LEMMA RecordMoves ==
    ASSUME NEW l \in Loaders, NEW address \in Int, NEW data \in Seq(Octet), NEW type, type = 4, Len(data) = 2
    PROVE  process_record(l, type, address, data) = [l EXCEPT !.extended = 256 * data[1] + data[2]]
  BY RecordEffects

Target(l, address) == 65536 * (l.extended - OffsetUpper) + address

LEMMA RecordLays ==
    ASSUME NEW l, NEW address, NEW data, NEW type, type = 0
    PROVE  process_record(l, type, address, data) =
             IF Target(l, address) < 0 THEN [l EXCEPT !.state = Refused]
             ELSE [l EXCEPT !.memory = Overlay(Placed(Target(l, address), data), l.memory)]
  <1> DEFINE done == [l EXCEPT !.state = "parsed"]
             first == Target(l, address)
             p0 == IF first < 0 THEN [l EXCEPT !.state = Refused]
                   ELSE [l EXCEPT !.memory = Overlay(Placed(first, data), l.memory)]
             p4 == IF data = <<>> THEN [l EXCEPT !.state = Refused] ELSE [l EXCEPT !.extended = BigEndian(data)]
             p == process_record(l, type, address, data)
  <1>1. p = CASE type = 0 -> p0 [] type = 4 -> p4 [] type = 1 -> done [] OTHER -> l
    BY SMT DEF process_record, Placed, Target
  <1> HIDE DEF p, p0, p4, done
  <1>2. p = p0
    BY <1>1
  <1> QED BY <1>2 DEF p, p0

LEMMA MemoryChanged ==
    ASSUME NEW l \in Loaders, NEW m \in Translated
    PROVE  LET k == [l EXCEPT !.memory = m]
           IN k.memory = m /\ k.extended = l.extended /\ k.state = l.state
  BY LoaderChanged

LEMMA RecordTyped ==
    ASSUME NEW l \in Loaders, NEW type, NEW address \in Int, NEW data \in Seq(Octet)
    PROVE  process_record(l, type, address, data) \in Loaders
  BY RecordEffects

LEMMA AnyParsed ==
    ASSUME NEW l \in Loaders, NEW line \in HexLine
    PROVE  Parsed(l, line) \in Loaders
  <1> DEFINE b == line.bytes
             count == b[1]
             refused == [l EXCEPT !.state = Refused]
             data == SubSeq(b, 5, 4 + count)
             p == process_record(l, b[4], 256 * b[2] + b[3], data)
             wrong == Len(b) < 5 \/ Len(b) < 5 + count \/ b[5 + count] # calculate_checksum(SubSeq(b, 1, Len(b) - 1))
  <1>1. b \in Seq(Octet) /\ line.kind \in {"record", "junk", "blank"}
    BY DEF HexLine
  <1>2. refused \in Loaders
    BY LoaderChanged
  <1>3. ~wrong => p \in Loaders
    <2> SUFFICES ASSUME ~wrong PROVE p \in Loaders
      OBVIOUS
    <2> HIDE DEF b
    <2>1. Len(b) \in Nat /\ \A k \in 1..Len(b) : b[k] \in Octet /\ b[k] \in Int
      BY <1>1, OctetSeq
    <2>2. 5 <= Len(b)
      BY <2>1
    <2>3. count \in Nat /\ b[2] \in Int /\ b[3] \in Int
      <3>1. 1 \in 1..Len(b) /\ 2 \in 1..Len(b) /\ 3 \in 1..Len(b)
        BY <2>1, <2>2
      <3>2. count \in Octet
        BY <2>1, <3>1
      <3>3. count \in Nat
        <4> HIDE DEF count
        <4> QED BY <3>2 DEF Octet
      <3> HIDE DEF count
      <3> QED BY <2>1, <3>1, <3>3
    <2>4. 5 + count <= Len(b)
      <3> HIDE DEF count
      <3> QED BY <2>1, <2>3 DEF wrong
    <2> HIDE DEF count, wrong
    <2>5. data \in Seq(Octet)
      <3>1. 5 \in Nat /\ 4 + count \in Nat /\ 1 <= 5 /\ 5 <= 4 + count + 1 /\ 4 + count <= Len(b)
        BY <2>1, <2>3, <2>4
      <3> QED BY <1>1, <3>1, SliceIs, Zenon
    <2>6. 256 * b[2] + b[3] \in Int
      BY <2>3
    <2> DEFINE address == 256 * b[2] + b[3]
    <2>7. address \in Int
      BY <2>6
    <2> HIDE DEF data, address
    <2>8. process_record(l, b[4], address, data) \in Loaders
      BY <2>5, <2>7, RecordTyped, Zenon
    <2> QED BY <2>8 DEF address
  <1>4. Parsed(l, line) = CASE line.kind = "blank" -> l
                            [] line.kind = "junk" -> refused
                            [] line.kind = "record" -> IF wrong THEN refused ELSE p
    <2> HIDE DEF wrong, p, refused
    <2> QED BY Zenon DEF Parsed, wrong, p, refused, data
  <1> HIDE DEF b, wrong, p, refused
  <1> QED BY <1>1, <1>2, <1>3, <1>4, SMT

-----------------------------------------------------------------------------
(* Every byte loaded is the one the program has at its address.              *)
Partial(l) ==
    /\ l.extended \in {0, OffsetUpper}
    /\ \A a \in DOMAIN l.memory : a \in 0..(Len(Bytes) - 1) /\ l.memory[a] = Bytes[a + 1]

Span(n) == Begin(n)..(Upto(n) - 1)

LEMMA SpansCover ==
    ASSUME WordsOK, NEW m, DOMAIN m \subseteq 0..(Len(Bytes) - 1), \A n \in 1..Chunks : Span(n) \subseteq DOMAIN m
    PROVE  DOMAIN m = 0..(Len(Bytes) - 1)
  <1>1. \A a \in 0..(Len(Bytes) - 1) : \E n \in 1..Chunks : a \in Span(n)
    BY ChunksCover, Zenon DEF Span
  <1> QED BY <1>1, Zenon

LEMMA EndParsed ==
    ASSUME NEW l \in Loaders
    PROVE  Parsed(l, EndLine) = [l EXCEPT !.state = "parsed"]
  <1> DEFINE x == EndBody
  <1>1. IsBody(x) /\ x[4] = 1
    BY EndIsBody
  <1> HIDE DEF x
  <1>2. PICK data \in Seq(Octet) : Parsed(l, Sealed(x)) = process_record(l, x[4], Address(x), data)
    BY <1>1, SealedParsed, Zenon
  <1>3. process_record(l, x[4], Address(x), data) = [l EXCEPT !.state = "parsed"]
    BY <1>1, RecordEnds
  <1> QED BY <1>2, <1>3, Zenon DEF EndLine, x

LEMMA ExtParsed ==
    ASSUME NEW l \in Loaders
    PROVE  Parsed(l, ExtLine) = [l EXCEPT !.extended = OffsetUpper]
  <1> DEFINE x == ExtBody
  <1>1. IsBody(x) /\ Len(x) = 6 /\ x[4] = 4 /\ 256 * x[5] + x[6] = OffsetUpper
    BY ExtIsBody
  <1> HIDE DEF x
  <1>2. IsBody(x) /\ x[4] = 4
    BY <1>1
  <1>3. PICK data \in Seq(Octet) :
             /\ Len(data) = Len(x) - 4 /\ \A k \in 1..(Len(x) - 4) : data[k] = x[4 + k]
             /\ Parsed(l, Sealed(x)) = process_record(l, x[4], Address(x), data)
    BY <1>2, SealedParsed, Zenon
  <1>4. Len(data) = 2 /\ data[1] = x[5] /\ data[2] = x[6]
    <2>1. Len(x) - 4 = 2 /\ 1 \in 1..2 /\ 2 \in 1..2 /\ 4 + 1 = 5 /\ 4 + 2 = 6
      BY <1>1
    <2> QED BY <1>3, <2>1
  <1>5. process_record(l, x[4], Address(x), data) = [l EXCEPT !.extended = 256 * data[1] + data[2]]
    <2>1. Address(x) \in Int
      BY <1>2, AddressIs, Zenon
    <2> QED BY <1>2, <1>4, <2>1, RecordMoves
  <1>6. 256 * data[1] + data[2] = OffsetUpper
    BY <1>1, <1>4
  <1>7. Parsed(l, Sealed(x)) = [l EXCEPT !.extended = OffsetUpper]
    BY <1>3, <1>5, <1>6
  <1> QED BY <1>7, Zenon DEF ExtLine, x

LEMMA DataParsed ==
    ASSUME WordsOK, NEW l \in Loaders, Partial(l), NEW n \in 1..Chunks
    PROVE  LET k == Parsed(l, DataLine(n))
           IN \/ k = [l EXCEPT !.state = Refused]
              \/ /\ Partial(k) /\ k.state = l.state
                 /\ DOMAIN l.memory \subseteq DOMAIN k.memory /\ Span(n) \subseteq DOMAIN k.memory
  <1> DEFINE x == DataBody(n)
             f == Begin(n)
             d == Upto(n) - f
             k == Parsed(l, DataLine(n))
             refused == [l EXCEPT !.state = Refused]
             address == Address(x)
             e == l.extended
             first == Target(l, address)
             m == l.memory
  <1>1. /\ DataLine(n) = Sealed(x) /\ IsBody(x) /\ Len(x) = 4 + d /\ x[4] = 0 /\ address = f
        /\ \A j \in 1..d : x[4 + j] = Bytes[f + j]
    BY DataIsBody, SMT DEF Address
  <1>2. f \in Nat /\ d \in Nat /\ Upto(n) = f + d /\ Upto(n) <= Len(Bytes) /\ Len(Bytes) \in Nat /\ f <= 16384
    BY ChunkSpan, BytesOctets
  <1>3. e \in {0, OffsetUpper} /\ \A a \in DOMAIN m : a \in 0..(Len(Bytes) - 1) /\ m[a] = Bytes[a + 1]
    BY DEF Partial
  <1>4. m \in Translated /\ refused \in Loaders
    BY LoaderChanged
  <1>5. PICK data \in Seq(Octet) :
             /\ Len(data) = Len(x) - 4 /\ \A j \in 1..(Len(x) - 4) : data[j] = x[4 + j]
             /\ Parsed(l, Sealed(x)) = process_record(l, x[4], address, data)
    BY <1>1, SealedParsed, Zenon
  <1> DEFINE laid == [l EXCEPT !.memory = Overlay(Placed(first, data), m)]
  <1> HIDE DEF x
  <1>6. k = IF first < 0 THEN refused ELSE laid
    <2>1. k = process_record(l, x[4], address, data)
      BY <1>1, <1>5, Zenon
    <2> HIDE DEF k
    <2>2. address \in Int
      BY <1>1, <1>2
    <2> HIDE DEF address
    <2> DEFINE type == x[4]
    <2>3. type = 0
      BY <1>1
    <2> HIDE DEF type
    <2>4. process_record(l, type, address, data) = IF first < 0 THEN refused ELSE laid
      BY <2>3, RecordLays
    <2> HIDE DEF refused, laid, first
    <2> QED BY <2>1, <2>4, Zenon DEF type
  <1> HIDE DEF k, address, e, f, d
  <1>7. ~(first < 0) => first = f
    <2> DEFINE z == 65536 * (e - OffsetUpper) + f
    <2>1. ~(z < 0) => z = f
      BY <1>2, <1>3, LoaderAssumption
    <2>2. first = z
      BY <1>1 DEF Target, e
    <2> HIDE DEF z, first
    <2> QED BY <2>1, <2>2, SMTT(30)
  <1>8. CASE first < 0
    <2> HIDE DEF first, refused, laid
    <2> QED BY <1>6, <1>8, Zenon DEF refused, k
  <1>9. CASE ~(first < 0)
    <2> DEFINE g == Placed(f, data)
               o == Overlay(g, m)
    <2>1. first = f
      BY <1>7, <1>9
    <2> HIDE DEF first
    <2>2. k = [l EXCEPT !.memory = o]
      BY <1>6, <1>9, <2>1
    <2>3. Len(data) = d /\ \A j \in 1..d : data[j] = Bytes[f + j]
      <3>1. Len(x) - 4 = d
        BY <1>1, <1>2
      <3> QED BY <1>1, <1>5, <3>1
    <2>4. f + d - 1 = Upto(n) - 1 /\ \A a \in f..(f + d - 1) : a - f + 1 \in 1..d /\ f + (a - f + 1) = a + 1 /\ a \in 0..(Len(Bytes) - 1)
      BY <1>2
    <2>5. g \in Translated /\ DOMAIN g = Span(n) /\ \A a \in DOMAIN g : a \in 0..(Len(Bytes) - 1) /\ g[a] = Bytes[a + 1]
      <3>1. g \in Translated /\ DOMAIN g = f..(f + d - 1)
        <4>1. g \in Translated /\ DOMAIN g = f..(f + Len(data) - 1)
          BY <1>2, PlacedIs
        <4> HIDE DEF g
        <4> QED BY <2>3, <4>1
      <3>2. \A a \in f..(f + d - 1) : g[a] = data[a - f + 1]
        BY <2>3 DEF Placed
      <3> HIDE DEF g
      <3>3. DOMAIN g = Span(n)
        BY <2>4, <3>1 DEF Span, f
      <3>4. \A a \in f..(f + d - 1) : g[a] = Bytes[a + 1]
        BY <2>3, <2>4, <3>2
      <3> QED BY <2>4, <3>1, <3>3, <3>4, Zenon
    <2> HIDE DEF g
    <2>6. /\ o \in Translated /\ DOMAIN o = DOMAIN g \cup DOMAIN m
          /\ (\A a \in DOMAIN g : o[a] = g[a]) /\ (\A a \in DOMAIN m \ DOMAIN g : o[a] = m[a])
      BY <1>4, <2>5, Overlaid, Zenon
    <2> HIDE DEF o
    <2>7. k.memory = o /\ k.extended = e /\ k.state = l.state
      BY <2>2, <2>6, MemoryChanged, Zenon DEF e
    <2> HIDE DEF m
    <2>8. Partial(k)
      <3>1. \A a \in DOMAIN o : a \in 0..(Len(Bytes) - 1) /\ o[a] = Bytes[a + 1]
        BY <1>3, <2>5, <2>6, Zenon
      <3> QED BY <1>3, <2>7, <3>1, Zenon DEF Partial
    <2>9. DOMAIN m \subseteq DOMAIN o /\ Span(n) \subseteq DOMAIN o
      BY <2>5, <2>6, Zenon
    <2> QED BY <2>7, <2>8, <2>9, Zenon DEF m, k
  <1> QED BY <1>8, <1>9

-----------------------------------------------------------------------------
FileLines == GoodLines \cup BadLines

(* Everything about the file follows from the words.                         *)
LEMMA SameProgram ==
    ASSUME words' = words
    PROVE  /\ Bytes' = Bytes /\ Expected' = Expected /\ Chunks' = Chunks /\ HexFile' = HexFile
           /\ FileLines' = FileLines /\ GoodLines' = GoodLines
           /\ \A n : DataLine(n)' = DataLine(n) /\ Span(n)' = Span(n)
  <1>1. Bytes' = Bytes
    BY Zenon DEF Bytes
  <1>2. Expected' = Expected
    BY Zenon DEF Expected
  <1>3. Chunks' = Chunks
    BY <1>1, Zenon DEF Chunks
  <1>4. \A n : Begin(n)' = Begin(n)
    BY DEF Begin
  <1>5. \A n : Upto(n)' = Upto(n)
    BY <1>1, <1>4, Zenon DEF Upto
  <1>6. \A n : Span(n)' = Span(n)
    BY <1>4, <1>5, Zenon DEF Span
  <1>7. \A n : DataLine(n)' = DataLine(n)
    BY <1>1, SMT DEF DataLine, Sealed
  <1>8. HexFile' = HexFile
    BY <1>3, <1>7, ZenonT(60) DEF HexFile, Sealed
  <1>9. GoodLines' = GoodLines
    BY <1>3, <1>7, ZenonT(60) DEF GoodLines, ExtLine, EndLine, Sealed
  <1>10. FileLines' = FileLines
    BY <1>9 DEF FileLines, BadLines
  <1> QED BY <1>1, <1>2, <1>3, <1>6, <1>7, <1>8, <1>9, <1>10

(* Sequences changed in one place, shortened, joined.                        *)
LEMMA Replaced ==
    ASSUME NEW X, NEW s \in Seq(X), NEW n \in 1..Len(s), NEW v \in X
    PROVE  /\ [s EXCEPT ![n] = v] \in Seq(X) /\ Len([s EXCEPT ![n] = v]) = Len(s)
           /\ [s EXCEPT ![n] = v][n] = v
           /\ \A i \in 1..Len(s) : i # n => [s EXCEPT ![n] = v][i] = s[i]
  OBVIOUS

LEMMA Chopped ==
    ASSUME NEW X, NEW s \in Seq(X), s # <<>>
    PROVE  /\ s[1] \in X /\ Len(s) \in Nat /\ 1 <= Len(s)
           /\ Tail(s) \in Seq(X) /\ Len(Tail(s)) = Len(s) - 1
           /\ \A i \in 1..(Len(s) - 1) : Tail(s)[i] = s[i + 1]
  OBVIOUS

LEMMA BothRuns ==
    ASSUME NEW X, NEW s \in Seq(X), NEW t \in Seq(X)
    PROVE  s \o t \in Seq(X)
  OBVIOUS

LEMMA Piece ==
    ASSUME NEW X, NEW s \in Seq(X), NEW m \in Int, NEW n \in Int, 1 <= m, n <= Len(s)
    PROVE  SubSeq(s, m, n) \in Seq(X)
  <1>1. \A i \in m..n : s[i] \in X
    OBVIOUS
  <1> QED BY <1>1, SubSeqProperties

LEMMA Widened ==
    ASSUME NEW X, NEW T, X \subseteq T, NEW s \in Seq(X)
    PROVE  s \in Seq(T) /\ \A i \in 1..Len(s) : s[i] \in X
  OBVIOUS

(* No line of the file is bad.                                               *)
LEMMA EndIsGood == ~Bad(EndLine)
  <1> SUFFICES ASSUME Bad(EndLine) PROVE FALSE
    OBVIOUS
  <1>1. Parsed(Fresh, EndLine) = [Fresh EXCEPT !.state = Refused]
    BY BadRefused
  <1>2. Parsed(Fresh, EndLine) = [Fresh EXCEPT !.state = "parsed"]
    BY FreshIsLoader, EndParsed
  <1>3. [Fresh EXCEPT !.state = Refused].state = Refused /\ [Fresh EXCEPT !.state = "parsed"].state = "parsed"
    BY FreshIsLoader, LoaderChanged
  <1>4. Refused # "parsed"
    BY DEF Refused
  <1> QED BY <1>1, <1>2, <1>3, <1>4, Zenon

(* What one line does: it is refused, or it adds bytes of the program.       *)
LEMMA LineParsed ==
    ASSUME WordsOK, NEW l \in Loaders, Partial(l), NEW line \in FileLines
    PROVE  LET k == Parsed(l, line)
           IN /\ k \in Loaders /\ Partial(k) /\ DOMAIN l.memory \subseteq DOMAIN k.memory
              /\ k.state = Refused
                 \/ /\ ~Bad(line) /\ k.state = IF line = EndLine THEN "parsed" ELSE l.state
                    /\ \A n \in 1..Chunks : line = DataLine(n) => Span(n) \subseteq DOMAIN k.memory
  <1> DEFINE k == Parsed(l, line)
             refused == [l EXCEPT !.state = Refused]
  <1>1. FileLines \subseteq HexLine /\ ExtLine # EndLine /\ Blank # EndLine
        /\ \A n \in 1..Chunks : DataLine(n) # EndLine
    BY GoodIsLine DEF FileLines
  <1>2. k \in Loaders
    BY <1>1, AnyParsed
  <1>3. /\ refused.memory = l.memory /\ refused.extended = l.extended /\ refused.state = Refused
    BY LoaderChanged
  <1> HIDE DEF refused
  <1>4. ASSUME k = refused
        PROVE  Partial(k) /\ DOMAIN l.memory \subseteq DOMAIN k.memory /\ k.state = Refused
    BY <1>3, <1>4, Zenon DEF Partial
  <1>5. CASE Bad(line)
    <2>1. k = refused
      BY <1>5, BadRefused DEF refused
    <2> QED BY <1>2, <1>4, <2>1, Zenon
  <1> SUFFICES ASSUME ~Bad(line)
               PROVE  /\ Partial(k) /\ DOMAIN l.memory \subseteq DOMAIN k.memory
                      /\ k.state = Refused
                         \/ /\ k.state = IF line = EndLine THEN "parsed" ELSE l.state
                            /\ \A n \in 1..Chunks : line = DataLine(n) => Span(n) \subseteq DOMAIN k.memory
    BY <1>2, <1>5, Zenon
  <1>6. line \in GoodLines
    BY Zenon DEF FileLines, BadLines
  <1>7. CASE \E n \in 1..Chunks : line = DataLine(n)
    <2>1. ASSUME NEW n \in 1..Chunks, line = DataLine(n)
          PROVE  k = refused \/ /\ Partial(k) /\ k.state = l.state
                                /\ DOMAIN l.memory \subseteq DOMAIN k.memory /\ Span(n) \subseteq DOMAIN k.memory
      BY <2>1, DataParsed, Zenon DEF refused
    <2>2. line # EndLine
      BY <1>1, <1>7, Zenon
    <2> HIDE DEF k
    <2> QED BY <1>4, <1>7, <2>1, <2>2, Zenon
  <1>8. CASE ~\E n \in 1..Chunks : line = DataLine(n)
    <2>1. line = ExtLine \/ line = Blank \/ line = EndLine
      BY <1>6, <1>8, Zenon DEF GoodLines
    <2>2. CASE line = ExtLine
      <3>1. k = [l EXCEPT !.extended = OffsetUpper]
        BY <2>2, ExtParsed, Zenon
      <3>2. OffsetUpper \in Int
        BY LoaderAssumption
      <3> HIDE DEF k
      <3>3. k.memory = l.memory /\ k.extended = OffsetUpper /\ k.state = l.state
        BY <3>1, <3>2, LoaderChanged
      <3>4. Partial(k)
        BY <3>3 DEF Partial
      <3> QED BY <1>1, <1>8, <2>2, <3>3, <3>4, Zenon
    <2>3. CASE line = Blank
      <3>1. k = l
        BY <2>3, SMT DEF Parsed, Blank
      <3> HIDE DEF k
      <3> QED BY <1>1, <1>8, <2>3, <3>1, Zenon
    <2>4. CASE line = EndLine
      <3>1. k = [l EXCEPT !.state = "parsed"]
        BY <2>4, EndParsed, Zenon
      <3> HIDE DEF k
      <3>2. k.memory = l.memory /\ k.extended = l.extended /\ k.state = "parsed"
        BY <3>1, LoaderChanged
      <3>3. Partial(k)
        BY <3>2 DEF Partial
      <3> QED BY <1>8, <2>4, <3>2, <3>3, Zenon
    <2> QED BY <2>1, <2>2, <2>3, <2>4, Zenon
  <1> QED BY <1>7, <1>8, Zenon

-----------------------------------------------------------------------------
(* The end record comes last, and every byte is loaded, on its way, or will   *)
(* be missed because a line is refused.                                      *)
EndsLast(r) == \A i \in 1..(Len(r) - 1) : r[i] # EndLine
Kept(r, m) ==
    \/ \E i \in 1..Len(r) : Bad(r[i])
    \/ \A n \in 1..Chunks : Span(n) \subseteq DOMAIN m \/ \E i \in 1..Len(r) : r[i] = DataLine(n)

LEMMA ChunksIs ==
    ASSUME WordsOK
    PROVE  Chunks \in Nat
  <1> DEFINE a == Len(Bytes) + ChunkBytes - 1
             c == ChunkBytes
  <1>1. a \in Nat /\ c \in Nat /\ 1 <= c
    BY BytesOctets, ImageAssumption
  <1> HIDE DEF a, c
  <1>2. a \div c \in Nat
    BY <1>1, Division
  <1> QED BY <1>2, Zenon DEF Chunks, a, c

LEMMA FileIs ==
    ASSUME WordsOK
    PROVE  /\ HexFile \in Seq(FileLines) /\ HexFile \in Seq(HexLine) /\ Len(HexFile) = Chunks + 3
           /\ \A i \in 1..Len(HexFile) : HexFile[i] \in GoodLines
           /\ \A n \in 1..Chunks : HexFile[2 + n] = DataLine(n)
           /\ EndsLast(HexFile) /\ \A m : Kept(HexFile, m)
  <1> DEFINE head == <<ExtLine, Blank>>
             body == [n \in 1..Chunks |-> DataLine(n)]
             tail == <<EndLine>>
             s == head \o body
             h == s \o tail
             c == Chunks
  <1>1. HexFile = h
    BY Zenon DEF HexFile, ExtLine, ExtBody, EndLine, EndBody
  <1>2. c \in Nat
    BY ChunksIs
  <1>3. head \in Seq(GoodLines) /\ Len(head) = 2 /\ head[1] = ExtLine /\ head[2] = Blank
    BY DEF GoodLines
  <1>4. tail \in Seq(GoodLines) /\ Len(tail) = 1 /\ tail[1] = EndLine
    BY DEF GoodLines
  <1>5. body \in Seq(GoodLines) /\ Len(body) = c /\ \A n \in 1..c : body[n] = DataLine(n)
    <2>1. body \in [1..c -> GoodLines]
      BY Zenon DEF GoodLines
    <2> HIDE DEF c
    <2>2. body \in Seq(GoodLines) /\ Len(body) = c
      <3> HIDE DEF body
      <3> QED BY <1>2, <2>1, FunctionIsSeq, Zenon
    <2> QED BY <2>2 DEF c
  <1> HIDE DEF head, body, tail, c
  <1>6. /\ s \in Seq(GoodLines) /\ Len(s) = 2 + c
        /\ \A i \in 1..(2 + c) : s[i] = IF i <= 2 THEN head[i] ELSE body[i - 2]
    <2>1. /\ s \in Seq(GoodLines) /\ Len(s) = Len(head) + Len(body)
          /\ \A i \in 1..(Len(head) + Len(body)) : s[i] = IF i <= Len(head) THEN head[i] ELSE body[i - Len(head)]
      BY <1>3, <1>5, ConcatProperties, Zenon
    <2> HIDE DEF s
    <2> QED BY <1>3, <1>5, <2>1
  <1> HIDE DEF s
  <1>7. /\ h \in Seq(GoodLines) /\ Len(h) = c + 3
        /\ \A i \in 1..(c + 3) : h[i] = IF i <= 2 + c THEN s[i] ELSE tail[i - (2 + c)]
    <2>1. /\ h \in Seq(GoodLines) /\ Len(h) = Len(s) + Len(tail)
          /\ \A i \in 1..(Len(s) + Len(tail)) : h[i] = IF i <= Len(s) THEN s[i] ELSE tail[i - Len(s)]
      BY <1>4, <1>6, ConcatProperties, Zenon
    <2> HIDE DEF h
    <2>2. Len(s) + Len(tail) = c + 3
      BY <1>2, <1>4, <1>6
    <2> QED BY <1>6, <2>1, <2>2, Zenon
  <1> HIDE DEF h
  <1>8. \A n \in 1..c : h[2 + n] = DataLine(n)
    <2>1. \A n \in 1..c : 2 + n \in 1..(c + 3) /\ 2 + n <= 2 + c /\ 2 + n \in 1..(2 + c) /\ ~(2 + n <= 2) /\ 2 + n - 2 = n
      BY <1>2
    <2>2. \A n \in 1..c : h[2 + n] = body[2 + n - 2]
      BY <1>6, <1>7, <2>1
    <2> QED BY <1>5, <2>1, <2>2
  <1>9. \A i \in 1..(c + 2) : h[i] # EndLine
    <2>1. ExtLine # EndLine /\ Blank # EndLine /\ \A n \in 1..c : DataLine(n) # EndLine
      BY GoodIsLine DEF c
    <2>2. \A i \in 1..(c + 2) : i \in 1..(c + 3) /\ i <= 2 + c /\ i \in 1..(2 + c) /\ (i <= 2 => i = 1 \/ i = 2) /\ (~(i <= 2) => i - 2 \in 1..c)
      BY <1>2
    <2>3. \A i \in 1..(c + 2) : h[i] = IF i <= 2 THEN head[i] ELSE body[i - 2]
      <3>1. \A i \in 1..(c + 2) : h[i] = s[i]
        BY <1>7, <2>2
      <3> QED BY <1>6, <2>2, <3>1
    <2> QED BY <1>3, <1>5, <2>1, <2>2, <2>3
  <1>10. GoodLines \subseteq FileLines /\ GoodLines \subseteq HexLine
    BY GoodIsLine DEF FileLines
  <1>11. EndsLast(h)
    <2>1. Len(h) - 1 = c + 2
      BY <1>2, <1>7
    <2> QED BY <1>9, <2>1, Zenon DEF EndsLast
  <1>12. \A m : Kept(h, m)
    <2>1. \A n \in 1..c : 2 + n \in 1..Len(h)
      BY <1>2, <1>7
    <2> QED BY <1>8, <2>1, Zenon DEF Kept, c
  <1>13. h \in Seq(FileLines) /\ h \in Seq(HexLine) /\ \A i \in 1..Len(h) : h[i] \in GoodLines
    BY <1>7, <1>10, Widened
  <1> QED BY <1>1, <1>7, <1>8, <1>11, <1>12, <1>13, Zenon DEF c

LEMMA GoodIsSealed ==
    ASSUME WordsOK, NEW line \in GoodLines
    PROVE  line = Blank \/ \E x : IsBody(x) /\ line = Sealed(x)
  <1>1. \A n \in 1..Chunks : IsBody(DataBody(n)) /\ DataLine(n) = Sealed(DataBody(n))
    BY DataIsBody, Zenon
  <1>2. IsBody(ExtBody) /\ IsBody(EndBody)
    BY ExtIsBody, EndIsBody
  <1> QED BY <1>1, <1>2, Zenon DEF GoodLines, ExtLine, EndLine

(* A download that was cut: whole lines, then perhaps a line without its end. *)
LEMMA FileCut ==
    ASSUME WordsOK, NEW n \in 0..(Len(HexFile) - 1), NEW stub,
           stub = <<>> \/ /\ HexFile[n + 1].kind # "blank"
                          /\ stub = <<Record(SubSeq(HexFile[n + 1].bytes, 1, Len(HexFile[n + 1].bytes) - 1))>>
    PROVE  SubSeq(HexFile, 1, n) \o stub \in Seq(FileLines)
  <1> DEFINE next == HexFile[n + 1]
             part == Record(SubSeq(next.bytes, 1, Len(next.bytes) - 1))
  <1>1. HexFile \in Seq(FileLines) /\ Len(HexFile) \in Nat
    BY FileIs
  <1>2. n \in Int /\ n <= Len(HexFile) /\ n + 1 \in 1..Len(HexFile)
    BY <1>1
  <1>3. SubSeq(HexFile, 1, n) \in Seq(FileLines)
    BY <1>1, <1>2, Piece
  <1>4. stub \in Seq(FileLines)
    <2>1. CASE stub = <<>>
      BY <2>1
    <2>2. CASE next.kind # "blank" /\ stub = <<part>>
      <3>1. next \in GoodLines
        BY <1>2, FileIs, Zenon
      <3> HIDE DEF next
      <3>2. next # Blank
        BY <2>2 DEF Blank
      <3>3. PICK x : IsBody(x) /\ next = Sealed(x)
        BY <3>1, <3>2, GoodIsSealed, Zenon
      <3>4. part \in HexLine /\ Bad(part)
        BY <3>3, SealedCut, Zenon
      <3> HIDE DEF part
      <3>5. part \in FileLines
        BY <3>4, Zenon DEF FileLines, BadLines
      <3> QED BY <2>2, <3>5
    <2> QED BY <2>1, <2>2, Zenon
  <1> QED BY <1>3, <1>4, BothRuns

(* A byte spoilt, a line lost, two data lines swapped.                       *)
LEMMA ByteChanged ==
    ASSUME NEW s \in HexLine, NEW k \in 1..Len(s.bytes), NEW c \in Int
    PROVE  [s EXCEPT !.bytes[k] = (@ + c) % 256] \in HexLine
  <1> DEFINE b == s.bytes
             v == (b[k] + c) % 256
             d == [b EXCEPT ![k] = v]
  <1>1. b \in Seq(Octet) /\ b[k] \in Int
    <2>1. b \in Seq(Octet)
      BY DEF HexLine
    <2> QED BY <2>1, OctetSeq
  <1>2. v \in Octet
    <2> DEFINE w == b[k] + c
    <2>1. w \in Int
      <3> HIDE DEF b
      <3> QED BY <1>1
    <2> HIDE DEF w
    <2>2. w % 256 \in Octet
      BY <2>1, WrapsToOctet, Zenon
    <2> QED BY <2>2 DEF w
  <1>3. d \in Seq(Octet)
    <2> HIDE DEF b, v
    <2> QED BY <1>1, <1>2, Replaced DEF b
  <1>4. [s EXCEPT !.bytes[k] = (@ + c) % 256] = [s EXCEPT !.bytes = d]
    BY SMT
  <1> HIDE DEF d
  <1>5. [s EXCEPT !.bytes = d] \in HexLine
    BY <1>3 DEF HexLine
  <1> QED BY <1>4, <1>5, Zenon

Spoilt(lines, n, k, c) == [lines EXCEPT ![n].bytes[k] = (@ + c) % 256]

LEMMA FileSpoilt ==
    ASSUME WordsOK, NEW n \in 1..Len(HexFile), HexFile[n].kind = "record",
           NEW k \in 1..Len(HexFile[n].bytes), NEW c \in Int
    PROVE  LET r == Spoilt(HexFile, n, k, c)
           IN /\ r \in Seq(HexLine)
              /\ k # 1 => r \in Seq(FileLines) /\ EndsLast(r) /\ \A m : Kept(r, m)
  <1> DEFINE s == HexFile[n]
             v == [s EXCEPT !.bytes[k] = (@ + c) % 256]
             r == [HexFile EXCEPT ![n] = v]
             h == HexFile
  <1>1. Spoilt(HexFile, n, k, c) = r
    BY SMT DEF Spoilt
  <1>2. h \in Seq(HexLine) /\ h \in Seq(FileLines) /\ s \in GoodLines /\ EndsLast(h) /\ \A m : Kept(h, m)
    BY FileIs
  <1>3. s \in HexLine
    BY <1>2, GoodIsLine
  <1>4. v \in HexLine
    <2> HIDE DEF s
    <2> QED BY <1>3, ByteChanged, ZenonT(60) DEF s
  <1>5. r \in Seq(HexLine) /\ n \in 1..Len(h)
    <2> HIDE DEF v
    <2> QED BY <1>2, <1>4, Replaced
  <1>6. ASSUME k # 1
        PROVE  r \in Seq(FileLines) /\ EndsLast(r) /\ \A m : Kept(r, m)
    <2>1. v = s \/ Bad(v)
      <3>1. s # Blank
        BY DEF Blank
      <3>2. PICK x : IsBody(x) /\ s = Sealed(x)
        BY <1>2, <3>1, GoodIsSealed, Zenon
      <3>3. Len(s.bytes) = Len(x) + 1 /\ Len(x) \in Nat
        <4>1. Len(s.bytes) = Len(x) + 1
          BY <3>2, SealedBytes, Zenon
        <4>2. Len(x) \in Nat
          BY <3>2, OctetSeq DEF IsBody
        <4> QED BY <4>1, <4>2
      <3>4. k \in 2..(Len(x) + 1)
        BY <1>6, <3>3
      <3> HIDE DEF s
      <3>5. v = [Sealed(x) EXCEPT !.bytes[k] = (@ + c) % 256]
        BY <3>2
      <3> HIDE DEF v
      <3>6. v = Sealed(x) \/ Bad(v)
        BY <3>2, <3>4, <3>5, SealedSpoilt, ZenonT(60)
      <3> QED BY <3>2, <3>6, Zenon
    <2>2. CASE v = s
      <3>1. r = h
        <4> HIDE DEF v
        <4> QED BY <1>2, <2>2
      <3> HIDE DEF r, h
      <3> QED BY <1>2, <3>1, Zenon
    <2>3. CASE Bad(v)
      <3>1. v \in FileLines /\ v # EndLine
        <4> HIDE DEF v
        <4> QED BY <1>4, <2>3, EndIsGood, Zenon DEF FileLines, BadLines
      <3> HIDE DEF v
      <3>2. r \in Seq(FileLines) /\ Len(r) = Len(h) /\ r[n] = v /\ \A i \in 1..Len(h) : i # n => r[i] = h[i]
        BY <1>2, <3>1, Replaced
      <3> HIDE DEF r, h
      <3>3. EndsLast(r)
        <4>1. \A i \in 1..(Len(h) - 1) : i \in 1..Len(h)
          <5>1. Len(h) \in Nat
            BY <1>2
          <5> QED BY <5>1
        <4> QED BY <1>2, <3>1, <3>2, <4>1, Zenon DEF EndsLast
      <3>4. \A m : Kept(r, m)
        BY <1>5, <2>3, <3>2, Zenon DEF Kept
      <3> QED BY <3>2, <3>3, <3>4
    <2> QED BY <2>1, <2>2, <2>3, Zenon
  <1> HIDE DEF r
  <1> QED BY <1>1, <1>5, <1>6, Zenon

LEMMA FileLost ==
    ASSUME NEW X, NEW s \in Seq(X), NEW n \in 1..Len(s)
    PROVE  SubSeq(s, 1, n - 1) \o SubSeq(s, n + 1, Len(s)) \in Seq(X)
  <1>1. Len(s) \in Nat
    OBVIOUS
  <1>2. n - 1 \in Int /\ n - 1 <= Len(s) /\ n + 1 \in Int /\ 1 <= n + 1 /\ Len(s) \in Int /\ Len(s) <= Len(s) /\ 1 \in Int /\ 1 <= 1
    BY <1>1
  <1>3. SubSeq(s, 1, n - 1) \in Seq(X)
    BY <1>2, Piece, Zenon
  <1>4. SubSeq(s, n + 1, Len(s)) \in Seq(X)
    BY <1>2, Piece, Zenon
  <1> DEFINE a == SubSeq(s, 1, n - 1)
             b == SubSeq(s, n + 1, Len(s))
  <1> HIDE DEF a, b
  <1>5. a \o b \in Seq(X)
    BY <1>3, <1>4, BothRuns DEF a, b
  <1> QED BY <1>5 DEF a, b

LEMMA FileSwapped ==
    ASSUME WordsOK, NEW n \in 1..Len(HexFile), n < Len(HexFile), IsData(HexFile[n]), IsData(HexFile[n + 1])
    PROVE  LET r == [HexFile EXCEPT ![n] = HexFile[n + 1], ![n + 1] = HexFile[n]]
           IN r \in Seq(FileLines) /\ r \in Seq(HexLine) /\ EndsLast(r) /\ \A m : Kept(r, m)
  <1> DEFINE h == HexFile
             r == [h EXCEPT ![n] = h[n + 1], ![n + 1] = h[n]]
             o(i) == IF i = n THEN n + 1 ELSE IF i = n + 1 THEN n ELSE i
  <1>1. h \in Seq(HexLine) /\ h \in Seq(FileLines) /\ Len(h) = Chunks + 3 /\ Chunks \in Nat
        /\ (\A i \in 1..Chunks : h[2 + i] = DataLine(i)) /\ EndsLast(h)
    BY FileIs, ChunksIs
  <1>2. h[n] # EndLine /\ h[n + 1] # EndLine
    <2>1. EndLine.bytes[4] = 1
      <3>1. 4 \in 1..Len(EndBody) /\ IsBody(EndBody) /\ EndBody[4] = 1
        BY EndIsBody
      <3> QED BY <3>1, SealedBytes, Zenon DEF EndLine
    <2>2. ~IsData(EndLine)
      BY <2>1 DEF IsData
    <2> QED BY <2>2, Zenon
  <1> HIDE DEF h
  <1>3. /\ r \in Seq(FileLines) /\ r \in Seq(HexLine) /\ Len(r) = Len(h)
        /\ r[n] = h[n + 1] /\ r[n + 1] = h[n] /\ \A i \in 1..Len(h) : i # n /\ i # n + 1 => r[i] = h[i]
    <2> DEFINE q == [h EXCEPT ![n] = h[n + 1]]
    <2>1. n \in 1..Len(h) /\ n + 1 \in 1..Len(h) /\ n # n + 1
      BY <1>1 DEF h
    <2>2. /\ h[n] \in FileLines /\ h[n + 1] \in FileLines /\ h[n] \in HexLine /\ h[n + 1] \in HexLine
      BY <1>1, <2>1
    <2>3. /\ q \in Seq(FileLines) /\ q \in Seq(HexLine) /\ Len(q) = Len(h) /\ q[n] = h[n + 1]
          /\ \A i \in 1..Len(h) : i # n => q[i] = h[i]
      BY <1>1, <2>1, <2>2, Replaced
    <2>4. r = [q EXCEPT ![n + 1] = h[n]]
      OBVIOUS
    <2> HIDE DEF q, r
    <2>5. /\ r \in Seq(FileLines) /\ r \in Seq(HexLine) /\ Len(r) = Len(q) /\ r[n + 1] = h[n]
          /\ \A i \in 1..Len(q) : i # n + 1 => r[i] = q[i]
      BY <2>1, <2>2, <2>3, <2>4, Replaced
    <2> QED BY <2>1, <2>3, <2>5
  <1> HIDE DEF r
  <1>4. EndsLast(r)
    <2>1. \A i \in 1..(Len(h) - 1) : i \in 1..Len(h)
      BY <1>1
    <2> QED BY <1>1, <1>2, <1>3, <2>1, Zenon DEF EndsLast
  <1>5. \A m : Kept(r, m)
    <2>1. \A i \in 1..Chunks : \E j \in 1..Len(r) : r[j] = DataLine(i)
      <3>1. ASSUME NEW i \in 1..Chunks PROVE \E j \in 1..Len(r) : r[j] = DataLine(i)
        <4>1. 2 + i \in 1..Len(h) /\ n \in 1..Len(h) /\ n + 1 \in 1..Len(h) /\ h[2 + i] = DataLine(i)
          BY <1>1 DEF h
        <4> QED BY <1>3, <4>1, Zenon
      <3> QED BY <3>1
    <2> QED BY <2>1, Zenon DEF Kept
  <1> QED BY <1>3, <1>4, <1>5 DEF r, h

(* One line more: nothing the file had to say is lost on the way.            *)
LEMMA LineTaken ==
    ASSUME WordsOK, NEW l \in Loaders, Partial(l), l.state = "parsing", NEW r \in Seq(FileLines)
    PROVE  LET k == parse_hex(l, r)
               t == IF r = <<>> THEN <<>> ELSE Tail(r)
           IN /\ k \in Loaders /\ Partial(k) /\ t \in Seq(FileLines)
              /\ EndsLast(r) /\ Kept(r, l.memory) =>
                    /\ k.state = "parsing" => EndsLast(t) /\ Kept(t, k.memory)
                    /\ k.state = "parsed" => DOMAIN k.memory = 0..(Len(Bytes) - 1)
  <1> DEFINE k == parse_hex(l, r)
             t == IF r = <<>> THEN <<>> ELSE Tail(r)
  <1>1. CASE r = <<>>
    <2>1. k = [l EXCEPT !.state = "parsed"] /\ t = <<>>
      BY <1>1, Zenon DEF parse_hex
    <2> HIDE DEF k, t
    <2>2. k \in Loaders /\ k.memory = l.memory /\ k.extended = l.extended /\ k.state = "parsed"
      BY <2>1, LoaderChanged
    <2>3. Partial(k)
      BY <2>2 DEF Partial
    <2>4. t \in Seq(FileLines)
      BY <2>1
    <2>5. ASSUME Kept(r, l.memory)
          PROVE  DOMAIN k.memory = 0..(Len(Bytes) - 1)
      <3>1. \A i \in 1..Len(r) : FALSE
        BY <1>1
      <3>2. \A n \in 1..Chunks : Span(n) \subseteq DOMAIN k.memory
        BY <2>2, <2>5, <3>1, Zenon DEF Kept
      <3>3. DOMAIN k.memory \subseteq 0..(Len(Bytes) - 1)
        BY <2>3, Zenon DEF Partial
      <3> QED BY <3>2, <3>3, SpansCover, Zenon
    <2> QED BY <2>2, <2>3, <2>4, <2>5 DEF k, t
  <1>2. CASE r # <<>>
    <2> DEFINE line == r[1]
    <2>1. /\ line \in FileLines /\ Len(r) \in Nat /\ 1 <= Len(r)
          /\ Tail(r) \in Seq(FileLines) /\ Len(Tail(r)) = Len(r) - 1
          /\ \A i \in 1..(Len(r) - 1) : Tail(r)[i] = r[i + 1]
      BY <1>2, Chopped
    <2>2. k = Parsed(l, line) /\ t = Tail(r)
      BY <1>2, Zenon DEF parse_hex
    <2> HIDE DEF k, t, line
    <2>3. /\ k \in Loaders /\ Partial(k) /\ DOMAIN l.memory \subseteq DOMAIN k.memory
          /\ k.state = Refused
             \/ /\ ~Bad(line) /\ k.state = IF line = EndLine THEN "parsed" ELSE l.state
                /\ \A n \in 1..Chunks : line = DataLine(n) => Span(n) \subseteq DOMAIN k.memory
      BY <2>1, <2>2, LineParsed, Zenon
    <2>4. ASSUME EndsLast(r), Kept(r, l.memory), k.state # Refused
          PROVE  /\ k.state = "parsing" => EndsLast(t) /\ Kept(t, k.memory)
                 /\ k.state = "parsed" => DOMAIN k.memory = 0..(Len(Bytes) - 1)
      <3>1. \A i \in 1..Len(r) : i = 1 \/ /\ i - 1 \in 1..Len(t) /\ t[i - 1] = r[i]
        BY <2>1, <2>2
      <3>2. Kept(t, k.memory)
        <4>1. CASE \E i \in 1..Len(r) : Bad(r[i])
          BY <2>3, <2>4, <3>1, <4>1, Zenon DEF Kept, line
        <4>2. CASE ~\E i \in 1..Len(r) : Bad(r[i])
          <5>1. ASSUME NEW n \in 1..Chunks, ~(\E i \in 1..Len(t) : t[i] = DataLine(n))
                PROVE  Span(n) \subseteq DOMAIN k.memory
            <6>1. Span(n) \subseteq DOMAIN l.memory \/ \E i \in 1..Len(r) : r[i] = DataLine(n)
              BY <2>4, <4>2, Zenon DEF Kept
            <6> QED BY <2>3, <2>4, <3>1, <5>1, <6>1, Zenon DEF line
          <5> QED BY <5>1, Zenon DEF Kept
        <4> QED BY <4>1, <4>2
      <3>3. EndsLast(t)
        <4>1. \A i \in 1..(Len(t) - 1) : i \in 1..(Len(r) - 1) /\ i + 1 \in 1..(Len(r) - 1) /\ t[i] = r[i + 1]
          BY <2>1, <2>2
        <4> QED BY <2>4, <4>1, Zenon DEF EndsLast
      <3>4. ASSUME k.state = "parsed"
            PROVE  DOMAIN k.memory = 0..(Len(Bytes) - 1)
        <4>1. line = EndLine
          BY <2>3, <2>4, <3>4
        <4>2. Len(t) = 0
          <5>1. Len(r) = 1
            <6>1. ~(1 \in 1..(Len(r) - 1))
              BY <2>4, <4>1, Zenon DEF EndsLast, line
            <6> QED BY <2>1, <6>1
          <5> QED BY <2>1, <2>2, <5>1
        <4>3. \A i \in 1..Len(t) : FALSE
          BY <4>2
        <4>4. \A n \in 1..Chunks : Span(n) \subseteq DOMAIN k.memory
          BY <3>2, <4>3, Zenon DEF Kept
        <4>5. DOMAIN k.memory \subseteq 0..(Len(Bytes) - 1)
          BY <2>3, Zenon DEF Partial
        <4> QED BY <4>4, <4>5, SpansCover, Zenon
      <3> QED BY <3>2, <3>3, <3>4
    <2>5. Refused # "parsing" /\ Refused # "parsed"
      BY DEF Refused
    <2> QED BY <2>1, <2>2, <2>3, <2>4, <2>5, Zenon DEF k, t
  <1> QED BY <1>1, <1>2

-----------------------------------------------------------------------------
(* The inductive invariant.  The words are the encoding of the job's program. *)
ProgramInv ==
    /\ job \in Jobs
    /\ words = IF stage = "build" THEN <<>> ELSE [k \in 1..Len(Program.code) |-> Encoded(Program.code[k])]

Before == {"build", "direct", "bin", "hex"}       \* nothing has been parsed yet
After  == {"loaded", "refused", "run"}            \* there is an image, or none to come
Careful == {"none", "byte", "swapped"}            \* what the loader promises to notice or to bear

StageInv ==
    /\ stage \in Before \cup {"parse", "align"} \cup After
    /\ harm \in Careful \cup {"cut", "lost", "count"}
    /\ stage \in Before => loader = Fresh /\ rest = <<>> /\ harm \in {"none", "cut"}
    /\ stage = "build" => disk = Absent
    /\ stage \notin After => image = NoImage
    /\ stage = "parse" => loader.state = "parsing"
    /\ stage = "align" => loader.state = "parsed"

HartInv == HartOK(hart) /\ faults \in 0..MaxFaults

(* The file: what is on disk, what is still to be parsed, what has been.      *)
FileOK(st, d, r, l, h) ==
    /\ d.lines \in Seq(FileLines) /\ r \in Seq(HexLine) /\ l \in Loaders
    /\ st = "hex" /\ d.there /\ h = "none" => d.lines \in {HexFile, <<Junk>>}
    /\ st = "parse" /\ h = "none" => d.lines = HexFile
    /\ h # "count" => r \in Seq(FileLines) /\ Partial(l)
    /\ h \in Careful /\ st = "parse" => EndsLast(r) /\ Kept(r, l.memory)
    /\ h \in Careful /\ l.state = "parsed" => DOMAIN l.memory = 0..(Len(Bytes) - 1)

FileInv == FileOK(stage, disk, rest, loader, harm)

ImageInv ==
    /\ \A w \in DOMAIN image.words : image.words[w] \in Bits32
    /\ image.ok /\ harm \in Careful => image.words = Expected

Inv == ProgramInv /\ StageInv /\ HartInv /\ FileInv /\ ImageInv

LEMMA InvWordsOK ==
    ASSUME ProgramInv
    PROVE  WordsOK
  <1>1. CASE stage = "build"
    BY <1>1 DEF ProgramInv, WordsOK
  <1>2. CASE stage # "build"
    <2> DEFINE code == Program.code
               n == Len(code)
               f == [k \in 1..n |-> Encoded(code[k])]
    <2>1. words = f /\ code \in Code(4096)
      <3>1. code \in Code(4096)
        BY ProgramIsCode, SMT DEF ProgramInv
      <3>2. words = f
        <4> HIDE DEF f
        <4> QED BY <1>2 DEF ProgramInv, f, n, code
      <3> QED BY <3>1, <3>2
    <2> HIDE DEF code
    <2>2. n \in Nat /\ n <= 4096 /\ \A k \in 1..n : code[k] \in Line
      BY <2>1 DEF Code
    <2> HIDE DEF n
    <2>3. f \in [1..n -> Bits32]
      <3>1. \A k \in 1..n : code[k] \in Line
        BY <2>2
      <3>2. \A k \in 1..n : Encoded(code[k]) \in Bits32
        BY <3>1, LinesAreMeant, Zenon
      <3> QED BY <3>2
    <2> HIDE DEF f
    <2>4. f \in Seq(Bits32) /\ Len(f) = n
      BY <2>2, <2>3, FunctionIsSeq
    <2> QED BY <2>1, <2>2, <2>4 DEF WordsOK
  <1> QED BY <1>1, <1>2

(* The parts of it that the loader's promise is made of.                     *)
LEMMA FilePrimed ==
    ASSUME words' = words, FileOK(stage', disk', rest', loader', harm')
    PROVE  FileInv'
  <1>1. /\ Bytes' = Bytes /\ Chunks' = Chunks /\ HexFile' = HexFile /\ FileLines' = FileLines
        /\ \A n : DataLine(n)' = DataLine(n) /\ Span(n)' = Span(n)
    BY SameProgram
  <1> QED BY <1>1 DEF FileInv, FileOK, Partial, EndsLast, Kept

(* Where the file is left alone, and where there is none.                    *)
LEMMA FileQuiet ==
    ASSUME NEW st, NEW su, NEW d, NEW r, NEW l, NEW h, FileOK(st, d, r, l, h), su = st \/ su \notin {"hex", "parse"}
    PROVE  FileOK(su, d, r, l, h)
  BY Zenon DEF FileOK

LEMMA FreshIsPartial ==
    Partial(Fresh) /\ Fresh.state # "parsed"
  BY FreshIsLoader DEF Partial

LEMMA FileNone ==
    ASSUME NEW st, NEW h, st # "parse"
    PROVE  FileOK(st, Absent, <<>>, Fresh, h)
  <1>1. Absent.lines = <<>> /\ Absent.there = FALSE
    BY DEF Absent
  <1>2. \A X : <<>> \in Seq(X)
    OBVIOUS
  <1> QED BY <1>1, <1>2, FreshIsLoader, FreshIsPartial, Zenon DEF FileOK

(* A run of the fetch tool that ends by itself.                              *)
LEMMA FileFetched ==
    ASSUME WordsOK, NEW force, NEW d, NEW h, NEW e, NEW g,
           FileOK("hex", d, <<>>, Fresh, h), h \in {"none", "cut"},
           \/ /\ e = download_hex_file(d, force, [error |-> FALSE, lines |-> HexFile])
              /\ g = (IF d.there /\ ~force THEN h ELSE "none")
           \/ e = download_hex_file(d, force, [error |-> TRUE, lines |-> <<>>]) /\ g = h
           \/ e = download_hex_file(d, force, [error |-> FALSE, lines |-> <<Junk>>]) /\ g = h
    PROVE  /\ g \in {"none", "cut"} /\ FileOK("hex", e, <<>>, Fresh, g)
           /\ validate_hex_file(e) => FileOK("parse", e, e.lines, Fresh, g)
  <1>1. /\ HexFile \in Seq(FileLines) /\ <<>> \in Seq(FileLines) /\ <<Junk>> \in Seq(FileLines)
    <2>1. Junk \in FileLines
      <3>1. Junk \in HexLine /\ Junk.kind = "junk"
        BY DEF Junk, HexLine
      <3> QED BY <3>1 DEF FileLines, BadLines, Bad
    <2> QED BY <2>1, FileIs
  <1>2. FileLines \subseteq HexLine
    BY GoodIsLine DEF FileLines
  <1>3. d.lines \in Seq(FileLines) /\ (d.there /\ h = "none" => d.lines \in {HexFile, <<Junk>>})
    BY Zenon DEF FileOK
  <1>4. /\ g \in {"none", "cut"} /\ e.lines \in Seq(FileLines)
        /\ e.there /\ g = "none" => e.lines \in {HexFile, <<Junk>>}
    <2>1. Absent.there = FALSE /\ Absent.lines = <<>>
      BY DEF Absent
    <2>2. \A s : File(s).there = TRUE /\ File(s).lines = s
      BY DEF File
    <2>3. /\ [error |-> FALSE, lines |-> HexFile].error = FALSE /\ [error |-> FALSE, lines |-> HexFile].lines = HexFile
          /\ [error |-> TRUE, lines |-> <<>>].error = TRUE
          /\ [error |-> FALSE, lines |-> <<Junk>>].error = FALSE /\ [error |-> FALSE, lines |-> <<Junk>>].lines = <<Junk>>
      OBVIOUS
    <2>4. CASE d.there /\ ~force
      <3>1. e = d /\ g = h
        BY <2>4, SMT DEF download_hex_file
      <3> QED BY <1>3, <3>1
    <2>5. CASE ~(d.there /\ ~force)
      <3>1. \/ e = File(HexFile) /\ g = "none"
            \/ e = Absent /\ g = h
            \/ e = File(<<Junk>>) /\ g = h
        BY <2>3, <2>5, SMT DEF download_hex_file
      <3> QED BY <1>1, <2>1, <2>2, <3>1
    <2> QED BY <2>4, <2>5
  <1>5. <<>> \in Seq(HexLine) /\ <<>> \in Seq(FileLines) /\ e.lines \in Seq(HexLine)
    BY <1>2, <1>4, Widened
  <1>6. FileOK("hex", e, <<>>, Fresh, g)
    BY <1>4, <1>5, FreshIsLoader, FreshIsPartial, Zenon DEF FileOK
  <1>7. ASSUME validate_hex_file(e)
        PROVE  FileOK("parse", e, e.lines, Fresh, g)
    <2>1. g = "none" => e.lines = HexFile
      <3>1. e.there /\ e.lines[1].kind = "record"
        BY <1>7 DEF validate_hex_file
      <3>2. Junk.kind # "record" /\ <<Junk>>[1] = Junk
        BY DEF Junk
      <3> QED BY <1>4, <3>1, <3>2
    <2>2. g \in Careful => EndsLast(e.lines) /\ Kept(e.lines, Fresh.memory)
      <3>1. g \in Careful => g = "none"
        BY <1>4 DEF Careful
      <3> QED BY <2>1, <3>1, FileIs, Zenon
    <2>3. "parse" # "hex" /\ "parse" = "parse"
      OBVIOUS
    <2> QED BY <1>4, <1>5, <2>1, <2>2, <2>3, FreshIsLoader, FreshIsPartial, Zenon DEF FileOK
  <1> QED BY <1>4, <1>6, <1>7

-----------------------------------------------------------------------------
(* What each part of the invariant needs in order to last.                   *)
LEMMA ProgramLasts ==
    ASSUME ProgramInv, job' = job, words' = words, stage # "build", stage' # "build"
    PROVE  ProgramInv'
  <1>1. Program' = Program
    BY Zenon DEF Program, Sweep
  <1> QED BY <1>1, SMT DEF ProgramInv

LEMMA HartLasts ==
    ASSUME HartInv, hart' = hart, faults' = faults \/ Fault
    PROVE  HartInv'
  <1>1. faults' \in 0..MaxFaults
    BY ImageAssumption DEF HartInv, Fault
  <1> QED BY <1>1, SMT DEF HartInv, HartOK, Harts

LEMMA ExpectedIs ==
    ASSUME WordsOK
    PROVE  Expected \in Memories /\ \A w \in DOMAIN Expected : Expected[w] \in Bits32
  <1> DEFINE n == Len(words)
             D == 0..(n - 1)
             e == [w \in D |-> words[w + 1]]
  <1>1. n \in Nat /\ \A k \in 1..n : words[k] \in Bits32
    BY DEF WordsOK
  <1> HIDE DEF n
  <1>2. \A w \in D : words[w + 1] \in Bits32
    BY <1>1
  <1>3. e \in [D -> Bits32] /\ D \in SUBSET Nat
    BY <1>1, <1>2
  <1>4. Expected = e
    BY Zenon DEF Expected, n
  <1> HIDE DEF e, D
  <1> QED BY <1>3, <1>4 DEF Memories

LEMMA ImageLasts ==
    ASSUME ImageInv, words' = words, image' = image, harm' = harm \/ image = NoImage
    PROVE  ImageInv'
  <1>1. Expected' = Expected
    BY SameProgram
  <1>2. NoImage.ok = FALSE
    BY DEF NoImage
  <1> QED BY <1>1, <1>2, SMT DEF ImageInv

LEMMA ImageTaken ==
    ASSUME WordsOK, words' = words, image' = NoImage \/ image' = Image(Expected)
    PROVE  ImageInv'
  <1>1. Expected' = Expected
    BY SameProgram
  <1>2. NoImage.ok = FALSE /\ DOMAIN NoImage.words = {} /\ Image(Expected).words = Expected
    BY DEF NoImage, Image
  <1>3. \A w \in DOMAIN Expected : Expected[w] \in Bits32
    BY ExpectedIs
  <1> QED BY <1>1, <1>2, <1>3, Zenon DEF ImageInv

LEMMA TakeEnds ==
    ASSUME NEW img, Take(img)
    PROVE  image' = img /\ stage' \in {"loaded", "refused"}
  BY DEF Take

(* The initial states.                                                       *)
LEMMA InitInv == Init => Inv
  <1> SUFFICES ASSUME Init PROVE Inv
    OBVIOUS
  <1>1. ProgramInv
    BY DEF Init, ProgramInv
  <1>2. StageInv
    BY DEF Init, StageInv, Before, After, Careful
  <1>3. HartInv
    <2> DEFINE regs == [r \in 0..31 |-> Zero]
               mem == [c \in {} |-> Zero]
    <2>1. regs \in [0..31 -> Bits32] /\ regs[0] = Zero /\ Zero \in Bits32
      BY Constants
    <2>2. mem \in Memories
      <3>1. mem \in [{} -> Bits32]
        OBVIOUS
      <3> HIDE DEF mem
      <3> QED BY <3>1, Zenon DEF Memories
    <2>3. hart = [pc |-> Zero, regs |-> regs, mem |-> mem, led |-> 0, broke |-> FALSE] /\ faults = 0
      BY Zenon DEF Init
    <2> HIDE DEF regs, mem
    <2>4. HartOK(hart)
      BY <2>1, <2>2, <2>3 DEF HartOK, Harts
    <2> QED BY <2>3, <2>4, ImageAssumption DEF HartInv
  <1>4. FileInv
    <2>1. stage = "build" /\ disk = Absent /\ rest = <<>> /\ loader = Fresh
      BY DEF Init
    <2>2. stage # "parse"
      BY <2>1
    <2> QED BY <2>1, <2>2, FileNone, Zenon DEF FileInv
  <1>5. ImageInv
    <2>1. image = NoImage /\ NoImage.ok = FALSE /\ DOMAIN NoImage.words = {}
      BY DEF Init, NoImage
    <2> QED BY <2>1, Zenon DEF ImageInv
  <1> QED BY <1>1, <1>2, <1>3, <1>4, <1>5 DEF Inv

LEMMA BuildInv == Inv /\ Build => Inv'
  <1> SUFFICES ASSUME Inv, Build PROVE Inv'
    OBVIOUS
  <1>1. /\ stage = "build" /\ stage' = job.via /\ job' = job /\ disk' = disk /\ rest' = rest /\ loader' = loader
        /\ harm' = harm /\ image' = image /\ hart' = hart /\ faults' = faults
        /\ words' = [k \in 1..Len(Program.code) |-> Encoded(Program.code[k])]
    BY Zenon DEF Build
  <1>2. stage' \in {"direct", "bin", "hex"} /\ job \in Jobs
    BY <1>1, ImageAssumption, SMT DEF Inv, ProgramInv
  <1>3. ProgramInv'
    <2>1. Program' = Program
      BY <1>1, Zenon DEF Program, Sweep
    <2>2. stage' # "build"
      BY <1>2
    <2> QED BY <1>1, <1>2, <2>1, <2>2, SMT DEF ProgramInv
  <1>4. disk = Absent /\ rest = <<>> /\ loader = Fresh /\ image = NoImage /\ harm \in {"none", "cut"}
    BY <1>1 DEF Inv, StageInv, Before, After
  <1>5. StageInv'
    BY <1>1, <1>2, <1>4 DEF StageInv, Before, After, Careful
  <1>6. HartInv'
    BY <1>1, HartLasts DEF Inv
  <1>7. FileInv'
    <2>1. /\ stage' # "parse" /\ disk' = Absent /\ rest' = <<>> /\ loader' = Fresh
      BY <1>1, <1>2, <1>4
    <2>2. /\ Absent.lines = <<>> /\ Absent.there = FALSE
      BY DEF Absent
    <2>3. /\ Fresh \in Loaders /\ DOMAIN Fresh.memory = {} /\ Fresh.extended = 0 /\ Fresh.state # "parsed"
      BY FreshIsLoader
    <2>4. \A X : <<>> \in Seq(X)
      OBVIOUS
    <2> QED BY <2>1, <2>2, <2>3, <2>4, SMT DEF FileInv, FileOK, Partial
  <1>8. ImageInv'
    <2>1. image' = NoImage /\ NoImage.ok = FALSE /\ DOMAIN NoImage.words = {}
      BY <1>1, <1>4 DEF NoImage
    <2> QED BY <2>1, Zenon DEF ImageInv
  <1> QED BY <1>3, <1>5, <1>6, <1>7, <1>8 DEF Inv

(* A program arrives in one of three ways.                                   *)
LEMMA LoadedInv ==
    ASSUME Inv, stage \in {"direct", "bin", "align"}, stage' \in {"loaded", "refused"},
           job' = job, words' = words, disk' = disk, rest' = rest, loader' = loader, harm' = harm,
           hart' = hart, faults' = faults,
           image' = NoImage \/ image' = Image(Expected) \/ ImageInv'
    PROVE  Inv'
  <1>1. ProgramInv /\ StageInv /\ HartInv /\ FileInv /\ WordsOK
    BY InvWordsOK DEF Inv
  <1>2. ProgramInv'
    BY <1>1, ProgramLasts
  <1>3. StageInv'
    BY <1>1, SMT DEF StageInv, Before, After
  <1>4. HartInv'
    BY <1>1, HartLasts
  <1>5. FileInv'
    <2>1. FileOK(stage', disk', rest', loader', harm')
      <3>1. FileOK(stage, disk, rest, loader, harm) /\ stage' \notin {"hex", "parse"}
        BY <1>1 DEF FileInv
      <3>2. FileOK(stage', disk, rest, loader, harm)
        BY <3>1, FileQuiet, Zenon
      <3> QED BY <3>2
    <2> QED BY <2>1, FilePrimed
  <1>6. ImageInv'
    BY <1>1, ImageTaken
  <1> QED BY <1>2, <1>3, <1>4, <1>5, <1>6 DEF Inv

LEMMA DirectInv == Inv /\ Direct => Inv'
  <1> SUFFICES ASSUME Inv, Direct PROVE Inv'
    OBVIOUS
  <1>1. /\ stage = "direct" /\ Take(Image(Expected)) /\ job' = job /\ words' = words /\ disk' = disk /\ rest' = rest
        /\ loader' = loader /\ harm' = harm /\ hart' = hart /\ faults' = faults
    BY Zenon DEF Direct
  <1>2. image' = Image(Expected) /\ stage' \in {"loaded", "refused"}
    BY <1>1, TakeEnds
  <1>3. ProgramInv /\ StageInv /\ HartInv /\ FileInv /\ WordsOK
    BY InvWordsOK DEF Inv
  <1> QED BY <1>1, <1>2, <1>3, LoadedInv

LEMMA LoadBinInv == Inv /\ LoadBin => Inv'
  <1> SUFFICES ASSUME Inv, LoadBin PROVE Inv'
    OBVIOUS
  <1>1. PICK bytes \in Binaries : Take(load_bin(bytes))
    BY Zenon DEF LoadBin
  <1>2. /\ stage = "bin" /\ job' = job /\ words' = words /\ disk' = disk /\ rest' = rest
        /\ loader' = loader /\ harm' = harm /\ hart' = hart /\ faults' = faults
    BY Zenon DEF LoadBin
  <1>3. image' = load_bin(bytes) /\ stage' \in {"loaded", "refused"}
    BY <1>1, TakeEnds
  <1>4. ProgramInv /\ StageInv /\ HartInv /\ FileInv /\ WordsOK
    BY InvWordsOK DEF Inv
  <1>5. image' = NoImage \/ image' = Image(Expected)
    BY <1>3, <1>4, BinaryArrives
  <1> QED BY <1>2, <1>3, <1>4, <1>5, LoadedInv

LEMMA AlignInv == Inv /\ Align => Inv'
  <1> SUFFICES ASSUME Inv, Align PROVE Inv'
    OBVIOUS
  <1> DEFINE m == loader.memory
             img == get_word_aligned_data(m)
  <1>1. /\ stage = "align" /\ Take(img) /\ job' = job /\ words' = words /\ disk' = disk /\ rest' = rest
        /\ loader' = loader /\ harm' = harm /\ hart' = hart /\ faults' = faults
    BY Zenon DEF Align
  <1>2. image' = img /\ stage' \in {"loaded", "refused"}
    BY <1>1, TakeEnds
  <1>3. /\ WordsOK /\ loader.state = "parsed" /\ FileOK(stage, disk, rest, loader, harm)
        /\ harm \in Careful \cup {"cut", "lost", "count"}
    BY <1>1, InvWordsOK, SMT DEF Inv, StageInv, FileInv
  <1>4. CASE harm \in Careful
    <2>1. DOMAIN m = 0..(Len(Bytes) - 1) /\ Partial(loader)
      <3>1. harm # "count"
        BY <1>4 DEF Careful
      <3> QED BY <1>3, <1>4, <3>1, Zenon DEF FileOK
    <2>2. \A a \in 0..(Len(Bytes) - 1) : m[a] = Bytes[a + 1]
      BY <2>1, Zenon DEF Partial
    <2> HIDE DEF m
    <2>3. img \in {NoImage, Image(Expected)}
      BY <1>3, <2>1, <2>2, MemoryArrives, Zenon
    <2> QED BY <1>1, <1>2, <2>3, LoadedInv
  <1>5. CASE harm \notin Careful
    <2>1. m \in Translated
      BY <1>3, LoaderChanged DEF FileOK
    <2>2. \A w \in DOMAIN img.words : img.words[w] \in Bits32
      <3>1. \A a \in DOMAIN m : m[a] \in Int
        BY <2>1, OfTranslated
      <3> QED BY <3>1, MemoryWords, Zenon
    <2> HIDE DEF img
    <2>3. ImageInv'
      BY <1>1, <1>2, <1>5, <2>2 DEF ImageInv
    <2> QED BY <1>1, <1>2, <2>3, LoadedInv
  <1> QED BY <1>4, <1>5

(* The steps that touch nothing but the hart.                                *)
LEMMA RunInv ==
    ASSUME Inv, stage \in {"loaded", "run"}, stage' = "run", HartInv',
           job' = job, words' = words, disk' = disk, rest' = rest, loader' = loader, harm' = harm, image' = image
    PROVE  Inv'
  <1>1. ProgramInv /\ StageInv /\ FileInv /\ ImageInv
    BY DEF Inv
  <1>2. ProgramInv'
    BY <1>1, ProgramLasts
  <1>3. StageInv'
    BY <1>1, SMT DEF StageInv, Before, After
  <1>4. FileInv'
    <2>1. FileOK(stage', disk', rest', loader', harm')
      <3>1. FileOK(stage, disk, rest, loader, harm) /\ stage' \notin {"hex", "parse"}
        BY <1>1 DEF FileInv
      <3>2. FileOK(stage', disk, rest, loader, harm)
        BY <3>1, FileQuiet, Zenon
      <3> QED BY <3>2
    <2> QED BY <2>1, FilePrimed
  <1>5. ImageInv'
    BY <1>1, ImageLasts
  <1> QED BY <1>2, <1>3, <1>4, <1>5 DEF Inv

LEMMA EitherOrder ==
    ASSUME NEW P, NEW RR, NEW M, NEW L, NEW h \in [pc : P, regs : RR, mem : M, led : L, broke : BOOLEAN], NEW pc, NEW mem
    PROVE  [h EXCEPT !.mem = mem, !.pc = pc] = [h EXCEPT !.pc = pc, !.mem = mem]
  OBVIOUS

LEMMA StartInv == Inv /\ Start => Inv'
  <1> SUFFICES ASSUME Inv, Start PROVE Inv'
    OBVIOUS
  <1> DEFINE pc == [Zero EXCEPT ![32] = 1]
             mem == image.words
  <1>1. /\ stage = "loaded" /\ stage' = "run" /\ job' = job /\ words' = words /\ disk' = disk /\ rest' = rest
        /\ loader' = loader /\ harm' = harm /\ image' = image /\ faults' = faults
        /\ mem = Expected /\ hart' = [hart EXCEPT !.mem = mem, !.pc = pc]
    BY Zenon DEF Start
  <1>2. pc \in Bits32
    BY Constants DEF Bits32, Bit
  <1>3. mem \in Memories
    <2>1. WordsOK
      BY InvWordsOK DEF Inv
    <2> QED BY <1>1, <2>1, ExpectedIs
  <1> HIDE DEF pc, mem
  <1>4. HartOK(hart')
    <2>1. HartOK(hart)
      BY DEF Inv, HartInv
    <2>2. [hart EXCEPT !.mem = mem, !.pc = pc] = [hart EXCEPT !.pc = pc, !.mem = mem]
      BY <2>1, EitherOrder, Zenon DEF HartOK, Harts
    <2>3. 0 \in 0..15
      OBVIOUS
    <2> QED BY <1>1, <1>2, <1>3, <2>1, <2>2, <2>3, HartChanged, ZenonT(60)
  <1>5. HartInv'
    BY <1>1, <1>4 DEF Inv, HartInv, HartOK, Harts
  <1> QED BY <1>1, <1>5, RunInv

LEMMA StepInv == Inv /\ Step => Inv'
  <1> SUFFICES ASSUME Inv, Step PROVE Inv'
    OBVIOUS
  <1>1. /\ stage = "run" /\ stage' = stage /\ job' = job /\ words' = words /\ disk' = disk /\ rest' = rest
        /\ loader' = loader /\ harm' = harm /\ image' = image /\ faults' = faults /\ hart' = Executed(hart)
    BY Zenon DEF Step
  <1>2. HartOK(hart')
    BY <1>1, HartSteps DEF Inv, HartInv
  <1>3. HartInv'
    BY <1>1, <1>2 DEF Inv, HartInv, HartOK, Harts
  <1> QED BY <1>1, <1>3, RunInv

(* The steps between the file and its image: nothing is loaded yet.           *)
LEMMA FileMoves ==
    ASSUME Inv, stage \in {"hex", "parse"}, job' = job, words' = words, image' = image, hart' = hart,
           faults' = faults \/ Fault, StageInv', stage' # "build", FileOK(stage', disk', rest', loader', harm')
    PROVE  Inv'
  <1>1. ProgramInv /\ StageInv /\ HartInv /\ ImageInv /\ image = NoImage
    BY SMT DEF Inv, StageInv, After
  <1>2. ProgramInv'
    BY <1>1, ProgramLasts
  <1>3. HartInv'
    BY <1>1, HartLasts
  <1>4. FileInv'
    BY FilePrimed
  <1>5. ImageInv'
    BY <1>1, ImageLasts
  <1> QED BY <1>2, <1>3, <1>4, <1>5 DEF Inv

LEMMA FetchInv ==
    ASSUME NEW force, Inv, Fetch(force)
    PROVE  Inv'
  <1>1. /\ stage = "hex" /\ job' = job /\ words' = words /\ image' = image /\ hart' = hart
        /\ faults' = faults \/ Fault
        /\ IF validate_hex_file(disk') THEN stage' = "parse" /\ rest' = disk'.lines /\ loader' = Fresh
           ELSE stage' = stage /\ rest' = rest /\ loader' = loader
    BY Zenon DEF Fetch
  <1>2. \/ /\ disk' = download_hex_file(disk, force, [error |-> FALSE, lines |-> HexFile])
           /\ harm' = (IF disk.there /\ ~force THEN harm ELSE "none")
        \/ disk' = download_hex_file(disk, force, [error |-> TRUE, lines |-> <<>>]) /\ harm' = harm
        \/ disk' = download_hex_file(disk, force, [error |-> FALSE, lines |-> <<Junk>>]) /\ harm' = harm
    BY Zenon DEF Fetch
  <1>3. /\ WordsOK /\ loader = Fresh /\ rest = <<>> /\ harm \in {"none", "cut"} /\ image = NoImage
        /\ FileOK(stage, disk, rest, loader, harm)
    BY <1>1, InvWordsOK, SMT DEF Inv, StageInv, Before, After, FileInv
  <1>4. /\ harm' \in {"none", "cut"} /\ FileOK("hex", disk', <<>>, Fresh, harm')
        /\ validate_hex_file(disk') => FileOK("parse", disk', disk'.lines, Fresh, harm')
    BY <1>1, <1>2, <1>3, FileFetched, Zenon
  <1>5. FileOK(stage', disk', rest', loader', harm')
    BY <1>1, <1>3, <1>4, Zenon
  <1>6. StageInv' /\ stage' # "build"
    BY <1>1, <1>3, <1>4, FreshIsLoader, SMT DEF StageInv, Before, After, Careful
  <1> QED BY <1>1, <1>5, <1>6, FileMoves

LEMMA FetchCutInv ==
    ASSUME NEW force, Inv, FetchCut(force)
    PROVE  Inv'
  <1>1. /\ stage = "hex" /\ stage' = stage /\ job' = job /\ words' = words /\ image' = image /\ hart' = hart
        /\ Fault /\ rest' = rest /\ loader' = loader /\ harm' = "cut"
    BY Zenon DEF FetchCut
  <1>2. PICK n \in 0..(Len(HexFile) - 1), whole \in BOOLEAN :
          LET next == HexFile[n + 1]
              stub == IF whole \/ next.kind = "blank" THEN <<>>
                      ELSE <<Record(SubSeq(next.bytes, 1, Len(next.bytes) - 1))>>
          IN disk' = File(SubSeq(HexFile, 1, n) \o stub)
    BY Zenon DEF FetchCut
  <1> DEFINE next == HexFile[n + 1]
             stub == IF whole \/ next.kind = "blank" THEN <<>>
                     ELSE <<Record(SubSeq(next.bytes, 1, Len(next.bytes) - 1))>>
             lines == SubSeq(HexFile, 1, n) \o stub
  <1>3. /\ WordsOK /\ loader = Fresh /\ rest = <<>> /\ image = NoImage
    BY <1>1, InvWordsOK, SMT DEF Inv, StageInv, Before, After
  <1>4. disk' = File(lines)
    BY <1>2, Zenon
  <1>5. lines \in Seq(FileLines)
    <2>1. stub = <<>> \/ /\ HexFile[n + 1].kind # "blank"
                         /\ stub = <<Record(SubSeq(HexFile[n + 1].bytes, 1, Len(HexFile[n + 1].bytes) - 1))>>
      OBVIOUS
    <2> HIDE DEF stub
    <2> QED BY <1>3, <2>1, FileCut, Zenon
  <1> HIDE DEF lines
  <1>6. FileOK(stage', disk', rest', loader', harm')
    <2>1. disk'.lines \in Seq(FileLines)
      BY <1>4, <1>5 DEF File
    <2>2. \A X : <<>> \in Seq(X)
      OBVIOUS
    <2>3. stage' = "hex" /\ harm' = "cut" /\ "hex" # "parse" /\ "cut" # "none" /\ "cut" \notin Careful
      BY <1>1 DEF Careful
    <2>4. rest' = <<>> /\ loader' = Fresh
      BY <1>1, <1>3
    <2> QED BY <2>1, <2>2, <2>3, <2>4, FreshIsLoader, FreshIsPartial, Zenon DEF FileOK
  <1>7. StageInv' /\ stage' # "build"
    BY <1>1, <1>3, SMT DEF StageInv, Before, After, Careful
  <1> QED BY <1>1, <1>6, <1>7, FileMoves

LEMMA SpoilInv == Inv /\ Spoil => Inv'
  <1> SUFFICES ASSUME Inv, Spoil PROVE Inv'
    OBVIOUS
  <1>1. /\ stage = "parse" /\ rest = disk.lines /\ loader = Fresh /\ harm = "none" /\ Fault
        /\ stage' = stage /\ job' = job /\ words' = words /\ image' = image /\ hart' = hart
        /\ disk' = disk /\ loader' = loader
    BY Zenon DEF Spoil, Unread
  <1>2. /\ WordsOK /\ image = NoImage /\ FileOK(stage, disk, rest, loader, harm)
    BY <1>1, InvWordsOK, SMT DEF Inv, StageInv, FileInv, After
  <1>3. rest = HexFile /\ disk.lines \in Seq(FileLines)
    BY <1>1, <1>2, Zenon DEF FileOK
  <1>4. PICK n \in 1..Len(rest) :
          \/ /\ rest[n].kind = "record"
             /\ \E k \in 1..Len(rest[n].bytes), c \in Changes :
                  /\ rest' = [rest EXCEPT ![n].bytes[k] = (@ + c) % 256]
                  /\ harm' = (IF k = 1 THEN "count" ELSE "byte")
          \/ rest' = SubSeq(rest, 1, n - 1) \o SubSeq(rest, n + 1, Len(rest)) /\ harm' = "lost"
          \/ /\ n < Len(rest) /\ IsData(rest[n]) /\ IsData(rest[n + 1]) /\ harm' = "swapped"
             /\ rest' = [rest EXCEPT ![n] = rest[n + 1], ![n + 1] = rest[n]]
    BY Zenon DEF Spoil
  <1>5. FileLines \subseteq HexLine
    BY <1>2, GoodIsLine DEF FileLines
  <1>6. /\ harm' \in {"count", "byte", "lost", "swapped"} /\ rest' \in Seq(HexLine)
        /\ harm' # "count" => rest' \in Seq(FileLines)
        /\ harm' \in Careful => EndsLast(rest') /\ \A m : Kept(rest', m)
    <2>1. CASE /\ rest[n].kind = "record"
               /\ \E k \in 1..Len(rest[n].bytes), c \in Changes :
                    /\ rest' = [rest EXCEPT ![n].bytes[k] = (@ + c) % 256]
                    /\ harm' = (IF k = 1 THEN "count" ELSE "byte")
      <3>1. PICK k \in 1..Len(rest[n].bytes), c \in Changes :
              /\ rest' = [rest EXCEPT ![n].bytes[k] = (@ + c) % 256]
              /\ harm' = (IF k = 1 THEN "count" ELSE "byte")
        BY <2>1, Zenon
      <3>2. c \in Int
        BY ImageAssumption
      <3>3. /\ rest' \in Seq(HexLine)
            /\ k # 1 => rest' \in Seq(FileLines) /\ EndsLast(rest') /\ \A m : Kept(rest', m)
        <4> DEFINE r == Spoilt(HexFile, n, k, c)
        <4>1. /\ n \in 1..Len(HexFile) /\ HexFile[n].kind = "record" /\ k \in 1..Len(HexFile[n].bytes)
          BY <1>3, <2>1, Zenon
        <4>2. rest' = r
          BY <1>3, <3>1 DEF Spoilt
        <4>3. /\ r \in Seq(HexLine)
              /\ k # 1 => r \in Seq(FileLines) /\ EndsLast(r) /\ \A m : Kept(r, m)
          BY <1>2, <3>2, <4>1, FileSpoilt, Zenon
        <4> HIDE DEF r
        <4> QED BY <4>2, <4>3, Zenon
      <3>4. harm' \in {"count", "byte"} /\ (harm' # "count" => k # 1) /\ (harm' \in Careful => k # 1)
        BY <3>1 DEF Careful
      <3> QED BY <3>3, <3>4, Zenon
    <2>2. CASE rest' = SubSeq(rest, 1, n - 1) \o SubSeq(rest, n + 1, Len(rest)) /\ harm' = "lost"
      <3> DEFINE r == SubSeq(rest, 1, n - 1) \o SubSeq(rest, n + 1, Len(rest))
      <3>1. rest' \in Seq(FileLines)
        <4>1. r \in Seq(FileLines)
          BY <1>1, <1>3, FileLost
        <4> HIDE DEF r
        <4> QED BY <2>2, <4>1 DEF r
      <3>2. rest' \in Seq(HexLine)
        BY <1>5, <3>1, Widened, Zenon
      <3>3. harm' \notin Careful
        BY <2>2 DEF Careful
      <3> QED BY <2>2, <3>1, <3>2, <3>3
    <2>3. CASE /\ n < Len(rest) /\ IsData(rest[n]) /\ IsData(rest[n + 1]) /\ harm' = "swapped"
               /\ rest' = [rest EXCEPT ![n] = rest[n + 1], ![n + 1] = rest[n]]
      <3> DEFINE r == [HexFile EXCEPT ![n] = HexFile[n + 1], ![n + 1] = HexFile[n]]
      <3>1. n \in 1..Len(HexFile) /\ n < Len(HexFile) /\ IsData(HexFile[n]) /\ IsData(HexFile[n + 1])
        BY <1>3, <2>3, Zenon
      <3>2. r \in Seq(FileLines) /\ r \in Seq(HexLine) /\ EndsLast(r) /\ \A m : Kept(r, m)
        BY <1>2, <3>1, FileSwapped, Zenon
      <3>3. rest' = r
        BY <1>3, <2>3
      <3> HIDE DEF r
      <3> QED BY <2>3, <3>2, <3>3, Zenon
    <2> QED BY <1>4, <2>1, <2>2, <2>3, Zenon
  <1>7. FileOK(stage', disk', rest', loader', harm')
    <2>1. stage' = "parse" /\ "parse" # "hex" /\ loader' = Fresh /\ disk' = disk /\ harm' # "none"
      BY <1>1, <1>6
    <2> QED BY <1>3, <1>6, <2>1, FreshIsLoader, FreshIsPartial, Zenon DEF FileOK
  <1>8. StageInv' /\ stage' # "build"
    BY <1>1, <1>2, <1>6, FreshIsLoader, SMT DEF StageInv, Before, After, Careful
  <1> QED BY <1>1, <1>7, <1>8, FileMoves

LEMMA ParseLineInv == Inv /\ ParseLine => Inv'
  <1> SUFFICES ASSUME Inv, ParseLine PROVE Inv'
    OBVIOUS
  <1> DEFINE k == parse_hex(loader, rest)
             t == IF rest = <<>> THEN <<>> ELSE Tail(rest)
  <1>1. /\ stage = "parse" /\ loader' = k /\ rest' = t
        /\ stage' = CASE loader'.state = "parsing" -> "parse"
                       [] loader'.state = "parsed"  -> "align"
                       [] loader'.state = Refused   -> "refused"
        /\ job' = job /\ words' = words /\ disk' = disk /\ harm' = harm /\ image' = image /\ hart' = hart
        /\ faults' = faults
    BY Zenon DEF ParseLine
  <1>2. /\ WordsOK /\ image = NoImage /\ FileOK(stage, disk, rest, loader, harm) /\ loader.state = "parsing"
        /\ harm \in Careful \cup {"cut", "lost", "count"}
    BY <1>1, InvWordsOK, SMT DEF Inv, StageInv, FileInv, After
  <1>3. /\ loader \in Loaders /\ rest \in Seq(HexLine) /\ disk.lines \in Seq(FileLines)
        /\ harm = "none" => disk.lines = HexFile
    BY <1>1, <1>2, Zenon DEF FileOK
  <1>4. k \in Loaders /\ t \in Seq(HexLine)
    <2>1. CASE rest = <<>>
      <3>1. k = [loader EXCEPT !.state = "parsed"] /\ t = <<>>
        BY <2>1, Zenon DEF parse_hex
      <3>2. [loader EXCEPT !.state = "parsed"] \in Loaders
        BY <1>3, LoaderChanged
      <3>3. <<>> \in Seq(HexLine)
        OBVIOUS
      <3> HIDE DEF k, t
      <3> QED BY <3>1, <3>2, <3>3, Zenon
    <2>2. CASE rest # <<>>
      <3>1. k = Parsed(loader, rest[1]) /\ t = Tail(rest)
        BY <2>2, Zenon DEF parse_hex
      <3>2. rest[1] \in HexLine /\ Tail(rest) \in Seq(HexLine)
        BY <1>3, <2>2, Chopped
      <3> HIDE DEF k, t
      <3> QED BY <1>3, <3>1, <3>2, AnyParsed, Zenon
    <2> QED BY <2>1, <2>2
  <1>5. harm # "count" => t \in Seq(FileLines) /\ Partial(k)
    <2>1. harm # "count" => rest \in Seq(FileLines) /\ Partial(loader)
      BY <1>2, Zenon DEF FileOK
    <2> QED BY <1>2, <1>3, <2>1, LineTaken, Zenon
  <1>6. harm \in Careful => /\ k.state = "parsing" => EndsLast(t) /\ Kept(t, k.memory)
                            /\ k.state = "parsed" => DOMAIN k.memory = 0..(Len(Bytes) - 1)
    <2>1. harm \in Careful => harm # "count"
      BY DEF Careful
    <2>2. harm \in Careful => /\ rest \in Seq(FileLines) /\ Partial(loader)
                              /\ EndsLast(rest) /\ Kept(rest, loader.memory)
      BY <1>1, <1>2, <2>1, Zenon DEF FileOK
    <2> QED BY <1>2, <1>3, <2>2, LineTaken, Zenon
  <1>7. Refused # "parsing" /\ Refused # "parsed"
    BY DEF Refused
  <1>8. k.state \in {"parsing", "parsed", Refused}
    BY <1>4, LoaderChanged, Zenon
  <1> HIDE DEF k, t
  <1>9. /\ stage' \in {"parse", "align", "refused"} /\ (stage' = "parse" => k.state = "parsing")
        /\ (stage' = "align" => k.state = "parsed")
    BY <1>1, <1>7, <1>8
  <1>10. FileOK(stage', disk', rest', loader', harm')
    <2>1. stage' # "hex"
      BY <1>9
    <2> QED BY <1>1, <1>3, <1>4, <1>5, <1>6, <1>9, <2>1, Zenon DEF FileOK
  <1>11. StageInv' /\ stage' # "build"
    <2>1. /\ image' = NoImage /\ harm' = harm /\ harm \in Careful \cup {"cut", "lost", "count"} /\ loader' = k
      BY <1>1, <1>2
    <2> QED BY <1>9, <2>1 DEF StageInv, Before, After
  <1> QED BY <1>1, <1>10, <1>11, FileMoves

LEMMA StutterInv == Inv /\ UNCHANGED vars => Inv'
  <1> SUFFICES ASSUME Inv, UNCHANGED vars PROVE Inv'
    OBVIOUS
  <1>1. /\ job' = job /\ stage' = stage /\ words' = words /\ disk' = disk /\ rest' = rest /\ loader' = loader
        /\ harm' = harm /\ image' = image /\ hart' = hart /\ faults' = faults
    BY DEF vars
  <1>2. ProgramInv'
    <2>1. Program' = Program
      BY <1>1, Zenon DEF Program, Sweep
    <2> QED BY <1>1, <2>1, SMT DEF Inv, ProgramInv
  <1>3. StageInv'
    BY <1>1, SMT DEF Inv, StageInv
  <1>4. HartInv'
    BY <1>1, HartLasts DEF Inv
  <1>5. FileInv'
    <2>1. FileOK(stage', disk', rest', loader', harm')
      BY <1>1, SMT DEF Inv, FileInv
    <2> QED BY <1>1, <2>1, FilePrimed
  <1>6. ImageInv'
    BY <1>1, ImageLasts DEF Inv
  <1> QED BY <1>2, <1>3, <1>4, <1>5, <1>6 DEF Inv

LEMMA NextInv == Inv /\ [Next]_vars => Inv'
  BY BuildInv, DirectInv, LoadBinInv, FetchInv, FetchCutInv, SpoilInv, ParseLineInv, AlignInv, StartInv, StepInv,
     StutterInv, Zenon DEF Next

(* What the invariant says about what is loaded and about what is encoded.    *)
LEMMA InvTypes == Inv => ImageTypeOK
  <1> SUFFICES ASSUME Inv PROVE ImageTypeOK
    OBVIOUS
  <1>1. \A k \in DOMAIN words : words[k] \in Bits32
    <2>1. words \in Seq(Bits32)
      BY InvWordsOK DEF Inv, WordsOK
    <2> QED BY <2>1
  <1>2. \A w \in DOMAIN image.words : image.words[w] \in Bits32
    BY DEF Inv, ImageInv
  <1>3. hart.regs[0] = Zero /\ hart.led \in 0..15 /\ faults \in 0..MaxFaults
    BY DEF Inv, HartInv, HartOK, Harts
  <1> QED BY <1>1, <1>2, <1>3, Zenon DEF ImageTypeOK, Bits32, Bit

LEMMA InvIntact == Inv => LoadedImageIsIntact
  <1> SUFFICES ASSUME Inv PROVE LoadedImageIsIntact
    OBVIOUS
  <1>1. /\ harm \in Careful \cup {"cut", "lost", "count"} /\ ImageInv
        /\ FileOK(stage, disk, rest, loader, harm)
    BY DEF Inv, StageInv, FileInv
  <1>2. image.ok /\ harm \notin {"lost", "cut", "count"} => image.words = Expected
    BY <1>1, SMT DEF ImageInv
  <1>3. harm # "count" => Partial(loader)
    BY <1>1, Zenon DEF FileOK
  <1> QED BY <1>2, <1>3, Zenon DEF LoadedImageIsIntact, Partial

LEMMA InvDecoded == Inv => EncodingIsDecoded
  <1> SUFFICES ASSUME Inv PROVE EncodingIsDecoded
    OBVIOUS
  <1>1. CASE stage = "build"
    <2>1. words = <<>>
      BY <1>1, SMT DEF Inv, ProgramInv
    <2>2. \A k \in DOMAIN words : FALSE
      BY <2>1
    <2> QED BY <2>2, Zenon DEF EncodingIsDecoded
  <1>2. CASE stage # "build"
    <2> DEFINE code == Program.code
               n == Len(code)
    <2>1. words = [k \in 1..n |-> Encoded(code[k])] /\ job \in Jobs
      BY <1>2, SMT DEF Inv, ProgramInv
    <2>2. code \in Seq(Line)
      BY <2>1, ProgramIsCode, SMT DEF Code
    <2> HIDE DEF code
    <2>3. \A k \in DOMAIN words : code[k] \in Line /\ words[k] = Encoded(code[k])
      BY <2>1, <2>2
    <2>4. \A k \in DOMAIN words : code[k].op # "FENCE" => Meant(code[k])
      BY <2>3, LinesAreMeant, Zenon
    <2>5. \A k \in DOMAIN words :
            code[k].op # "FENCE" => /\ Decoded(words[k]) = {code[k].op}
                                    /\ code[k].op \notin DOMAIN System => OperandsKept(code[k], words[k])
      BY <2>3, <2>4, Zenon DEF Meant
    <2> QED BY <2>5, Zenon DEF EncodingIsDecoded, code
  <1> QED BY <1>1, <1>2

LEMMA SpecInv == Spec => []Inv
  BY InitInv, NextInv, PTL DEF Spec

(* Every word the encoder makes and every word of an image is 32 bits,       *)
(* whatever was done to the file it came in; x0 of the hart stays 0, and     *)
(* the LEDs stay four (rv32i_encoder.py, vexriscv_hex_loader.py).            *)
THEOREM ImageTypes == Spec => []ImageTypeOK
  BY SpecInv, InvTypes, PTL

(* The decode table takes every word rv32i_encoder.py makes for the           *)
(* instruction that was meant, and for no other, and reads its operands       *)
(* back, those out of range wrapped to their field.                           *)
THEOREM WordsDecodeAsMeant == Spec => []EncodingIsDecoded
  BY SpecInv, InvDecoded, PTL

(* An image that load_bin or get_word_aligned_data accepts is the program     *)
(* that was built, unless the file was cut, lost a line or had a byte count   *)
(* changed; and every byte parse_hex loaded is the program's at its address,  *)
(* unless a byte count was.                                                   *)
THEOREM ImagesArriveIntact == Spec => []LoadedImageIsIntact
  BY SpecInv, InvIntact, PTL

-----------------------------------------------------------------------------
(* Bits put together are numbers added up, and the number tells the bits.    *)
LEMMA PowersAdd ==
    ASSUME NEW m \in 0..31, NEW k \in Nat, m + k <= 31
    PROVE  2^(m + k) = 2^m * 2^k
  <1> DEFINE X == {j \in Nat : m + j <= 31 => 2^(m + j) = 2^m * 2^j}
             p == 2^m
  <1>1. p \in Nat
    BY Weights, Zenon
  <1>2. 0 \in X
    <2>1. m + 0 = m /\ 2^0 = 1
      OBVIOUS
    <2>2. 2^(m + 0) = p
      BY <2>1, Zenon
    <2> HIDE DEF p
    <2>3. p = p * 1
      BY <1>1
    <2>4. 2^m * 2^0 = p * 1
      BY <2>1, Zenon DEF p
    <2> QED BY <2>2, <2>3, <2>4, Zenon
  <1>3. ASSUME NEW j \in Nat, j \in X PROVE j + 1 \in X
    <2> SUFFICES ASSUME m + (j + 1) <= 31 PROVE 2^(m + (j + 1)) = 2^m * 2^(j + 1)
      OBVIOUS
    <2> DEFINE q == 2^j
               r == 2^(m + j)
    <2>1. j \in 0..30 /\ j \in 0..31 /\ m + j \in 0..30 /\ m + (j + 1) = (m + j) + 1 /\ m + j <= 31
      OBVIOUS
    <2>2. 2^(j + 1) = 2 * q /\ 2^((m + j) + 1) = 2 * r /\ q \in Nat
      BY <2>1, Doubling, Weights, Zenon
    <2>3. r = p * q
      BY <1>3, <2>1
    <2> HIDE DEF p, q, r
    <2>4. 2 * r = p * (2 * q)
      BY <1>1, <2>2, <2>3
    <2> QED BY <2>1, <2>2, <2>4, Zenon DEF p
  <1> HIDE DEF X
  <1>4. Nat \subseteq X
    BY <1>2, <1>3, Counting
  <1> QED BY <1>4 DEF X

LEMMA UIntJoin ==
    ASSUME NEW m \in 0..31, NEW n \in 0..31, m + n <= 32, NEW a \in BitSeq(m), NEW b \in BitSeq(n)
    PROVE  UInt(a \o b) = UInt(a) + 2^m * UInt(b)
  <1> DEFINE c == a \o b
             p == 2^m
  <1>1. /\ c \in BitSeq(m + n) /\ (\A k \in 1..m : c[k] = a[k]) /\ \A k \in 1..n : c[m + k] = b[k]
    <2>1. m \in Nat /\ n \in Nat
      OBVIOUS
    <2> QED BY <2>1, JoinBits, Zenon
  <1>2. p \in Nat
    BY Weights, Zenon
  <1> HIDE DEF c, p
  <1>3. PICK u \in [0..m -> Nat] :
             /\ UInt(a) = u[m] /\ u[0] = 0
             /\ \A k \in 1..m : u[k] = u[k - 1] + a[k] * 2^(k - 1)
    <2>1. m \in 0..32
      OBVIOUS
    <2> QED BY <2>1, UIntRuns
  <1>4. PICK v \in [0..n -> Nat] :
             /\ UInt(b) = v[n] /\ v[0] = 0
             /\ \A k \in 1..n : v[k] = v[k - 1] + b[k] * 2^(k - 1)
    <2>1. n \in 0..32
      OBVIOUS
    <2> QED BY <2>1, UIntRuns
  <1>5. PICK w \in [0..(m + n) -> Nat] :
             /\ UInt(c) = w[m + n] /\ w[0] = 0
             /\ \A k \in 1..(m + n) : w[k] = w[k - 1] + c[k] * 2^(k - 1)
    <2>1. m + n \in 0..32
      OBVIOUS
    <2> QED BY <1>1, <2>1, UIntRuns
  <1>6. w[m] = u[m]
    <2>1. \A k \in 1..m : w[k - 1] = u[k - 1] => w[k] = u[k]
      <3> TAKE k \in 1..m
      <3>1. k \in 1..(m + n)
        OBVIOUS
      <3> QED BY <1>1, <1>3, <1>5, <3>1, Zenon
    <2>2. InStep(m, w, u)
      BY <1>3, <1>5, <2>1, Zenon DEF InStep
    <2>3. m \in Nat /\ m \in 0..m
      OBVIOUS
    <2>4. \A k \in 0..m : w[k] = u[k]
      BY <2>2, <2>3, Alike
    <2> QED BY <2>3, <2>4, Zenon
  <1>7. w[m + n] = u[m] + p * v[n]
    <2> DEFINE x == [k \in 0..n |-> w[m + k]]
               y == [k \in 0..n |-> u[m] + p * v[k]]
    <2>1. x[0] = y[0]
      <3>1. 0 \in 0..n /\ m + 0 = m /\ u[m] \in Nat
        BY <1>3
      <3>2. x[0] = w[m + 0] /\ y[0] = u[m] + p * v[0]
        BY <3>1, Zenon
      <3>3. x[0] = w[m] /\ v[0] = 0
        BY <1>4, <3>1, <3>2, Zenon
      <3> HIDE DEF x, y
      <3> QED BY <1>2, <1>6, <3>1, <3>2, <3>3
    <2>2. ASSUME NEW k \in 1..n, x[k - 1] = y[k - 1] PROVE x[k] = y[k]
      <3> DEFINE j == k - 1
                 q == 2^j
      <3>1. j \in 0..n /\ k \in 0..n /\ k = j + 1 /\ m + k \in 1..(m + n) /\ (m + k) - 1 = m + j
            /\ j \in Nat /\ j \in 0..31 /\ m + j <= 31
        OBVIOUS
      <3>2. q \in Nat /\ 2^(m + j) = p * q
        BY <3>1, Weights, PowersAdd, Zenon DEF p
      <3>3. w[m + k] = w[m + j] + b[k] * (p * q)
        <4>1. w[m + k] = w[(m + k) - 1] + c[m + k] * 2^((m + k) - 1)
          BY <1>5, <3>1, Zenon
        <4> QED BY <1>1, <3>1, <3>2, <4>1, Zenon
      <3>4. v[k] = v[j] + b[k] * q
        BY <1>4, Zenon
      <3>5. w[m + j] = u[m] + p * v[j]
        <4>1. x[j] = w[m + j] /\ y[j] = u[m] + p * v[j]
          BY <3>1, Zenon
        <4> QED BY <2>2, <4>1, Zenon
      <3>6. b[k] \in {0, 1} /\ v[j] \in Nat /\ u[m] \in Nat
        <4>1. m \in 0..m
          OBVIOUS
        <4> QED BY <1>3, <1>4, <3>1, <4>1, Zenon DEF BitSeq, Bit
      <3>8. x[k] = w[m + k] /\ y[k] = u[m] + p * v[k]
        BY <3>1, Zenon
      <3> HIDE DEF j, q, x, y
      <3>7. w[m + k] = u[m] + p * v[k]
        <4>1. CASE b[k] = 0
          BY <1>2, <3>2, <3>3, <3>4, <3>5, <3>6, <4>1, SMTT(30)
        <4>2. CASE b[k] = 1
          <5>1. v[k] = v[j] + q /\ w[m + k] = (u[m] + p * v[j]) + p * q
            BY <1>2, <3>2, <3>3, <3>4, <3>5, <3>6, <4>2
          <5>2. p * (v[j] + q) = p * v[j] + p * q
            BY <1>2, <3>2, <3>6
          <5>3. p * v[k] = p * v[j] + p * q
            BY <5>1, <5>2, Zenon
          <5>4. (u[m] + p * v[j]) + p * q = u[m] + (p * v[j] + p * q)
            BY <1>2, <3>2, <3>6
          <5> QED BY <5>1, <5>3, <5>4, Zenon
        <4> QED BY <3>6, <4>1, <4>2
      <3> QED BY <3>7, <3>8, Zenon
    <2>3. InStep(n, x, y)
      <3> HIDE DEF x, y
      <3> QED BY <2>1, <2>2, Zenon DEF InStep
    <2>4. n \in Nat /\ n \in 0..n
      OBVIOUS
    <2>5. x[n] = y[n]
      <3> HIDE DEF x, y
      <3>1. \A k \in 0..n : x[k] = y[k]
        BY <2>3, <2>4, Alike
      <3> QED BY <2>4, <3>1, Zenon
    <2> QED BY <2>4, <2>5
  <1> QED BY <1>3, <1>4, <1>5, <1>7, Zenon DEF c, p

LEMMA SameNumber ==
    ASSUME NEW n \in 0..31, NEW a \in BitSeq(n), NEW b \in BitSeq(n), UInt(a) = UInt(b)
    PROVE  a = b
  <1>1. PICK u \in [0..n -> Nat] :
             /\ UInt(a) = u[n] /\ u[0] = 0
             /\ \A k \in 1..n : u[k] = u[k - 1] + a[k] * 2^(k - 1)
    <2>1. n \in 0..32
      OBVIOUS
    <2> QED BY <2>1, UIntRuns
  <1>2. PICK v \in [0..n -> Nat] :
             /\ UInt(b) = v[n] /\ v[0] = 0
             /\ \A k \in 1..n : v[k] = v[k - 1] + b[k] * 2^(k - 1)
    <2>1. n \in 0..32
      OBVIOUS
    <2> QED BY <2>1, UIntRuns
  <1>3. \A k \in 1..n : a[k] \in {0, 1} /\ b[k] \in {0, 1} /\ 2^(k - 1) \in Nat /\ u[k - 1] \in Nat /\ v[k - 1] \in Nat
    <2> TAKE k \in 1..n
    <2>1. k - 1 \in 0..31 /\ k - 1 \in 0..n
      OBVIOUS
    <2> QED BY <2>1, Weights, Zenon DEF BitSeq, Bit
  <1>4. \A k \in 0..n : u[k] <= 2^k - 1 /\ v[k] <= 2^k - 1
    <2> DEFINE X == {k \in Nat : k <= n => u[k] <= 2^k - 1 /\ v[k] <= 2^k - 1}
    <2>1. 0 \in X
      BY <1>1, <1>2
    <2>2. ASSUME NEW k \in Nat, k \in X PROVE k + 1 \in X
      <3> SUFFICES ASSUME k + 1 <= n PROVE u[k + 1] <= 2^(k + 1) - 1 /\ v[k + 1] <= 2^(k + 1) - 1
        OBVIOUS
      <3> DEFINE p == 2^k
      <3>1. k + 1 \in 1..n /\ (k + 1) - 1 = k /\ k \in 0..30
        OBVIOUS
      <3>2. 2^(k + 1) = 2 * p
        BY <3>1, Doubling, Zenon
      <3>3. /\ u[k + 1] = u[k] + a[k + 1] * p /\ v[k + 1] = v[k] + b[k + 1] * p
            /\ a[k + 1] \in {0, 1} /\ b[k + 1] \in {0, 1} /\ p \in Nat /\ u[k] \in Nat /\ v[k] \in Nat
        BY <1>1, <1>2, <1>3, <3>1
      <3>4. u[k] <= p - 1 /\ v[k] <= p - 1
        BY <2>2, <3>1
      <3> HIDE DEF p
      <3>5. a[k + 1] * p \in {0, p} /\ b[k + 1] * p \in {0, p}
        BY <3>3
      <3>6. u[k + 1] <= 2 * p - 1 /\ v[k + 1] <= 2 * p - 1
        <4> DEFINE x == a[k + 1] * p
                   y == b[k + 1] * p
        <4> HIDE DEF x, y
        <4>1. u[k + 1] = u[k] + x /\ v[k + 1] = v[k] + y /\ x \in {0, p} /\ y \in {0, p}
          BY <3>3, <3>5, Zenon DEF x, y
        <4> QED BY <3>3, <3>4, <4>1
      <3> QED BY <3>2, <3>6, Zenon
    <2> HIDE DEF X
    <2>3. Nat \subseteq X
      BY <2>1, <2>2, Counting
    <2> QED BY <2>3 DEF X
  <1>5. ASSUME NEW k \in 1..n, u[k] = v[k] PROVE a[k] = b[k] /\ u[k - 1] = v[k - 1]
    <2> DEFINE p == 2^(k - 1)
               x == u[k - 1]
               y == v[k - 1]
    <2>1. /\ x + a[k] * p = y + b[k] * p
          /\ a[k] \in {0, 1} /\ b[k] \in {0, 1} /\ p \in Nat /\ x \in Nat /\ y \in Nat
      BY <1>1, <1>2, <1>3, <1>5, Zenon
    <2>2. x <= p - 1 /\ y <= p - 1
      <3>1. k - 1 \in 0..n
        OBVIOUS
      <3> QED BY <1>4, <3>1, Zenon
    <2> HIDE DEF p, x, y
    <2>3. a[k] = b[k] /\ x = y
      <3>1. CASE a[k] = 0 /\ b[k] = 1
        BY <2>1, <2>2, <3>1
      <3>2. CASE a[k] = 1 /\ b[k] = 0
        BY <2>1, <2>2, <3>2
      <3>3. CASE a[k] = b[k]
        BY <2>1, <3>3
      <3> QED BY <2>1, <3>1, <3>2, <3>3
    <2> QED BY <2>3 DEF x, y
  <1>6. \A k \in 0..n : u[k] = v[k]
    <2> DEFINE X == {j \in Nat : j <= n => u[n - j] = v[n - j]}
    <2>1. 0 \in X
      <3>1. n - 0 = n
        OBVIOUS
      <3>2. u[n - 0] = v[n - 0]
        BY <1>1, <1>2, <3>1, Zenon
      <3> QED BY <3>2
    <2>2. ASSUME NEW j \in Nat, j \in X PROVE j + 1 \in X
      <3> SUFFICES ASSUME j + 1 <= n PROVE u[n - (j + 1)] = v[n - (j + 1)]
        OBVIOUS
      <3>1. n - j \in 1..n /\ (n - j) - 1 = n - (j + 1) /\ j <= n
        OBVIOUS
      <3> QED BY <1>5, <2>2, <3>1
    <2> HIDE DEF X
    <2>3. Nat \subseteq X
      BY <2>1, <2>2, Counting
    <2> TAKE k \in 0..n
    <2>4. n - k \in X /\ n - k <= n /\ n - (n - k) = k /\ n - k \in Nat
      BY <2>3
    <2>5. u[n - (n - k)] = v[n - (n - k)]
      BY <2>4, Zenon DEF X
    <2> QED BY <2>4, <2>5, Zenon
  <1>7. \A k \in 1..n : a[k] = b[k]
    BY <1>5, <1>6
  <1> QED BY <1>7, BitSeqEqual

-----------------------------------------------------------------------------
(* A part of a word cut in two: m bits from lo up to mid, then n from next up *)
(* to hi.                                                                    *)
Cut(w, lo, m, n, mid, next, hi) ==
    /\ Bits(w, mid, lo) \in BitSeq(m) /\ Bits(w, hi, next) \in BitSeq(n)
    /\ Bits(w, hi, lo) = Bits(w, mid, lo) \o Bits(w, hi, next)
    /\ UInt(Bits(w, hi, lo)) = UInt(Bits(w, mid, lo)) + 2^m * UInt(Bits(w, hi, next))
    /\ UInt(Bits(w, mid, lo)) \in Nat /\ UInt(Bits(w, hi, next)) \in Nat

LEMMA WordCut ==
    ASSUME NEW w \in Bits32, NEW lo, NEW m, NEW n, NEW mid, NEW next, NEW hi,
           lo \in 0..31, m \in 1..31, n \in 1..31, lo + m = next, mid + 1 = next, next + n = hi + 1,
           mid \in 0..31, next \in 0..31, hi \in 0..31
    PROVE  Cut(w, lo, m, n, mid, next, hi)
  <1> DEFINE a == Bits(w, mid, lo)
             b == Bits(w, hi, next)
             c == Bits(w, hi, lo)
  <1>1. m \in Nat /\ n \in Nat /\ m + n = hi - lo + 1 /\ m = mid - lo + 1 /\ n = hi - next + 1
        /\ mid \in lo..31 /\ hi \in next..31 /\ hi \in lo..31 /\ m + n \in Nat /\ m + n <= 32
    OBVIOUS
  <1>2. a \in BitSeq(m) /\ \A k \in 1..m : a[k] = w[lo + k]
    <2>1. a \in BitSeq(mid - lo + 1) /\ \A k \in 1..(mid - lo + 1) : a[k] = w[lo + k]
      BY <1>1, PartBits, Zenon
    <2> QED BY <1>1, <2>1, Zenon
  <1>3. b \in BitSeq(n) /\ \A k \in 1..n : b[k] = w[next + k]
    <2>1. b \in BitSeq(hi - next + 1) /\ \A k \in 1..(hi - next + 1) : b[k] = w[next + k]
      BY <1>1, PartBits, Zenon
    <2> QED BY <1>1, <2>1, Zenon
  <1>4. c \in BitSeq(m + n) /\ \A k \in 1..(m + n) : c[k] = w[lo + k]
    <2>1. c \in BitSeq(hi - lo + 1) /\ \A k \in 1..(hi - lo + 1) : c[k] = w[lo + k]
      BY <1>1, PartBits, Zenon
    <2> QED BY <1>1, <2>1, Zenon
  <1> DEFINE d == a \o b
  <1> HIDE DEF a, b, c, d
  <1>5. d \in BitSeq(m + n) /\ (\A k \in 1..m : d[k] = a[k]) /\ \A k \in 1..n : d[m + k] = b[k]
    <2>1. /\ a \o b \in BitSeq(m + n) /\ (\A k \in 1..m : (a \o b)[k] = a[k])
          /\ \A k \in 1..n : (a \o b)[m + k] = b[k]
      <3>1. m \in Nat /\ n \in Nat /\ a \in BitSeq(m) /\ b \in BitSeq(n)
        BY <1>1, <1>2, <1>3
      <3> QED BY <3>1, JoinBits
    <2> QED BY <2>1, Zenon DEF d
  <1>6. ASSUME NEW k \in 1..(m + n) PROVE c[k] = d[k]
    <2>1. CASE k <= m
      <3>1. k \in 1..m
        BY <1>1, <2>1
      <3> QED BY <1>2, <1>4, <1>5, <3>1, Zenon
    <2>2. CASE k > m
      <3> DEFINE j == k - m
      <3>1. j \in 1..n /\ m + j = k /\ lo + k = next + j
        BY <1>1, <2>2
      <3> HIDE DEF j
      <3>2. d[m + j] = b[j] /\ b[j] = w[next + j] /\ c[k] = w[lo + k]
        BY <1>3, <1>4, <1>5, <3>1, Zenon
      <3> QED BY <3>1, <3>2, Zenon
    <2> QED BY <1>1, <2>1, <2>2
  <1>7. c = d
    BY <1>1, <1>4, <1>5, <1>6, BitSeqEqual, ZenonT(60)
  <1>8. UInt(d) = UInt(a) + 2^m * UInt(b)
    <2>1. m \in 0..31 /\ n \in 0..31
      OBVIOUS
    <2> QED BY <1>1, <1>2, <1>3, <2>1, UIntJoin, ZenonT(60) DEF d
  <1>9. UInt(a) \in Nat /\ UInt(b) \in Nat
    <2>1. m \in 0..32 /\ n \in 0..32
      OBVIOUS
    <2> QED BY <1>2, <1>3, <2>1, UIntIsNat, Zenon
  <1> QED BY <1>2, <1>3, <1>7, <1>8, <1>9, Zenon DEF Cut, a, b, c, d

(* A word as two halves, which is what Plus works on, and as an address.     *)
LowHalf(w)  == UInt(Bits(w, 15, 0))
HighHalf(w) == UInt(Bits(w, 31, 16))
Worth(w)    == LowHalf(w) + 2^16 * HighHalf(w)

LEMMA Halved ==
    ASSUME NEW w \in Bits32
    PROVE  /\ Bits(w, 15, 0) \in BitSeq(16) /\ Bits(w, 31, 16) \in BitSeq(16)
           /\ w = Bits(w, 15, 0) \o Bits(w, 31, 16)
           /\ LowHalf(w) \in 0..(2^16 - 1) /\ HighHalf(w) \in 0..(2^16 - 1)
  <1>1. 0 \in 0..31 /\ 16 \in 1..31 /\ 15 \in 0..31 /\ 16 \in 0..31 /\ 31 \in 0..31
        /\ 0 + 16 = 16 /\ 15 + 1 = 16 /\ 16 + 16 = 31 + 1
    OBVIOUS
  <1>2. Cut(w, 0, 16, 16, 15, 16, 31)
    BY <1>1, WordCut, Zenon
  <1>3. Bits(w, 15, 0) \in BitSeq(16) /\ Bits(w, 31, 16) \in BitSeq(16)
        /\ Bits(w, 31, 0) = Bits(w, 15, 0) \o Bits(w, 31, 16)
    BY <1>2, Zenon DEF Cut
  <1>4. Bits(w, 31, 0) = w
    <2>1. w \in Seq(Bit) /\ Len(w) = 32
      <3>1. w \in BitSeq(32) /\ 32 \in Nat
        BY DEF BitSeq, Bits32
      <3> QED BY <3>1, BitSeqIsSeq
    <2>2. SubSeq(w, 1, 32) = w
      BY <2>1
    <2>3. 0 + 1 = 1 /\ 31 + 1 = 32
      OBVIOUS
    <2> QED BY <2>2, <2>3, Zenon DEF Bits
  <1>5. UInt(Bits(w, 15, 0)) \in 0..(2^16 - 1) /\ UInt(Bits(w, 31, 16)) \in 0..(2^16 - 1)
    BY <1>1, <1>3, UIntRange, Zenon
  <1> QED BY <1>3, <1>4, <1>5, Zenon DEF LowHalf, HighHalf

LEMMA SplitAt12 ==
    ASSUME NEW w \in Bits32
    PROVE  /\ Worth(w) = UInt(Bits(w, 11, 0)) + 2^12 * UInt(Bits(w, 31, 12))
           /\ UInt(Bits(w, 11, 0)) \in Nat /\ UInt(Bits(w, 31, 12)) \in Nat
  <1> DEFINE a == UInt(Bits(w, 11, 0))
             b == UInt(Bits(w, 15, 12))
             c == UInt(Bits(w, 31, 16))
             d == UInt(Bits(w, 15, 0))
             e == UInt(Bits(w, 31, 12))
  <1>1. Cut(w, 0, 12, 4, 11, 12, 15)
    <2>1. 0 \in 0..31 /\ 12 \in 1..31 /\ 4 \in 1..31 /\ 11 \in 0..31 /\ 12 \in 0..31 /\ 15 \in 0..31
          /\ 0 + 12 = 12 /\ 11 + 1 = 12 /\ 12 + 4 = 15 + 1
      OBVIOUS
    <2> QED BY <2>1, WordCut, Zenon
  <1>2. Cut(w, 12, 4, 16, 15, 16, 31)
    <2>1. 12 \in 0..31 /\ 4 \in 1..31 /\ 16 \in 1..31 /\ 15 \in 0..31 /\ 16 \in 0..31 /\ 31 \in 0..31
          /\ 12 + 4 = 16 /\ 15 + 1 = 16 /\ 16 + 16 = 31 + 1
      OBVIOUS
    <2> QED BY <2>1, WordCut, Zenon
  <1>3. d = a + 2^12 * b /\ e = b + 2^4 * c /\ a \in Nat /\ b \in Nat /\ c \in Nat
    BY <1>1, <1>2, Zenon DEF Cut
  <1>4. Worth(w) = d + 2^16 * c
    BY Zenon DEF LowHalf, HighHalf, Worth
  <1> HIDE DEF a, b, c, d, e
  <1>5. 2^16 = 2^12 * 2^4 /\ 2^12 \in Nat /\ 2^4 \in Nat
    OBVIOUS
  <1> DEFINE p == 2^12
             q == 2^4
  <1>6. d = a + p * b /\ e = b + q * c /\ Worth(w) = d + (p * q) * c /\ p \in Nat /\ q \in Nat
    BY <1>3, <1>4, <1>5, Zenon
  <1> HIDE DEF p, q
  <1>7. (a + p * b) + (p * q) * c = a + p * (b + q * c)
    BY <1>3, <1>6
  <1>8. Worth(w) = a + p * e /\ e \in Nat
    BY <1>3, <1>6, <1>7
  <1> QED BY <1>3, <1>8, Zenon DEF a, e, p

LEMMA SplitAddress ==
    ASSUME NEW w \in Bits32
    PROVE  \E x \in 0..3, z \in Nat : WordOf(w) \in 0..(2^12 - 1) /\ LowHalf(w) = x + 4 * WordOf(w) + 4 * (2^12 * z)
  <1> DEFINE a == UInt(Bits(w, 1, 0))
             b == UInt(Bits(w, 13, 2))
             c == UInt(Bits(w, 15, 14))
             d == UInt(Bits(w, 15, 0))
             e == UInt(Bits(w, 15, 2))
  <1>1. Cut(w, 0, 2, 14, 1, 2, 15)
    <2>1. 0 \in 0..31 /\ 2 \in 1..31 /\ 14 \in 1..31 /\ 1 \in 0..31 /\ 2 \in 0..31 /\ 15 \in 0..31
          /\ 0 + 2 = 2 /\ 1 + 1 = 2 /\ 2 + 14 = 15 + 1
      OBVIOUS
    <2> QED BY <2>1, WordCut, Zenon
  <1>2. Cut(w, 2, 12, 2, 13, 14, 15)
    <2>1. 2 \in 0..31 /\ 12 \in 1..31 /\ 2 \in 1..31 /\ 13 \in 0..31 /\ 14 \in 0..31 /\ 15 \in 0..31
          /\ 2 + 12 = 14 /\ 13 + 1 = 14 /\ 14 + 2 = 15 + 1
      OBVIOUS
    <2> QED BY <2>1, WordCut, Zenon
  <1>3. d = a + 2^2 * e /\ e = b + 2^12 * c /\ a \in Nat /\ b \in Nat /\ c \in Nat
    BY <1>1, <1>2, Zenon DEF Cut
  <1>4. a \in 0..(2^2 - 1) /\ b \in 0..(2^12 - 1)
    <2>1. Bits(w, 1, 0) \in BitSeq(2) /\ Bits(w, 13, 2) \in BitSeq(12)
      BY <1>1, <1>2, Zenon DEF Cut
    <2>2. 2 \in 0..31 /\ 12 \in 0..31
      OBVIOUS
    <2> QED BY <2>1, <2>2, UIntRange, Zenon
  <1>5. b = WordOf(w) /\ d = LowHalf(w)
    BY Zenon DEF WordOf, LowHalf
  <1> HIDE DEF a, b, c, d, e
  <1> DEFINE p == 2^12
  <1>6. p \in Nat /\ e = b + p * c /\ b \in 0..(p - 1)
    BY <1>3, <1>4
  <1> HIDE DEF p
  <1>7. 2^2 = 4
    OBVIOUS
  <1>8. a \in 0..3 /\ d = a + 4 * e
    BY <1>3, <1>4, <1>7
  <1>9. d = a + 4 * b + 4 * (p * c)
    BY <1>3, <1>6, <1>8
  <1>10. b \in 0..(p - 1) /\ d = a + 4 * b + 4 * (p * c) /\ a \in 0..3 /\ c \in Nat
    BY <1>3, <1>6, <1>8, <1>9
  <1> QED BY <1>5, <1>10, Zenon DEF p

(* The sum of two words is the word whose value is the sum of theirs, less    *)
(* 2^32 if it is too large.                                                   *)
LEMMA Carried ==
    ASSUME NEW M \in Nat, M >= 2,
           NEW la \in 0..(M - 1), NEW ha \in 0..(M - 1), NEW lb \in 0..(M - 1), NEW hb \in 0..(M - 1),
           NEW lc \in 0..(M - 1), NEW hc \in 0..(M - 1), NEW d \in {0, 1},
           (lc + M * hc) + M * (M * d) = (la + M * ha) + (lb + M * hb)
    PROVE  /\ (la + lb) \in Int /\ lc = (la + lb) % M
           /\ (ha + hb + ((la + lb) \div M)) \in Int
           /\ hc = (ha + hb + ((la + lb) \div M)) % M
  <1> DEFINE md == M * d
             t == ha + hb - hc - md
  <1>1. md \in {0, M}
    OBVIOUS
  <1> HIDE DEF md
  <1>2. M * t = ((M * ha + M * hb) - M * hc) - M * md /\ t \in Int
    BY <1>1
  <1>3. lc - la - lb = M * t
    <2> DEFINE x == M * ha
               y == M * hb
               z == M * hc
               u == M * md
    <2>1. x \in Int /\ y \in Int /\ z \in Int /\ u \in Int
      BY <1>1
    <2>2. (lc + z) + u = (la + x) + (lb + y)
      BY Zenon DEF md
    <2>3. M * t = ((x + y) - z) - u
      BY <1>2, Zenon
    <2> HIDE DEF x, y, z, u, t
    <2> QED BY <2>1, <2>2, <2>3
  <1>4. ha + hb - t = hc + md /\ t \in Int
    BY <1>1
  <1> HIDE DEF t
  <1>5. t \in {-1, 0}
    <2>1. CASE t >= 1
      <3>1. M * t >= M
        BY <1>4, <2>1
      <3> QED BY <1>3, <3>1
    <2>2. CASE t <= -2
      <3> DEFINE v == -2 - t
      <3>1. v \in Nat /\ t = -2 - v
        BY <1>4, <2>2
      <3> HIDE DEF v
      <3>2. M * v \in Nat /\ M * (-2 - v) = (-2) * M - M * v
        BY <3>1
      <3>3. lc - la - lb = (-2) * M - M * v
        BY <1>3, <3>1, <3>2
      <3> QED BY <3>2, <3>3
    <2> QED BY <1>4, <2>1, <2>2
  <1>6. (la + lb) \div M = -t /\ (la + lb) % M = lc
    <2>1. CASE t = 0
      <3>1. lc = la + lb
        BY <1>3, <2>1
      <3>2. lc \div M = 0 /\ lc % M = lc
        OBVIOUS
      <3> QED BY <2>1, <3>1, <3>2
    <2>2. CASE t = -1
      <3>1. la + lb = M + lc
        BY <1>3, <2>2
      <3>2. (M + lc) \div M = 1 /\ (M + lc) % M = lc
        OBVIOUS
      <3> QED BY <2>2, <3>1, <3>2
    <2> QED BY <1>5, <2>1, <2>2
  <1>7. (hc + md) % M = hc
    <2>1. CASE md = 0
      BY <2>1
    <2>2. CASE md = M
      BY <2>2
    <2> QED BY <1>1, <2>1, <2>2
  <1>8. ha + hb + (-t) = hc + md
    BY <1>4
  <1>9. ha + hb + ((la + lb) \div M) = hc + md
    BY <1>6, <1>8
  <1>10. la + lb \in Int /\ hc + md \in Int
    BY <1>1
  <1> QED BY <1>6, <1>7, <1>9, <1>10

LEMMA HalfIs ==
    ASSUME NEW v \in Int, NEW s \in BitSeq(16), UInt(s) = v % 2^16
    PROVE  Half(v) = s
  <1>1. Half(v) = Low(v, 16)
    <2>1. \A k \in 1..16 : 0 + k - 1 = k - 1
      OBVIOUS
    <2> QED BY <2>1 DEF Half, Low, Slice
  <1>2. 16 \in 0..31 /\ 16 \in 0..32
    OBVIOUS
  <1>3. Low(v, 16) \in BitSeq(16)
    BY <1>2, LowBits, Zenon
  <1>4. UInt(Low(v, 16)) = v % 2^16
    BY <1>2, UIntLow, Zenon
  <1>5. UInt(Low(v, 16)) = UInt(s)
    BY <1>4, Zenon
  <1>6. Low(v, 16) = s
    BY <1>2, <1>3, <1>5, SameNumber, Zenon
  <1> QED BY <1>1, <1>6, Zenon

LEMMA SumIs ==
    ASSUME NEW a \in Bits32, NEW b \in Bits32, NEW c \in Bits32, NEW d \in {0, 1},
           Worth(c) + 2^16 * (2^16 * d) = Worth(a) + Worth(b)
    PROVE  Plus(a, b) = c
  <1> DEFINE M  == 2^16
             la == LowHalf(a)
             ha == HighHalf(a)
             lb == LowHalf(b)
             hb == HighHalf(b)
             lc == LowHalf(c)
             hc == HighHalf(c)
             low  == la + lb
             high == ha + hb + (low \div M)
  <1>1. /\ la \in 0..(M - 1) /\ ha \in 0..(M - 1) /\ lb \in 0..(M - 1) /\ hb \in 0..(M - 1)
        /\ lc \in 0..(M - 1) /\ hc \in 0..(M - 1)
    BY Halved, Zenon
  <1>2. M \in Nat /\ M >= 2
    OBVIOUS
  <1>3. Plus(a, b) = Half(low) \o Half(high)
    <2>1. la + lb + 0 = low
      BY <1>1, <1>2
    <2>2. M = 65536
      OBVIOUS
    <2> HIDE DEF M
    <2>3. Plus(a, b) = Half(la + lb + 0) \o Half(ha + hb + ((la + lb + 0) \div M))
      BY <2>2, SMT DEF Plus, AddCarry, LowHalf, HighHalf
    <2> HIDE DEF la, lb, ha, hb
    <2> QED BY <2>1, <2>3, Zenon
  <1>4. (lc + M * hc) + M * (M * d) = (la + M * ha) + (lb + M * hb)
    BY Zenon DEF Worth
  <1> HIDE DEF la, ha, lb, hb, lc, hc, M
  <1>5. lc = low % M /\ hc = high % M /\ low \in Int /\ high \in Int
    <2>1. /\ (la + lb) \in Int /\ lc = (la + lb) % M
          /\ (ha + hb + ((la + lb) \div M)) \in Int
          /\ hc = (ha + hb + ((la + lb) \div M)) % M
      BY <1>1, <1>2, <1>4, Carried
    <2> QED BY <2>1, Zenon
  <1> HIDE DEF low, high
  <1>6. /\ Bits(c, 15, 0) \in BitSeq(16) /\ Bits(c, 31, 16) \in BitSeq(16)
        /\ c = Bits(c, 15, 0) \o Bits(c, 31, 16)
    BY Halved, Zenon
  <1>7. UInt(Bits(c, 15, 0)) = low % M /\ UInt(Bits(c, 31, 16)) = high % M
    BY <1>5, Zenon DEF lc, hc, LowHalf, HighHalf
  <1>8. Half(low) = Bits(c, 15, 0) /\ Half(high) = Bits(c, 31, 16)
    BY <1>5, <1>6, <1>7, HalfIs, Zenon DEF M
  <1> QED BY <1>3, <1>6, <1>8, Zenon

-----------------------------------------------------------------------------
(* What LUI puts in the register, and what ADDI adds to it.                  *)
LEMMA JoinedWord ==
    ASSUME NEW a \in BitSeq(12), NEW b \in BitSeq(20)
    PROVE  a \o b \in Bits32 /\ Worth(a \o b) = UInt(a) + 2^12 * UInt(b)
  <1> DEFINE w == a \o b
  <1>1. 12 \in Nat /\ 20 \in Nat /\ 12 + 20 = 32
    OBVIOUS
  <1>2. /\ w \in BitSeq(12 + 20) /\ (\A k \in 1..12 : w[k] = a[k])
        /\ \A k \in 1..20 : w[12 + k] = b[k]
    <2> DEFINE m == 12
               n == 20
    <2>1. m \in Nat /\ n \in Nat /\ a \in BitSeq(m) /\ b \in BitSeq(n)
      BY <1>1
    <2> HIDE DEF m, n
    <2>2. /\ a \o b \in BitSeq(m + n) /\ (\A k \in 1..m : (a \o b)[k] = a[k])
          /\ \A k \in 1..n : (a \o b)[m + k] = b[k]
      BY <2>1, JoinBits
    <2> QED BY <2>2, Zenon DEF m, n
  <1> HIDE DEF w
  <1>3. w \in Bits32
    BY <1>1, <1>2, Zenon DEF BitSeq, Bits32
  <1>4. Bits(w, 11, 0) = a
    <2>1. 0 \in 0..31 /\ 12 \in 1..(32 - 0) /\ 0 + 12 - 1 = 11 /\ \A k \in 1..12 : 0 + k = k
      OBVIOUS
    <2>2. Holds(w, 0, a, 12)
      BY <1>2, <2>1, Zenon DEF Holds
    <2>3. Bits(w, 0 + 12 - 1, 0) = a
      BY <1>3, <2>1, <2>2, PartHeld, Zenon
    <2> QED BY <2>1, <2>3, Zenon
  <1>5. Bits(w, 31, 12) = b
    <2>1. 12 \in 0..31 /\ 20 \in 1..(32 - 12) /\ 12 + 20 - 1 = 31
      OBVIOUS
    <2>2. Holds(w, 12, b, 20)
      BY <1>2, Zenon DEF Holds
    <2>3. Bits(w, 12 + 20 - 1, 12) = b
      BY <1>3, <2>1, <2>2, PartHeld, Zenon
    <2> QED BY <2>1, <2>3, Zenon
  <1>6. Worth(w) = UInt(a) + 2^12 * UInt(b)
    BY <1>3, <1>4, <1>5, SplitAt12, Zenon
  <1> QED BY <1>3, <1>6, Zenon DEF w

LEMMA UpperWorth ==
    ASSUME NEW p \in Int
    PROVE  /\ Fill(12, 0) \o Low(p, 20) \in Bits32
           /\ Worth(Fill(12, 0) \o Low(p, 20)) = 2^12 * (p % 2^20)
  <1> DEFINE a == Fill(12, 0)
             b == Low(p, 20)
  <1>1. 0 \in Int /\ 12 \in 0..31 /\ 20 \in 0..31 /\ 12 \in 0..32 /\ 20 \in 0..32
    OBVIOUS
  <1>2. b \in BitSeq(20) /\ UInt(b) = p % 2^20
    BY <1>1, LowBits, UIntLow, Zenon
  <1>3. a \in BitSeq(12) /\ UInt(a) = 0
    <2>1. Low(0, 12) \in BitSeq(12) /\ \A k \in 1..12 : Low(0, 12)[k] = (0 \div 2^(k - 1)) % 2
      BY <1>1, LowBits, Zenon
    <2>2. UInt(Low(0, 12)) = 0 % 2^12
      BY <1>1, UIntLow, Zenon
    <2>3. 0 % 2^12 = 0
      OBVIOUS
    <2>4. a \in BitSeq(12)
      BY Zenon DEF Fill, BitSeq, Bit
    <2>5. \A k \in 1..12 : a[k] = Low(0, 12)[k]
      <3> TAKE k \in 1..12
      <3> DEFINE q == 2^(k - 1)
      <3>1. k - 1 \in 0..31
        OBVIOUS
      <3>2. q \in Nat /\ q > 0
        BY <3>1, Weights, Zenon
      <3> HIDE DEF q
      <3>3. (0 \div q) % 2 = 0
        <4>1. 0 \div q = 0
          BY <3>2
        <4> QED BY <4>1
      <3>4. Low(0, 12)[k] = (0 \div q) % 2
        BY <2>1, Zenon DEF q
      <3>5. a[k] = 0
        BY Zenon DEF Fill
      <3> QED BY <3>3, <3>4, <3>5, Zenon
    <2>6. 12 \in Nat
      OBVIOUS
    <2>7. a = Low(0, 12)
      BY <2>1, <2>4, <2>5, <2>6, BitSeqEqual, Zenon
    <2> QED BY <2>2, <2>3, <2>4, <2>7, Zenon
  <1> HIDE DEF a, b
  <1>4. a \o b \in Bits32 /\ Worth(a \o b) = UInt(a) + 2^12 * UInt(b)
    BY <1>2, <1>3, JoinedWord, Zenon
  <1>5. Worth(a \o b) = 0 + 2^12 * (p % 2^20)
    BY <1>2, <1>3, <1>4, Zenon
  <1>6. 0 + 2^12 * (p % 2^20) = 2^12 * (p % 2^20)
    <2> DEFINE x == 2^12
               y == p % 2^20
    <2>1. x \in Int /\ y \in Int
      OBVIOUS
    <2> HIDE DEF x, y
    <2>2. 0 + x * y = x * y
      BY <2>1
    <2> QED BY <2>2, Zenon DEF x, y
  <1> QED BY <1>4, <1>5, <1>6, Zenon DEF a, b

LEMMA SignedWorth ==
    ASSUME NEW q \in Int, -(2^11) <= q, q < 2^11
    PROVE  /\ Signed(Low(q, 12)) \in Bits32
           /\ q >= 0 => Worth(Signed(Low(q, 12))) = q
           /\ q < 0 => Worth(Signed(Low(q, 12))) = (q + 2^12) + 2^12 * (2^20 - 1)
  <1> DEFINE a == Low(q, 12)
             s == IF q >= 0 THEN 0 ELSE -1
             b == [k \in 1..20 |-> a[12]]
             c == Low(s, 20)
  <1>1. 12 \in 0..31 /\ 20 \in 0..31 /\ 12 \in 0..32 /\ 20 \in 0..32 /\ 12 \in 1..12 /\ 12 - 1 = 11 /\ 32 - 12 = 20
        /\ 12 \in Nat /\ 20 \in Nat /\ s \in Int
    OBVIOUS
  <1>2. /\ a \in BitSeq(12) /\ \A k \in 1..12 : a[k] = (q \div 2^(k - 1)) % 2
    BY <1>1, LowBits, Zenon
  <1>3. UInt(a) = q % 2^12
    BY <1>1, UIntLow, Zenon
  <1>4. c \in BitSeq(20) /\ \A k \in 1..20 : c[k] = (s \div 2^(k - 1)) % 2
    <2> HIDE DEF s
    <2> QED BY <1>1, LowBits, Zenon
  <1>5. UInt(c) = s % 2^20
    <2> HIDE DEF s
    <2> QED BY <1>1, UIntLow, Zenon
  <1>6. a[12] = IF q >= 0 THEN 0 ELSE 1
    <2> DEFINE p == 2^11
    <2>1. a[12] = (q \div p) % 2
      BY <1>1, <1>2, Zenon
    <2>2. p \in Nat /\ -p <= q /\ q < p /\ p > 0
      OBVIOUS
    <2> HIDE DEF p, a
    <2>3. CASE q >= 0
      <3>1. q \div p = 0
        BY <2>2, <2>3
      <3> QED BY <2>1, <2>3, <3>1
    <2>4. CASE q < 0
      <3>1. q \div p = -1
        BY <2>2, <2>4
      <3> QED BY <2>1, <2>4, <3>1
    <2> QED BY <2>3, <2>4
  <1>7. \A k \in 1..20 : b[k] = c[k]
    <2> TAKE k \in 1..20
    <2> DEFINE p == 2^(k - 1)
    <2>1. k - 1 \in 0..31
      OBVIOUS
    <2>2. p \in Nat /\ p > 0
      BY <2>1, Weights, Zenon
    <2>3. c[k] = (s \div p) % 2
      BY <1>4, Zenon
    <2>4. b[k] = a[12]
      BY Zenon
    <2> HIDE DEF p, a, b, c
    <2>5. (0 \div p) % 2 = 0 /\ ((-1) \div p) % 2 = 1
      <3>1. 0 \div p = 0
        BY <2>2
      <3>2. (-1) \div p = -1
        BY <2>2
      <3> QED BY <3>1, <3>2
    <2>6. CASE q >= 0
      BY <1>6, <2>3, <2>4, <2>5, <2>6
    <2>7. CASE ~(q >= 0)
      <3>1. a[12] = 1 /\ s = -1
        BY <1>6, <2>7
      <3> HIDE DEF s
      <3> QED BY <2>3, <2>4, <2>5, <3>1
    <2> QED BY <2>6, <2>7
  <1>8. b = c
    <2>1. a[12] \in Bit
      BY <1>1, <1>2 DEF BitSeq
    <2>2. b \in BitSeq(20)
      BY <2>1, Zenon DEF BitSeq
    <2> HIDE DEF b, c
    <2> QED BY <1>1, <1>4, <1>7, <2>2, BitSeqEqual, Zenon
  <1>9. Signed(a) = a \o b
    <2>1. Len(a) = 12
      BY <1>1, <1>2, BitSeqIsSeq
    <2> HIDE DEF a
    <2> QED BY <1>1, <2>1, Zenon DEF Signed
  <1> HIDE DEF a, b, c
  <1>10. Signed(a) \in Bits32 /\ Worth(Signed(a)) = (q % 2^12) + 2^12 * (s % 2^20)
    <2> HIDE DEF s
    <2>1. a \o c \in Bits32 /\ Worth(a \o c) = UInt(a) + 2^12 * UInt(c)
      BY <1>2, <1>4, JoinedWord, Zenon
    <2> QED BY <1>3, <1>5, <1>8, <1>9, <2>1, Zenon
  <1> DEFINE p == 2^12
             r == 2^20
  <1>11. p \in Nat /\ r \in Nat /\ r >= 2 /\ -p <= q /\ q < p
    OBVIOUS
  <1>12. Worth(Signed(a)) = (q % p) + p * (s % r)
    BY <1>10, Zenon
  <1> HIDE DEF p, r
  <1>13. CASE q >= 0
    <2>1. q % p = q /\ s % r = 0
      BY <1>11, <1>13
    <2>2. Worth(Signed(a)) = q + p * 0 /\ p * 0 = 0 /\ q + 0 = q
      BY <1>11, <1>12, <2>1
    <2>3. Worth(Signed(a)) = q
      BY <2>2
    <2> QED BY <1>10, <1>13, <2>3, SMT DEF a
  <1>14. CASE q < 0
    <2>1. q % p = q + p /\ s = -1
      BY <1>11, <1>14
    <2>2. (-1) % r = r - 1
      BY <1>11
    <2>3. Worth(Signed(a)) = (q + p) + p * (r - 1)
      BY <1>12, <2>1, <2>2
    <2> HIDE DEF s
    <2>4. Worth(Signed(a)) = (q + 2^12) + 2^12 * (2^20 - 1)
      BY <2>3, Zenon DEF p, r
    <2>5. ~(q >= 0)
      BY <1>14
    <2> QED BY <1>10, <2>4, <2>5, Zenon DEF a
  <1> QED BY <1>13, <1>14

(* The two immediates of led_blink.py, and that they add up.                 *)
UpperPart(value) == IF Field(value, 11, 0) >= 2048 THEN (Field(value, 31, 12) + 1) % 2^20 ELSE Field(value, 31, 12)
LowerPart(value) == IF Field(value, 11, 0) >= 2048 THEN Field(value, 11, 0) - 4096 ELSE Field(value, 11, 0)

LEMMA LoadImm32Is ==
    ASSUME NEW rd, NEW value
    PROVE  LoadImm32(rd, value) = <<U("LUI", rd, UpperPart(value)), I("ADDI", rd, rd, LowerPart(value))>>
  <1> DEFINE lower12 == Field(value, 11, 0)
             upper20 == Field(value, 31, 12)
  <1>1. CASE lower12 >= 2048
    BY <1>1, SMT DEF LoadImm32, UpperPart, LowerPart
  <1>2. CASE ~(lower12 >= 2048)
    BY <1>2, SMT DEF LoadImm32, UpperPart, LowerPart
  <1> QED BY <1>1, <1>2

LEMMA PartsAddUp ==
    ASSUME NEW value \in Bits32
    PROVE  /\ UpperPart(value) \in Int /\ LowerPart(value) \in Int
           /\ Plus(Fill(12, 0) \o Low(UpperPart(value), 20), Signed(Low(LowerPart(value), 12))) = value
  <1> DEFINE x == Field(value, 11, 0)
             y == Field(value, 31, 12)
             P == 2^12
             Q == 2^11
             T == 2^20
             u == UpperPart(value)
             v == LowerPart(value)
             a == Fill(12, 0) \o Low(u, 20)
             b == Signed(Low(v, 12))
             M == 2^16
             Same(d) == Worth(value) + M * (M * d) = Worth(a) + Worth(b)
  <1>1. P \in Nat /\ M \in Nat /\ Q \in Nat /\ T \in Nat /\ P = 2 * Q /\ Q > 0 /\ T > 1
    OBVIOUS
  <1>2. P * T = M * (M * 1)
    OBVIOUS
  <1>3. x \in 0..(P - 1) /\ y \in 0..(T - 1)
    <2>1. 11 \in 0..31 /\ 12 \in 0..31 /\ 31 \in 12..31 /\ 0 \in 0..31 /\ 11 - 0 + 1 = 12 /\ 31 - 12 + 1 = 20
          /\ 20 \in 0..31
      OBVIOUS
    <2>2. Bits(value, 11, 0) \in BitSeq(12) /\ Bits(value, 31, 12) \in BitSeq(20)
      <3>1. Bits(value, 11, 0) \in BitSeq(11 - 0 + 1) /\ Bits(value, 31, 12) \in BitSeq(31 - 12 + 1)
        <4>1. 11 \in 0..31
          OBVIOUS
        <4> QED BY <2>1, <4>1, PartBits, Zenon
      <3> QED BY <2>1, <3>1, Zenon
    <2> QED BY <2>1, <2>2, UIntRange, Zenon DEF Field
  <1>4. Worth(value) = x + P * y
    BY SplitAt12, Zenon DEF Field
  <1>5. u = (IF x >= Q THEN (y + 1) % T ELSE y) /\ v = (IF x >= Q THEN x - P ELSE x)
    <2>1. Q = 2048 /\ P = 4096
      OBVIOUS
    <2> QED BY <2>1, SMT DEF UpperPart, LowerPart
  <1> HIDE DEF x, y, u, v
  <1>6. u \in Int /\ v \in Int /\ -Q <= v /\ v < Q
    <2> HIDE DEF P, Q, T
    <2> QED BY <1>1, <1>3, <1>5
  <1>7. /\ a \in Bits32 /\ Worth(a) = P * (u % T)
        /\ b \in Bits32 /\ (v >= 0 => Worth(b) = v) /\ (v < 0 => Worth(b) = (v + P) + P * (T - 1))
    BY <1>6, UpperWorth, SignedWorth, Zenon
  <1> HIDE DEF P, Q, T, M, a, b
  <1>8. P * y \in Int /\ P * T \in Int /\ P * (y + 1) = P * y + P /\ P * (T - 1) = P * T - P
    BY <1>1, <1>3
  <1>9. ASSUME x < Q PROVE \E d \in {0, 1} : Same(d)
    <2>1. u = y /\ v = x /\ v >= 0 /\ u % T = y
      BY <1>1, <1>3, <1>5, <1>9
    <2>2. Worth(a) = P * y /\ Worth(b) = x
      BY <1>7, <2>1, Zenon
    <2>3. Worth(value) = Worth(a) + Worth(b)
      BY <1>3, <1>4, <1>8, <2>2
    <2>4. Same(0)
      <3>1. M * (M * 0) = 0
        BY <1>1
      <3>2. Worth(value) \in Int
        BY <1>3, <1>4, <1>8
      <3>3. Worth(value) + 0 = Worth(value)
        BY <3>2
      <3> QED BY <2>3, <3>1, <3>3, Zenon
    <2>5. 0 \in {0, 1}
      OBVIOUS
    <2> QED BY <2>4, <2>5, Zenon
  <1>10. ASSUME x >= Q PROVE \E d \in {0, 1} : Same(d)
    <2>1. u = (y + 1) % T /\ v = x - P /\ v < 0
      BY <1>1, <1>3, <1>5, <1>10
    <2>2. Worth(b) = x + P * (T - 1)
      <3>1. (v + P) + P * (T - 1) = x + P * (T - 1)
        BY <1>1, <1>3, <2>1
      <3> QED BY <1>7, <2>1, <3>1, Zenon
    <2>3. CASE y + 1 < T
      <3>1. u % T = y + 1
        BY <1>1, <1>3, <2>1, <2>3
      <3>2. Worth(a) = P * y + P
        BY <1>7, <1>8, <3>1, Zenon
      <3>3. Worth(value) + P * T = Worth(a) + Worth(b)
        BY <1>1, <1>3, <1>4, <1>8, <2>2, <3>2
      <3>4. Same(1)
        <4>1. Worth(value) \in Int
          BY <1>3, <1>4, <1>8
        <4>2. M * (M * 1) = P * T
          BY <1>2
        <4> QED BY <3>3, <4>2, Zenon
      <3>5. 1 \in {0, 1}
        OBVIOUS
      <3> QED BY <3>4, <3>5, Zenon
    <2>4. CASE y + 1 = T
      <3>1. u % T = 0
        BY <1>1, <2>1, <2>4
      <3>2. Worth(a) = 0
        <4>1. Worth(a) = P * 0
          BY <1>7, <3>1, Zenon
        <4> QED BY <1>1, <4>1
      <3>3. T - 1 = y
        BY <1>1, <1>3, <2>4
      <3>4. Worth(value) = Worth(a) + Worth(b)
        <4>1. Worth(b) = x + P * y
          BY <2>2, <3>3, Zenon
        <4> QED BY <1>3, <1>4, <1>8, <3>2, <4>1
      <3>5. Same(0)
        <4>1. M * (M * 0) = 0
          BY <1>1
        <4>2. Worth(value) \in Int
          BY <1>3, <1>4, <1>8
        <4>3. Worth(value) + 0 = Worth(value)
          BY <4>2
        <4> QED BY <3>4, <4>1, <4>3, Zenon
      <3>6. 0 \in {0, 1}
        OBVIOUS
      <3> QED BY <3>5, <3>6, Zenon
    <2> QED BY <1>1, <1>3, <2>3, <2>4
  <1>11. \E d \in {0, 1} : Same(d)
    BY <1>1, <1>3, <1>9, <1>10
  <1>12. Plus(a, b) = value
    <2>1. PICK d \in {0, 1} : Same(d)
      BY <1>11, Zenon
    <2>2. Worth(value) + 2^16 * (2^16 * d) = Worth(a) + Worth(b)
      BY <2>1, Zenon DEF M
    <2> QED BY <1>7, <2>2, SumIs, Zenon
  <1> QED BY <1>6, <1>12, Zenon DEF a, b, u, v

-----------------------------------------------------------------------------
(* The pc counts words: it points at one, and past an instruction at the      *)
(* next.                                                                     *)
Points(pc, k) == pc \in Bits32 /\ LowHalf(pc) = 4 * k
Four == Unsigned(<<0, 0, 1>>)

LEMMA PointsAtWord ==
    ASSUME NEW pc, NEW k \in 0..(2^12 - 1), Points(pc, k)
    PROVE  WordOf(pc) = k
  <1>1. PICK x \in 0..3, z \in Nat :
          WordOf(pc) \in 0..(2^12 - 1) /\ LowHalf(pc) = x + 4 * WordOf(pc) + 4 * (2^12 * z)
    BY SplitAddress, Zenon DEF Points
  <1> DEFINE p == 2^12
             w == WordOf(pc)
             y == p * z
  <1>2. p \in Nat /\ k \in 0..(p - 1) /\ w \in 0..(p - 1) /\ 4 * k = x + 4 * w + 4 * (p * z)
    BY <1>1 DEF Points
  <1> HIDE DEF p, w
  <1>3. y \in Nat /\ (z > 0 => y >= p) /\ (z = 0 => y = 0)
    BY <1>2
  <1>4. 4 * k = x + 4 * w + 4 * y
    BY <1>2, Zenon
  <1> HIDE DEF y
  <1>5. w = k
    BY <1>2, <1>3, <1>4
  <1> QED BY <1>5 DEF w

LEMMA LowHalfOfSum ==
    ASSUME NEW a \in Bits32, NEW b \in Bits32
    PROVE  LowHalf(Plus(a, b)) = (LowHalf(a) + LowHalf(b)) % 2^16
  <1> DEFINE low  == LowHalf(a) + LowHalf(b) + 0
             high == HighHalf(a) + HighHalf(b) + (low \div 65536)
             c    == Half(low) \o Half(high)
  <1>1. Plus(a, b) = c
    BY SMT DEF Plus, AddCarry, LowHalf, HighHalf
  <1>2. /\ LowHalf(a) \in Nat /\ LowHalf(b) \in Nat /\ HighHalf(a) \in Nat /\ HighHalf(b) \in Nat
    BY PartsTyped, Zenon DEF LowHalf, HighHalf
  <1>3. low \in Int /\ high \in Int /\ low = LowHalf(a) + LowHalf(b)
    BY <1>2
  <1> HIDE DEF low, high
  <1>4. Half(low) = Low(low, 16) /\ Half(low) \in BitSeq(16) /\ Half(high) \in BitSeq(16)
    <2>1. \A k \in 1..16 : 0 + k - 1 = k - 1
      OBVIOUS
    <2> QED BY <1>3, <2>1, HalfTyped DEF Half, Low, Slice
  <1>5. Bits(c, 15, 0) = Half(low)
    <2> DEFINE m == 16
    <2>1. m \in Nat /\ Half(low) \in BitSeq(m) /\ Half(high) \in BitSeq(m)
      BY <1>4
    <2> HIDE DEF m
    <2>2. c \in BitSeq(m + m) /\ \A k \in 1..m : c[k] = Half(low)[k]
      BY <2>1, JoinBits
    <2> HIDE DEF c
    <2>3. m + m = 32 /\ m = 16
      BY DEF m
    <2>4. c \in Bits32
      BY <2>2, <2>3 DEF BitSeq, Bits32
    <2>5. 0 \in 0..31 /\ 16 \in 1..(32 - 0) /\ 0 + 16 - 1 = 15 /\ \A k \in 1..16 : 0 + k = k
      OBVIOUS
    <2>6. Holds(c, 0, Half(low), 16)
      BY <2>2, <2>3, <2>5, Zenon DEF Holds
    <2>7. Bits(c, 0 + 16 - 1, 0) = Half(low)
      BY <1>4, <2>4, <2>5, <2>6, PartHeld, Zenon
    <2> QED BY <2>5, <2>7, Zenon
  <1>6. UInt(Low(low, 16)) = low % 2^16
    <2>1. 16 \in 0..31
      OBVIOUS
    <2> QED BY <1>3, <2>1, UIntLow, Zenon
  <1> HIDE DEF c
  <1>7. LowHalf(c) = low % 2^16
    BY <1>4, <1>5, <1>6, Zenon DEF LowHalf
  <1> QED BY <1>1, <1>3, <1>7, Zenon

LEMMA LowHalfIs ==
    ASSUME NEW w \in Bits32, NEW v \in Int, 0 <= v, v < 2^16,
           \A k \in 1..16 : w[k] = (v \div 2^(k - 1)) % 2
    PROVE  LowHalf(w) = v
  <1>1. 0 \in 0..31 /\ 16 \in 1..(32 - 0) /\ 0 + 16 - 1 = 15 /\ 16 \in 0..31 /\ 16 \in 0..32
        /\ \A k \in 1..16 : 0 + k = k
    OBVIOUS
  <1>2. Low(v, 16) \in BitSeq(16) /\ \A k \in 1..16 : Low(v, 16)[k] = (v \div 2^(k - 1)) % 2
    BY <1>1, LowBits, Zenon
  <1>3. Holds(w, 0, Low(v, 16), 16)
    BY <1>1, <1>2, Zenon DEF Holds
  <1>4. Bits(w, 0 + 16 - 1, 0) = Low(v, 16)
    BY <1>1, <1>2, <1>3, PartHeld, Zenon
  <1>5. UInt(Low(v, 16)) = v % 2^16
    BY <1>1, UIntLow, Zenon
  <1>6. LowHalf(w) = v % 2^16
    BY <1>1, <1>4, <1>5, Zenon DEF LowHalf
  <1>7. v % 2^16 = v
    <2> DEFINE M == 2^16
    <2>1. M \in Nat /\ v < M
      OBVIOUS
    <2> HIDE DEF M
    <2>2. v % M = v
      BY <2>1
    <2> QED BY <2>2, Zenon DEF M
  <1> QED BY <1>6, <1>7, Zenon

LEMMA FourIs ==
    Four \in Bits32 /\ LowHalf(Four) = 4
  <1> DEFINE s == <<0, 0, 1>>
  <1>1. s \in BitSeq(3) /\ 3 \in 1..32 /\ Len(s) = 3
    BY DEF BitSeq, Bit
  <1>2. Four \in Bits32
    BY <1>1, Extensions, Zenon DEF Four
  <1>3. \A k \in 1..16 : Four[k] = IF k = 3 THEN 1 ELSE 0
    BY SMT DEF Four, Unsigned
  <1>4. \A k \in 1..16 : (4 \div 2^(k - 1)) % 2 = IF k = 3 THEN 1 ELSE 0
    <2> TAKE k \in 1..16
    <2> DEFINE j == k - 1
               p == 2^j
    <2>1. IsPower(j, p)
      BY Powers, Zenon
    <2>2. j \in 0..15 /\ k = j + 1
      OBVIOUS
    <2> HIDE DEF j, p
    <2>3. (j = 0 => p = 1) /\ (j = 1 => p = 2) /\ (j = 2 => p = 4) /\ (j > 2 => p \in Nat /\ p >= 8)
      BY <2>1, <2>2 DEF IsPower
    <2>4. (4 \div p) % 2 = IF k = 3 THEN 1 ELSE 0
      <3>1. CASE j <= 2
        BY <2>2, <2>3, <3>1
      <3>2. CASE j > 2
        <4>1. 4 \div p = 0
          BY <2>3, <3>2
        <4> QED BY <2>2, <3>2, <4>1
      <3> QED BY <2>2, <3>1, <3>2
    <2> QED BY <2>4 DEF j, p
  <1>5. 0 <= 4 /\ 4 < 2^16 /\ 4 \in Int
    OBVIOUS
  <1>6. \A k \in 1..16 : Four[k] = (4 \div 2^(k - 1)) % 2
    BY <1>3, <1>4
  <1>7. LowHalf(Four) = 4
    BY <1>2, <1>5, <1>6, LowHalfIs, Zenon
  <1> QED BY <1>2, <1>7

LEMMA PointsOn ==
    ASSUME NEW pc, NEW k \in 0..(2^12 - 1), Points(pc, k)
    PROVE  Points(Plus(pc, Four), k + 1) \/ k = 2^12 - 1
  <1>1. pc \in Bits32 /\ LowHalf(pc) = 4 * k
    BY DEF Points
  <1>2. Plus(pc, Four) \in Bits32 /\ LowHalf(Plus(pc, Four)) = (LowHalf(pc) + LowHalf(Four)) % 2^16
    BY <1>1, FourIs, LowHalfOfSum, SumTyped, Zenon
  <1> DEFINE M == 2^16
             P == 2^12
  <1>3. M \in Nat /\ P \in Nat /\ M >= 4 * P /\ k \in 0..(P - 1)
    OBVIOUS
  <1>4. LowHalf(Plus(pc, Four)) = (4 * k + 4) % M
    BY <1>1, <1>2, FourIs, Zenon
  <1> HIDE DEF M, P
  <1>5. 4 * k + 4 = 4 * (k + 1) /\ (k # P - 1 => (4 * k + 4) % M = 4 * k + 4)
    BY <1>3
  <1> QED BY <1>2, <1>4, <1>5, Zenon DEF Points, P

LEMMA PointsFirst ==
    Points([Zero EXCEPT ![32] = 1], 0)
  <1> DEFINE w == [Zero EXCEPT ![32] = 1]
  <1>1. w \in Bits32
    BY Constants DEF Bits32, Bit
  <1>2. \A k \in 1..16 : w[k] = 0
    BY SMT DEF Zero
  <1>3. \A k \in 1..16 : (0 \div 2^(k - 1)) % 2 = 0
    <2> TAKE k \in 1..16
    <2> DEFINE p == 2^(k - 1)
    <2>1. k - 1 \in 0..31
      OBVIOUS
    <2>2. p \in Nat /\ p > 0
      BY <2>1, Weights, Zenon
    <2> HIDE DEF p
    <2>3. 0 \div p = 0
      BY <2>2
    <2>4. (0 \div p) % 2 = 0
      BY <2>3
    <2> QED BY <2>4 DEF p
  <1>4. 0 \in Int /\ 0 <= 0 /\ 0 < 2^16 /\ 4 * 0 = 0
    OBVIOUS
  <1> HIDE DEF w
  <1>5. LowHalf(w) = 0
    BY <1>1, <1>2, <1>3, <1>4, LowHalfIs
  <1> QED BY <1>1, <1>4, <1>5, Zenon DEF Points, w

-----------------------------------------------------------------------------
(* The hart at an instruction of the sequence.                               *)
At(h, i) == Cell(h.mem, WordOf(h.pc)) = Encoded(i)

LEMMA LineAt ==
    ASSUME NEW h, NEW i \in Line, At(h, i), i.op \notin Memory \cup Unused \cup {"FENCE"}
    PROVE  LET insn  == Cell(h.mem, WordOf(h.pc))
               known == Decoded(insn) \ Unused
               op    == CHOOSE m \in known : TRUE
           IN /\ known # {} /\ op = i.op /\ \A addr : ~Crosses(op, addr)
              /\ i.op \notin DOMAIN System => OperandsKept(i, insn)
  <1> DEFINE insn  == Cell(h.mem, WordOf(h.pc))
             known == Decoded(insn) \ Unused
             op    == CHOOSE m \in known : TRUE
  <1>1. insn = Encoded(i) /\ Meant(i)
    <2>1. i.op # "FENCE"
      BY Zenon
    <2> QED BY <2>1, LinesAreMeant, Zenon DEF At
  <1>2. Decoded(insn) = {i.op} /\ (i.op \notin DOMAIN System => OperandsKept(i, insn))
    BY <1>1, Zenon DEF Meant
  <1> HIDE DEF insn
  <1>3. known = {i.op}
    BY <1>2, Zenon
  <1> HIDE DEF known
  <1>4. op = i.op
    BY <1>3
  <1> HIDE DEF op
  <1>5. \A addr : ~Crosses(op, addr)
    BY <1>4, Zenon DEF Crosses
  <1> QED BY <1>2, <1>3, <1>4, <1>5, Zenon DEF insn, known, op

(* What the hart does at such a line: broken, or a register written and on to *)
(* the next word.                                                            *)
Written(h, r, v) == [h EXCEPT !.pc = Plus(h.pc, Four), !.regs[r] = IF r = 0 THEN Zero ELSE v]

LEMMA StepAt ==
    ASSUME NEW h, NEW i \in Line, At(h, i), i.op \in {"EBREAK", "LUI", "ADDI"}
    PROVE  /\ i.op = "EBREAK" => Executed(h) = [h EXCEPT !.broke = TRUE]
           /\ i.op = "LUI" => Executed(h) = Written(h, i.rd % 32, Fill(12, 0) \o Low(i.imm, 20))
           /\ i.op = "ADDI" =>
                Executed(h) = Written(h, i.rd % 32, Plus(h.regs[i.rs1 % 32], Signed(Low(i.imm, 12))))
  <1> DEFINE insn   == Cell(h.mem, WordOf(h.pc))
             known  == Decoded(insn) \ Unused
             op     == CHOOSE m \in known : TRUE
             format == instructions[op].format
             imm    == Immediate(insn, format)
             a      == h.regs[get_rs1(insn)]
             b      == h.regs[get_rs2(insn)]
             next   == Plus(h.pc, Unsigned(<<0, 0, 1>>))
             jump   == Plus(h.pc, Signed(<<0>> \o imm))
             upper  == Fill(12, 0) \o imm
             addr   == Plus(a, Signed(imm))
             cell   == WordOf(addr)
             word   == Cell(h.mem, cell)
             Write(v, pc) == [h EXCEPT !.pc = pc,
                                       !.regs[get_rd(insn)] = IF get_rd(insn) = 0 THEN Zero ELSE v]
             Lit     == [h EXCEPT !.pc = next, !.led = UInt(Bits(b, 3, 0))]
             Filled  == [h EXCEPT !.pc = next,
                                  !.mem = [c \in DOMAIN h.mem \cup {cell} |->
                                             IF c = cell THEN Stored(op, word, addr, b) ELSE h.mem[c]]]
             Branched == [h EXCEPT !.pc = IF Branches(op, a, b) THEN jump ELSE next]
             Broken  == [h EXCEPT !.broke = TRUE]
             Changed == CASE op = "EBREAK" -> Broken
                          [] op = "LUI"    -> Write(upper, next)
                          [] op = "AUIPC"  -> Write(Plus(h.pc, upper), next)
                          [] op = "JAL"    -> Write(next, jump)
                          [] op = "JALR"   -> Write(next, [addr EXCEPT ![1] = 0])
                          [] format = "B"  -> Branched
                          [] format = "S"  -> IF IsLed(addr) THEN Lit ELSE Filled
                          [] op \in {"LB", "LH", "LW", "LBU", "LHU"} -> Write(Loaded(op, word, addr), next)
                          [] format = "R"  -> Write(Arithmetic(op, a, b), next)
                          [] OTHER         -> Write(Arithmetic(op, a, Signed(imm)), next)
  <1>1. i.op \notin Memory \cup Unused \cup {"FENCE"}
    BY SMT DEF Memory, Unused
  <1>2. known # {} /\ op = i.op /\ (\A x : ~Crosses(op, x)) /\ (i.op \notin DOMAIN System => OperandsKept(i, insn))
    BY <1>1, LineAt, Zenon
  <1>3. ~(known = {} \/ Crosses(op, addr))
    BY <1>2, Zenon
  <1>4. Executed(h) = Changed
    BY <1>3, Zenon DEF Executed
  <1>5. (i.op = "LUI" => format = "U") /\ (i.op = "ADDI" => format = "I")
    <2>1. "LUI" \in DOMAIN Upper /\ "ADDI" \in DOMAIN OpImm
      BY DEF Upper, OpImm
    <2> QED BY <1>2, <2>1, Formats, Zenon
  <1>6. i.op \in {"LUI", "ADDI"} => OperandsKept(i, insn) /\ instructions[i.op].format = format
    <2>1. i.op \in {"LUI", "ADDI"} => i.op \notin DOMAIN System
      BY DEF System
    <2> QED BY <1>2, <2>1, Zenon
  <1>7. op = i.op
    BY <1>2
  <1>8. \A v : Write(v, next) = Written(h, get_rd(insn), v)
    BY Zenon DEF Written, Four
  <1> HIDE DEF Write, Lit, Filled, Branched, Broken, insn, known, op, a, b, next, jump, upper, addr, cell, word
  <1>9. CASE i.op = "EBREAK"
    <2>1. op = "EBREAK" /\ format = "I"
      <3>1. instructions["EBREAK"].format = "I"
        BY Rows, SMT DEF RowSys, Row
      <3> QED BY <1>7, <1>9, <3>1, Zenon
    <2> HIDE DEF imm, format
    <2>2. Changed = Broken
      BY <2>1, SMT
    <2> HIDE DEF Changed
    <2> QED BY <1>4, <1>9, <2>2, SMT DEF Broken
  <1>10. CASE i.op = "LUI"
    <2>1. op = "LUI" /\ format = "U"
      BY <1>5, <1>7, <1>10
    <2>2. get_rd(insn) = i.rd % 32 /\ imm = Low(i.imm, 20)
      <3>1. OperandsKept(i, insn) /\ instructions[i.op].format = "U"
        BY <1>6, <1>10, <2>1
      <3>2. get_rd(insn) = i.rd % 32 /\ Immediate(insn, "U") = Low(i.imm, 20)
        <4> HIDE DEF format, imm
        <4> QED BY <3>1, SMT DEF OperandsKept
      <3> HIDE DEF format
      <3> QED BY <2>1, <3>2, Zenon
    <2> HIDE DEF imm, format
    <2>3. Changed = Write(upper, next)
      BY <2>1, SMT
    <2> HIDE DEF Changed
    <2>4. Executed(h) = Written(h, i.rd % 32, Fill(12, 0) \o Low(i.imm, 20))
      BY <1>4, <1>8, <2>2, <2>3, Zenon DEF upper
    <2> QED BY <1>10, <2>4, Zenon
  <1>11. CASE i.op = "ADDI"
    <2>1. op = "ADDI" /\ format = "I"
      BY <1>5, <1>7, <1>11
    <2>2. get_rd(insn) = i.rd % 32 /\ get_rs1(insn) = i.rs1 % 32 /\ imm = Low(i.imm, 12)
      <3>1. OperandsKept(i, insn) /\ instructions[i.op].format = "I" /\ i.op \notin DOMAIN Shift
        BY <1>6, <1>11, <2>1 DEF Shift
      <3>2. get_rd(insn) = i.rd % 32 /\ get_rs1(insn) = i.rs1 % 32 /\ Immediate(insn, "I") = Low(i.imm, 12)
        <4> HIDE DEF format, imm
        <4> QED BY <3>1, SMT DEF OperandsKept
      <3> HIDE DEF format
      <3> QED BY <2>1, <3>2, Zenon
    <2> HIDE DEF imm, format
    <2>3. Changed = Write(Arithmetic(op, a, Signed(imm)), next)
      BY <2>1, SMT
    <2>4. Arithmetic(op, a, Signed(imm)) = Plus(a, Signed(imm))
      <3>1. \A x, y : Arithmetic("ADDI", x, y) = Plus(x, y)
        BY SMT DEF Arithmetic
      <3> QED BY <2>1, <3>1, Zenon
    <2> HIDE DEF Changed
    <2>5. Executed(h) = Written(h, i.rd % 32, Plus(h.regs[i.rs1 % 32], Signed(Low(i.imm, 12))))
      BY <1>4, <1>8, <2>2, <2>3, <2>4, Zenon DEF a
    <2> QED BY <1>11, <2>5, Zenon
  <1> QED BY <1>9, <1>10, <1>11, Zenon

LEMMA BreakStep ==
    ASSUME NEW h, At(h, N("EBREAK"))
    PROVE  Executed(h) = [h EXCEPT !.broke = TRUE]
  <1>1. N("EBREAK") \in Line /\ N("EBREAK").op = "EBREAK"
    BY Lines, SMT DEF N, Insn
  <1>2. N("EBREAK").op \in {"EBREAK", "LUI", "ADDI"}
    BY <1>1
  <1> QED BY <1>1, <1>2, StepAt, Zenon

LEMMA LuiStep ==
    ASSUME NEW h, NEW r \in 1..31, NEW p \in Int, At(h, U("LUI", r, p))
    PROVE  Executed(h) = Written(h, r, Fill(12, 0) \o Low(p, 20))
  <1> DEFINE i == U("LUI", r, p)
  <1>1. i \in Line /\ i.op = "LUI" /\ i.rd = r /\ i.imm = p
    <2>1. "LUI" \in {"LUI", "AUIPC"} /\ r \in Int
      OBVIOUS
    <2>2. i \in Line
      BY <2>1, Lines, Zenon
    <2> QED BY <2>2 DEF U, Insn
  <1>2. At(h, i)
    OBVIOUS
  <1> HIDE DEF i
  <1>3. i.op \in {"EBREAK", "LUI", "ADDI"}
    BY <1>1
  <1>4. Executed(h) = Written(h, i.rd % 32, Fill(12, 0) \o Low(i.imm, 20))
    BY <1>1, <1>2, <1>3, StepAt, Zenon
  <1>5. r % 32 = r
    OBVIOUS
  <1> QED BY <1>1, <1>4, <1>5, Zenon

LEMMA AddiStep ==
    ASSUME NEW h, NEW r \in 1..31, NEW s \in 0..31, NEW q \in Int, At(h, I("ADDI", r, s, q))
    PROVE  Executed(h) = Written(h, r, Plus(h.regs[s], Signed(Low(q, 12))))
  <1> DEFINE i == I("ADDI", r, s, q)
  <1>1. i \in Line /\ i.op = "ADDI" /\ i.rd = r /\ i.rs1 = s /\ i.imm = q
    <2>1. r \in Int /\ s \in Int /\ "ADDI" \in Mnemonics
      BY Named, SMT
    <2>2. i \in Line
      BY <2>1, LineMade, Zenon
    <2> QED BY <2>2 DEF I, Insn
  <1>2. At(h, i)
    OBVIOUS
  <1> HIDE DEF i
  <1>3. i.op \in {"EBREAK", "LUI", "ADDI"}
    BY <1>1
  <1>4. Executed(h) = Written(h, i.rd % 32, Plus(h.regs[i.rs1 % 32], Signed(Low(i.imm, 12))))
    BY <1>1, <1>2, <1>3, StepAt, Zenon
  <1>5. r % 32 = r /\ s % 32 = s
    OBVIOUS
  <1> QED BY <1>1, <1>4, <1>5, Zenon

-----------------------------------------------------------------------------
(* Memory with the load of a constant at its start, and how far the hart has  *)
(* come in it.                                                               *)
LoadIn(mem, v) ==
    /\ Cell(mem, 0) = Encoded(U("LUI", 10, UpperPart(v)))
    /\ Cell(mem, 1) = Encoded(I("ADDI", 10, 10, LowerPart(v)))
    /\ Cell(mem, 2) = Encoded(N("EBREAK"))

Along(h, v) ==
    \/ Points(h.pc, 0) /\ ~h.broke
    \/ Points(h.pc, 1) /\ ~h.broke /\ h.regs[10] = Fill(12, 0) \o Low(UpperPart(v), 20)
    \/ Points(h.pc, 2) /\ h.regs[10] = v

Wrote(g, h, r, v) == g.pc = Plus(h.pc, Four) /\ g.regs[r] = v /\ g.mem = h.mem /\ g.broke = h.broke

LEMMA WrittenFields ==
    ASSUME NEW h, HartOK(h), NEW r \in 1..31, NEW v
    PROVE  Wrote(Written(h, r, v), h, r, v)
  <1>1. h \in [pc : Bits32, regs : [0..31 -> Bits32], mem : Memories, led : 0..15, broke : BOOLEAN]
    BY DEF HartOK, Harts
  <1>2. r # 0 /\ r \in 0..31
    OBVIOUS
  <1> HIDE DEF Memories
  <1> QED BY <1>1, <1>2, SMT DEF Written, Wrote

LEMMA BrokenFields ==
    ASSUME NEW h, HartOK(h)
    PROVE  LET g == [h EXCEPT !.broke = TRUE]
           IN g.pc = h.pc /\ g.regs = h.regs /\ g.mem = h.mem
  <1>1. h \in [pc : Bits32, regs : [0..31 -> Bits32], mem : Memories, led : 0..15, broke : BOOLEAN]
    BY DEF HartOK, Harts
  <1> QED BY <1>1

LEMMA PcMoves ==
    ASSUME NEW pc
    PROVE  /\ Points(pc, 0) => WordOf(pc) = 0 /\ Points(Plus(pc, Four), 1)
           /\ Points(pc, 1) => WordOf(pc) = 1 /\ Points(Plus(pc, Four), 2)
           /\ Points(pc, 2) => WordOf(pc) = 2
  <1> DEFINE last == 2^12 - 1
  <1>1. 0 \in 0..last /\ 1 \in 0..last /\ 2 \in 0..last /\ 0 # last /\ 1 # last /\ 0 + 1 = 1 /\ 1 + 1 = 2
    <2>1. 2^12 = 4096
      BY Powers
    <2> QED BY <2>1
  <1>2. \A k \in 0..last : Points(pc, k) => WordOf(pc) = k
    BY PointsAtWord
  <1>3. \A k \in 0..last : Points(pc, k) => Points(Plus(pc, Four), k + 1) \/ k = last
    BY PointsOn
  <1> HIDE DEF last
  <1> QED BY <1>1, <1>2, <1>3

LEMMA OneMore ==
    ASSUME NEW h, HartOK(h), NEW v \in Bits32, LoadIn(h.mem, v), Along(h, v), ~h.broke
    PROVE  Executed(h).mem = h.mem /\ Along(Executed(h), v)
  <1> DEFINE g == Executed(h)
             p == UpperPart(v)
             q == LowerPart(v)
             high == Fill(12, 0) \o Low(p, 20)
  <1>1. 10 \in 1..31 /\ 10 \in 0..31
    OBVIOUS
  <1>2. p \in Int /\ q \in Int /\ Plus(high, Signed(Low(q, 12))) = v
    BY PartsAddUp
  <1>6. \A x : Wrote(Written(h, 10, x), h, 10, x)
    BY <1>1, WrittenFields, Zenon
  <1>3. CASE Points(h.pc, 0) /\ ~h.broke
    <2>1. WordOf(h.pc) = 0 /\ Points(Plus(h.pc, Four), 1)
      BY <1>3, PcMoves
    <2>2. At(h, U("LUI", 10, p))
      BY <2>1, SMT DEF At, LoadIn
    <2>3. g = Written(h, 10, high)
      BY <1>1, <1>2, <2>2, LuiStep, Zenon
    <2>4. g.pc = Plus(h.pc, Four) /\ g.regs[10] = high /\ g.mem = h.mem /\ g.broke = h.broke
      BY <1>6, <2>3, Zenon DEF Wrote
    <2> HIDE DEF g
    <2> QED BY <1>3, <2>1, <2>4, Zenon DEF Along, g
  <1>4. CASE Points(h.pc, 1) /\ ~h.broke /\ h.regs[10] = high
    <2>1. WordOf(h.pc) = 1 /\ Points(Plus(h.pc, Four), 2)
      BY <1>4, PcMoves
    <2>2. At(h, I("ADDI", 10, 10, q))
      BY <2>1, SMT DEF At, LoadIn
    <2>3. g = Written(h, 10, Plus(h.regs[10], Signed(Low(q, 12))))
      BY <1>1, <1>2, <2>2, AddiStep, Zenon
    <2>4. g = Written(h, 10, v)
      BY <1>2, <1>4, <2>3, Zenon
    <2>5. g.pc = Plus(h.pc, Four) /\ g.regs[10] = v /\ g.mem = h.mem
      BY <1>6, <2>4, Zenon DEF Wrote
    <2> HIDE DEF g
    <2> QED BY <2>1, <2>5, Zenon DEF Along, g
  <1>5. CASE Points(h.pc, 2) /\ h.regs[10] = v
    <2>1. WordOf(h.pc) = 2
      BY <1>5, PcMoves
    <2>2. At(h, N("EBREAK"))
      BY <2>1, Zenon DEF At, LoadIn
    <2>3. g = [h EXCEPT !.broke = TRUE]
      BY <2>2, BreakStep, Zenon
    <2>4. g.pc = h.pc /\ g.regs = h.regs /\ g.mem = h.mem
      BY <2>3, BrokenFields, Zenon
    <2> HIDE DEF g
    <2> QED BY <1>5, <2>4, Zenon DEF Along, g
  <1> QED BY <1>3, <1>4, <1>5, Zenon DEF Along

(* The image of the job that loads a constant.                               *)
LEMMA LoadIsHeld ==
    ASSUME ProgramInv, stage # "build", job.name = "load_imm32"
    PROVE  LoadIn(Expected, job.value) /\ job.value \in Bits32
  <1> DEFINE v == job.value
             c1 == U("LUI", 10, UpperPart(v))
             c2 == I("ADDI", 10, 10, LowerPart(v))
             c3 == N("EBREAK")
             code == Program.code
  <1>1. v \in Bits32
    BY ImageAssumption, SMT DEF ProgramInv, Bits32, Bit
  <1>2. Len(code) = 3 /\ code[1] = c1 /\ code[2] = c2 /\ code[3] = c3
    <2>1. code = LoadImm32(10, v) \o <<c3>>
      BY DEF Program
    <2>2. LoadImm32(10, v) = <<c1, c2>>
      BY LoadImm32Is, Zenon
    <2> HIDE DEF c1, c2, c3, code
    <2> DEFINE three == {c1, c2, c3}
               a == <<c1, c2>>
               b == <<c3>>
    <2>3. c1 \in three /\ c2 \in three /\ c3 \in three
      OBVIOUS
    <2> HIDE DEF three
    <2>4. /\ a \in Seq(three) /\ b \in Seq(three) /\ Len(a) = 2 /\ Len(b) = 1
          /\ a[1] = c1 /\ a[2] = c2 /\ b[1] = c3
      BY <2>3
    <2>5. code = a \o b
      BY <2>1, <2>2, Zenon
    <2> HIDE DEF a, b
    <2> DEFINE c == a \o b
    <2>6. /\ Len(c) = Len(a) + Len(b)
          /\ \A k \in 1..(Len(a) + Len(b)) : c[k] = IF k <= Len(a) THEN a[k] ELSE b[k - Len(a)]
      BY <2>4, ConcatProperties, Zenon
    <2> HIDE DEF c
    <2>7. Len(c) = 3 /\ c[1] = a[1] /\ c[2] = a[2] /\ c[3] = b[1]
      BY <2>4, <2>6
    <2> QED BY <2>4, <2>5, <2>7, Zenon DEF c
  <1>3. words = [k \in 1..Len(code) |-> Encoded(code[k])]
    BY SMT DEF ProgramInv
  <1> HIDE DEF code, c1, c2, c3
  <1>5. words = [k \in 1..3 |-> Encoded(code[k])]
    BY <1>3, <1>2, Zenon
  <1>6. words \in Seq({Encoded(c1), Encoded(c2), Encoded(c3)}) /\ Len(words) = 3
    <2> DEFINE three == {Encoded(c1), Encoded(c2), Encoded(c3)}
               f == [k \in 1..3 |-> Encoded(code[k])]
    <2>1. \A k \in 1..3 : Encoded(code[k]) \in three
      BY <1>2
    <2> HIDE DEF three
    <2>2. f \in [1..3 -> three]
      BY <2>1
    <2> HIDE DEF f
    <2>3. f \in Seq(three) /\ Len(f) = 3
      BY <2>2, FunctionIsSeq
    <2> QED BY <1>5, <2>3 DEF three, f
  <1>7. words[1] = Encoded(c1) /\ words[2] = Encoded(c2) /\ words[3] = Encoded(c3)
    BY <1>2, <1>5
  <1>8. /\ Cell(Expected, 0) = words[1] /\ Cell(Expected, 1) = words[2] /\ Cell(Expected, 2) = words[3]
    BY <1>6 DEF Cell, Expected
  <1> QED BY <1>1, <1>7, <1>8, Zenon DEF LoadIn, c1, c2, c3

(* The invariant: nothing has broken before the run, and a hart that loads a  *)
(* constant is somewhere along its three words.                              *)
LoadInv ==
    /\ stage # "run" => ~hart.broke
    /\ stage = "run" /\ job.name = "load_imm32" => LoadIn(hart.mem, job.value) /\ Along(hart, job.value)

LEMMA LoadStarts == Init => LoadInv
  <1> SUFFICES ASSUME Init PROVE LoadInv
    OBVIOUS
  <1>1. stage = "build" /\ ~hart.broke
    BY DEF Init
  <1> QED BY <1>1 DEF LoadInv

LEMMA LoadOn == Inv /\ Inv' /\ LoadInv /\ [Next]_vars => LoadInv'
  <1> SUFFICES ASSUME Inv, Inv', LoadInv, [Next]_vars PROVE LoadInv'
    OBVIOUS
  <1>1. ProgramInv /\ HartOK(hart)
    BY DEF Inv, HartInv
  <1>2. CASE Start
    <2> DEFINE pc == [Zero EXCEPT ![32] = 1]
               g == [hart EXCEPT !.mem = Expected, !.pc = pc]
    <2>1. stage = "loaded" /\ stage' = "run" /\ job' = job /\ hart' = g
      BY <1>2, Zenon DEF Start
    <2>2. g.pc = pc /\ g.mem = Expected /\ g.broke = hart.broke
      <3>1. hart \in [pc : Bits32, regs : [0..31 -> Bits32], mem : Memories, led : 0..15, broke : BOOLEAN]
        BY <1>1 DEF HartOK, Harts
      <3> HIDE DEF pc
      <3> QED BY <3>1
    <2>3. ~hart.broke
      BY <2>1, Zenon DEF LoadInv
    <2>4. job.name = "load_imm32" => LoadIn(Expected, job.value)
      BY <1>1, <2>1, LoadIsHeld, SMT
    <2>5. Points(pc, 0)
      BY PointsFirst
    <2> HIDE DEF g, pc
    <2>6. hart'.mem = Expected /\ hart'.pc = pc /\ ~hart'.broke
      BY <2>1, <2>2, <2>3, Zenon
    <2>7. Along(hart', job.value)
      BY <2>5, <2>6, Zenon DEF Along
    <2> QED BY <2>1, <2>4, <2>6, <2>7, SMT DEF LoadInv
  <1>3. CASE Step
    <2>1. stage = "run" /\ stage' = stage /\ job' = job /\ hart' = Executed(hart) /\ ~hart.broke
      BY <1>3, Zenon DEF Step
    <2>2. CASE job.name = "load_imm32"
      <3>1. LoadIn(hart.mem, job.value) /\ Along(hart, job.value)
        BY <2>1, <2>2, Zenon DEF LoadInv
      <3>2. job.value \in Bits32
        BY <1>1, <2>1, <2>2, LoadIsHeld, SMT
      <3>3. hart'.mem = hart.mem /\ Along(hart', job.value)
        BY <1>1, <2>1, <3>1, <3>2, OneMore, Zenon
      <3> QED BY <2>1, <3>1, <3>3, Zenon DEF LoadInv
    <2> QED BY <2>1, <2>2, Zenon DEF LoadInv
  <1>4. ASSUME hart' = hart, stage' # "run", stage # "run" PROVE LoadInv'
    BY <1>4, Zenon DEF LoadInv
  <1>5. CASE Build
    <2>1. stage = "build" /\ stage' = job.via /\ hart' = hart /\ job \in Jobs
      BY <1>1, <1>5, SMT DEF Build, ProgramInv
    <2>2. job.via \in {"direct", "bin", "hex"}
      BY <2>1, ImageAssumption, SMT
    <2>3. stage # "run" /\ stage' # "run"
      BY <2>1, <2>2
    <2> QED BY <1>4, <2>1, <2>3, Zenon
  <1>6. CASE Direct \/ LoadBin \/ Align
    <2>1. hart' = hart /\ stage \in {"direct", "bin", "align"} /\ stage' \in {"loaded", "refused"}
      <3>1. CASE Direct
        BY <3>1, SMT DEF Direct, Take
      <3>2. CASE LoadBin
        BY <3>2, SMT DEF LoadBin, Take
      <3>3. CASE Align
        BY <3>3, SMT DEF Align, Take
      <3> QED BY <1>6, <3>1, <3>2, <3>3
    <2> QED BY <1>4, <2>1, SMT
  <1>7. CASE Fetch(FALSE) \/ Fetch(TRUE)
    <2>1. hart' = hart /\ stage = "hex" /\ (stage' = "parse" \/ stage' = stage)
      BY <1>7, Zenon DEF Fetch
    <2> QED BY <1>4, <2>1, SMT
  <1>8. CASE FetchCut(FALSE) \/ FetchCut(TRUE)
    <2>1. hart' = hart /\ stage = "hex" /\ stage' = stage
      BY <1>8, Zenon DEF FetchCut
    <2> QED BY <1>4, <2>1, SMT
  <1>9. CASE Spoil
    <2>1. hart' = hart /\ stage = "parse" /\ stage' = stage
      BY <1>9, Zenon DEF Spoil, Unread
    <2> QED BY <1>4, <2>1, SMT
  <1>10. CASE ParseLine
    <2>1. hart' = hart /\ stage = "parse"
      BY <1>10, Zenon DEF ParseLine
    <2>2. stage' \in {"parse", "align", "refused"}
      <3>1. loader'.state \in {"parsing", "parsed", Refused}
        BY SMT DEF Inv, FileInv, FileOK, Loaders
      <3> QED BY <1>10, <3>1 DEF ParseLine
    <2> QED BY <1>4, <2>1, <2>2, SMT
  <1>11. CASE UNCHANGED vars
    <2>1. stage' = stage /\ job' = job /\ hart' = hart
      BY <1>11 DEF vars
    <2> QED BY <2>1, Zenon DEF LoadInv
  <1> QED BY <1>2, <1>3, <1>5, <1>6, <1>7, <1>8, <1>9, <1>10, <1>11, Zenon DEF Next

(* led_blink.py:48-55, _load_imm32_insns: the pair LUI, ADDI that loads a     *)
(* 32-bit immediate, the upper part one more, wrapped at 2^20, when the lower *)
(* is negative.  A hart that reaches the EBREAK after them has the value in   *)
(* x10.                                                                      *)
ConstantsAreLoaded == job.name = "load_imm32" /\ hart.broke => hart.regs[10] = job.value

LEMMA LoadedAtTheEnd == Inv /\ LoadInv => ConstantsAreLoaded
  <1> SUFFICES ASSUME Inv, LoadInv, job.name = "load_imm32", hart.broke PROVE hart.regs[10] = job.value
    BY Zenon DEF ConstantsAreLoaded
  <1>1. stage = "run"
    BY Zenon DEF LoadInv
  <1>2. Along(hart, job.value)
    BY <1>1, Zenon DEF LoadInv
  <1> QED BY <1>2, Zenon DEF Along

(* The two instructions load every one of the 2^32 values, whichever way      *)
(* their image came into memory (led_blink.py, _load_imm32_insns).            *)
THEOREM ConstantsArrive == Spec => []ConstantsAreLoaded
  <1>1. Spec => []Inv
    BY SpecInv
  <1>2. Inv /\ Inv' /\ LoadInv /\ [Next]_vars => LoadInv'
    BY LoadOn
  <1> QED BY <1>1, <1>2, LoadStarts, LoadedAtTheEnd, PTL DEF Spec
=============================================================================
