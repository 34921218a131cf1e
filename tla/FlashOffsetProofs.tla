-------------------------- MODULE FlashOffsetProofs --------------------------
(***************************************************************************)
(* What holds of offset() for every size of a file and of its blocks: it   *)
(* is never 0, and it is the room that littlefs' layout leaves.            *)
(***************************************************************************)
EXTENDS FlashOffset, FiniteSetTheorems, WellFoundedInduction, TLAPS

(* The least block size littlefs allows; the chip has 131072.              *)
LeastBlock == 128

-----------------------------------------------------------------------------
(* Powers of two, division and the least element of a set.                 *)

LEMMA PowerValues ==
    \A k :
    /\ k = 0 => 2^k = 2^0
    /\ k = 1 => 2^k = 2^1
    /\ k = 2 => 2^k = 2^2
    /\ k = 3 => 2^k = 2^3
    /\ k = 4 => 2^k = 2^4
    /\ k = 5 => 2^k = 2^5
    /\ k = 6 => 2^k = 2^6
    /\ k = 7 => 2^k = 2^7
    /\ k = 8 => 2^k = 2^8
    /\ k = 9 => 2^k = 2^9
    /\ k = 10 => 2^k = 2^10
    /\ k = 11 => 2^k = 2^11
    /\ k = 12 => 2^k = 2^12
    /\ k = 13 => 2^k = 2^13
    /\ k = 14 => 2^k = 2^14
    /\ k = 15 => 2^k = 2^15
    /\ k = 16 => 2^k = 2^16
    /\ k = 17 => 2^k = 2^17
    /\ k = 18 => 2^k = 2^18
    /\ k = 19 => 2^k = 2^19
    /\ k = 20 => 2^k = 2^20
    /\ k = 21 => 2^k = 2^21
    /\ k = 22 => 2^k = 2^22
    /\ k = 23 => 2^k = 2^23
    /\ k = 24 => 2^k = 2^24
    /\ k = 25 => 2^k = 2^25
BY Zenon

LEMMA PowerIsNumber == \A k \in 0 .. 25 : 2^k \in Nat \ {0}
BY PowerValues

LEMMA PowerDoubles == \A k \in 0 .. 24 : \A j : j = k + 1 => 2^j = 2 * 2^k
BY PowerValues

LEMMA Division ==
    ASSUME NEW a \in Int, NEW b \in Nat \ {0}
    PROVE  /\ a \div b \in Int /\ a % b \in 0 .. b - 1
           /\ a = b * (a \div b) + (a % b)
           /\ b * (a \div b) <= a
           /\ a < b * (a \div b) + b
<1>1. a \div b \in Int /\ b * (a \div b) <= a /\ a < b * (a \div b) + b
  OBVIOUS
<1>2. a % b \in 0 .. b - 1
  OBVIOUS
<1>3. a = b * (a \div b) + (a % b)
  OBVIOUS
<1> QED
  BY <1>1, <1>2, <1>3

LEMMA SmallerQuotient ==
    ASSUME NEW a \in Int, NEW c \in Int, NEW b \in Nat \ {0}, a <= c
    PROVE  a \div b \in Int /\ c \div b \in Int /\ a \div b <= c \div b
<1> DEFINE p == a \div b
           q == c \div b
<1>1. p \in Int /\ b * p <= a
  BY Division
<1>2. q \in Int /\ c < b * q + b
  BY Division
<1> HIDE DEF p, q
<1>3. p <= q
  <2> SUFFICES ASSUME q + 1 <= p PROVE FALSE
    BY <1>1, <1>2
  <2>1. b * (q + 1) <= b * p
    BY <1>1, <1>2
  <2>2. b * (q + 1) = b * q + b /\ b * q \in Int /\ b * p \in Int
    BY <1>1, <1>2
  <2> QED
    BY <1>1, <1>2, <2>1, <2>2
<1> QED
  BY <1>1, <1>2, <1>3 DEF p, q

LEMMA DivisionUnique ==
    ASSUME NEW a \in Int, NEW b \in Nat \ {0}, NEW q \in Int, NEW r \in 0 .. b - 1,
           a = b * q + r
    PROVE  a \div b = q /\ a % b = r
<1> DEFINE d == a \div b
<1>1. d \in Int /\ b * d <= a /\ a < b * d + b /\ a = b * d + (a % b)
  BY Division
<1> HIDE DEF d
<1>2. ~(d < q)
  <2>1. d < q => b * (d + 1) <= b * q
    BY <1>1
  <2> QED
    BY <2>1, <1>1
<1>3. ~(q < d)
  <2>1. q < d => b * (q + 1) <= b * d
    BY <1>1
  <2> QED
    BY <2>1, <1>1
<1>4. d = q
  BY <1>1, <1>2, <1>3
<1>5. a % b = r
  BY <1>1, <1>4, Division
<1> QED
  BY <1>4, <1>5 DEF d

(* What counting down does to a quotient.                                  *)
LEMMA Predecessor ==
    ASSUME NEW n \in Nat \ {0}, NEW p \in Nat \ {0}
    PROVE  (n - 1) \div p = IF n % p = 0 THEN n \div p - 1 ELSE n \div p
<1> DEFINE q == n \div p
           r == n % p
<1>1. n \in Int /\ q \in Int /\ r \in 0 .. p - 1 /\ n = p * q + r
  <2>1. n \in Int
    OBVIOUS
  <2> QED
    BY <2>1, Division
<1> HIDE DEF q, r
<1>2. CASE r = 0
  <2>1. n - 1 = p * (q - 1) + (p - 1)
    BY <1>1, <1>2
  <2>2. q - 1 \in Int /\ p - 1 \in 0 .. p - 1 /\ n - 1 \in Int
    BY <1>1
  <2>3. (n - 1) \div p = q - 1
    BY <2>1, <2>2, DivisionUnique
  <2> QED
    BY <1>2, <2>3
<1>3. CASE r # 0
  <2>1. n - 1 = p * (q) + (r - 1)
    BY <1>1, <1>3
  <2>2. r - 1 \in 0 .. p - 1 /\ n - 1 \in Int
    BY <1>1, <1>3
  <2>3. (n - 1) \div p = q
    BY <1>1, <2>1, <2>2, DivisionUnique
  <2> QED
    BY <1>3, <2>3
<1> QED
  BY <1>2, <1>3 DEF q, r

(* A multiple of 2p is an even multiple of p.                              *)
LEMMA Doubled ==
    ASSUME NEW n \in Nat, NEW p \in Nat \ {0}
    PROVE  n % (2 * p) = 0 <=> n % p = 0 /\ (n \div p) % 2 = 0
<1> DEFINE q == n \div p
           r == n % p
           t == q % 2
<1>1. q \in Int /\ r \in 0 .. p - 1 /\ n = p * q + r
  BY Division
<1>2. q \div 2 \in Int /\ t \in 0 .. 1 /\ q = 2 * (q \div 2) + t
  BY <1>1, Division
<1> HIDE DEF q, r, t
<1>3. n = (2 * p) * (q \div 2) + (p * t + r)
  BY <1>1, <1>2
<1>4. p * t + r \in 0 .. 2 * p - 1
  <2>1. t = 0 \/ t = 1
    BY <1>2
  <2> QED
    BY <1>1, <2>1
<1>5. 2 * p \in Nat \ {0} /\ n \in Int
  OBVIOUS
<1>6. n % (2 * p) = p * t + r
  BY <1>2, <1>3, <1>4, <1>5, DivisionUnique
<1>7. p * t + r = 0 <=> r = 0 /\ t = 0
  <2>1. t = 0 \/ t = 1
    BY <1>2
  <2> QED
    BY <1>1, <2>1
<1> QED
  BY <1>6, <1>7 DEF q, r, t

(* A set of numbers has a least one; what follows uses it in the place of  *)
(* induction.                                                              *)
LEMMA LeastNumber ==
    ASSUME NEW T \in SUBSET Nat, T # {}
    PROVE  \E x \in T : \A y \in T : x <= y
<1> DEFINE R == OpToRel(<, Nat)
<1>1. R = {ss \in Nat \X Nat : ss[1] < ss[2]}
  BY DEF OpToRel
<1>2. IsWellFoundedOn(R, Nat)
  BY NatLessThanWellFounded
<1> HIDE DEF R
<1>3. PICK x \in T : \A y \in T : ~ (<<y, x>> \in R)
  BY <1>2, WFMin
<1>4. \A y \in T : x <= y
  <2> SUFFICES ASSUME NEW y \in T, y < x PROVE FALSE
    OBVIOUS
  <2>1. <<y, x>> \in Nat \X Nat /\ <<y, x>>[1] < <<y, x>>[2]
    OBVIOUS
  <2> QED
    BY <1>1, <1>3, <2>1
<1> QED
  BY <1>4

-----------------------------------------------------------------------------
(* The bits of a number.                                                   *)

(* The powers of two that divide n, and the bits that are set.             *)
Low(n) == {k \in Bits : n % 2^k = 0}
Ones(n) == {k \in Bits : Bit(n, k) = 1}

(* With a power of two the lower ones divide.                              *)
LEMMA LowerDivisors ==
    ASSUME NEW n \in Nat, NEW k \in 0 .. 25, n % 2^k = 0
    PROVE  \A j \in 0 .. k : n % 2^j = 0
<1> DEFINE T == {j \in 0 .. k : \A i \in j .. k : n % 2^i = 0}
<1>1. k \in T
  OBVIOUS
<1>2. PICK m \in T : \A j \in T : m <= j
  <2>1. T \in SUBSET Nat /\ T # {}
    BY <1>1
  <2> QED
    BY <2>1, LeastNumber
<1>3. m = 0
  <2> SUFFICES ASSUME m # 0 PROVE FALSE
    OBVIOUS
  <2> DEFINE j == m - 1
  <2>1. j \in 0 .. 24 /\ j \in 0 .. 25 /\ m = j + 1 /\ n % 2^m = 0
    BY <1>2
  <2> HIDE DEF j
  <2>2. 2^m = 2 * 2^j /\ 2^j \in Nat \ {0}
    BY <2>1, PowerDoubles, PowerIsNumber
  <2>3. n % 2^j = 0
    BY <2>1, <2>2, Doubled
  <2>4. \A i \in j .. k : n % 2^i = 0
    BY <1>2, <2>1, <2>3
  <2>5. j \in T
    BY <1>2, <2>1, <2>4
  <2> QED
    BY <1>2, <2>1, <2>5
<1> QED
  BY <1>2, <1>3

(* The next bit up divides if this bit is clear.                           *)
LEMMA NextBit ==
    ASSUME NEW n \in Nat, NEW k \in Bits
    PROVE  n % 2^(k + 1) = 0 <=> n % 2^k = 0 /\ Bit(n, k) = 0
<1>1. 2^k \in Nat \ {0} /\ 2^(k + 1) = 2 * 2^k
  <2>1. k \in 0 .. 24 /\ k \in 0 .. 25 /\ k + 1 = k + 1
    BY DEF Bits
  <2> QED
    BY <2>1, PowerIsNumber, PowerDoubles
<1> QED
  BY <1>1, Doubled DEF Bit

LEMMA Parity ==
    ASSUME NEW a \in Int
    PROVE  a % 2 \in {0, 1} /\ (a - 1) % 2 = 1 - (a % 2)
OBVIOUS

(* Counting down flips a bit if the bits below it are clear.               *)
LEMMA FlippedBit ==
    ASSUME NEW n \in Nat \ {0}, NEW k \in Bits
    PROVE  /\ Bit(n, k) \in {0, 1}
           /\ Bit(n - 1, k) = IF k \in Low(n) THEN 1 - Bit(n, k) ELSE Bit(n, k)
<1> DEFINE p == 2^k
           a == n \div p
<1>1. p \in Nat \ {0}
  <2>1. k \in 0 .. 25
    BY DEF Bits
  <2> QED
    BY <2>1, PowerIsNumber
<1>2. a \in Int
  <2>1. n \in Int
    OBVIOUS
  <2> HIDE DEF p
  <2> QED
    BY <1>1, <2>1, Division
<1>3. (n - 1) \div p = IF n % p = 0 THEN a - 1 ELSE a
  BY <1>1, Predecessor
<1>4. Bit(n, k) = a % 2 /\ Bit(n - 1, k) = ((n - 1) \div p) % 2
  BY DEF Bit
<1>5. k \in Low(n) <=> n % p = 0
  BY DEF Low
<1> HIDE DEF p, a
<1> QED
  BY <1>2, <1>3, <1>4, <1>5, Parity

LEMMA SubsetsOfBits ==
    ASSUME NEW S \in SUBSET Bits
    PROVE  IsFiniteSet(S) /\ Cardinality(S) \in Nat /\ Cardinality(S) <= 25
<1>1. IsFiniteSet(Bits) /\ Cardinality(Bits) = 25
  <2>1. IsFiniteSet(0 .. 24)
        /\ Cardinality(0 .. 24) = IF 0 > 24 THEN 0 ELSE 24 - 0 + 1
    BY FS_Interval, 0 \in Int, 24 \in Int
  <2> QED
    BY <2>1 DEF Bits
<1>2. IsFiniteSet(S) /\ Cardinality(S) <= Cardinality(Bits)
  BY <1>1, FS_Subset
<1> QED
  BY <1>1, <1>2, FS_CardinalityType

(* A number has at most as many one bits as it has bits.                   *)
LEMMA PopcountBound == \A n : Popcount(n) \in 0 .. 25
<1> TAKE n
<1>1. Ones(n) \in SUBSET Bits
  BY DEF Ones
<1>2. Popcount(n) = Cardinality(Ones(n))
  BY DEF Popcount, Ones
<1> QED
  BY <1>1, <1>2, SubsetsOfBits

(* The bits of the number below.                                           *)
LEMMA OnesBelow ==
    ASSUME NEW n \in Nat \ {0}
    PROVE  Ones(n - 1) = (Ones(n) \ Low(n)) \cup (Low(n) \ Ones(n))
<1>1. \A k \in Bits : k \in Ones(n) <=> Bit(n, k) = 1
  BY DEF Ones
<1>2. \A k \in Bits : k \in Ones(n - 1) <=> Bit(n - 1, k) = 1
  BY DEF Ones
<1>3. Low(n) \subseteq Bits /\ Ones(n) \subseteq Bits /\ Ones(n - 1) \subseteq Bits
  BY DEF Low, Ones
<1>4. \A k \in Bits : k \in Ones(n - 1) <=> IF k \in Low(n) THEN k \notin Ones(n) ELSE k \in Ones(n)
  <2> TAKE k \in Bits
  <2>1. /\ Bit(n, k) \in {0, 1}
        /\ Bit(n - 1, k) = IF k \in Low(n) THEN 1 - Bit(n, k) ELSE Bit(n, k)
    BY FlippedBit
  <2> QED
    BY <2>1, <1>1, <1>2
<1> QED
  BY <1>3, <1>4

(* Unless all bits are clear, one is the lowest that is set.               *)
LEMMA LowestOne ==
    ASSUME NEW n \in Nat \ {0}, n % 2^25 # 0
    PROVE  \E h \in Bits : Low(n) \cap Ones(n) = {h}
<1> DEFINE T == {k \in 0 .. 25 : n % 2^k # 0}
<1>1. PICK m \in T : \A k \in T : m <= k
  <2>1. 25 \in T /\ T \in SUBSET Nat
    OBVIOUS
  <2> QED
    BY <2>1, LeastNumber
<1>2. m # 0
  <2>1. 2^0 = 1 /\ n % 1 = 0
    OBVIOUS
  <2> QED
    BY <1>1, <2>1
<1> DEFINE h == m - 1
<1>3. h \in Bits /\ h \in 0 .. 25 /\ m = h + 1
  BY <1>1, <1>2 DEF Bits
<1>4. n % 2^h = 0
  BY <1>1, <1>3
<1>5. n % 2^(h + 1) # 0
  BY <1>1, <1>3
<1> HIDE DEF h, T
<1>6. h \in Low(n) /\ h \in Ones(n)
  <2>1. Bit(n, h) # 0 /\ Bit(n, h) \in {0, 1}
    BY <1>3, <1>4, <1>5, NextBit, FlippedBit
  <2> QED
    BY <1>3, <1>4, <2>1 DEF Low, Ones
<1>7. ASSUME NEW j \in Bits, NEW k \in Bits, j \in Ones(n), k \in Low(n)
      PROVE  ~(j < k)
  <2> SUFFICES ASSUME j < k PROVE FALSE
    OBVIOUS
  <2>1. k \in 0 .. 25 /\ j + 1 \in 0 .. k
    BY <1>7 DEF Bits
  <2>2. n % 2^k = 0
    BY <1>7 DEF Low
  <2>3. n % 2^(j + 1) = 0
    BY <2>1, <2>2, LowerDivisors
  <2>4. Bit(n, j) = 0
    BY <2>3, NextBit
  <2> QED
    BY <1>7, <2>4 DEF Ones
<1>8. \A k \in Low(n) \cap Ones(n) : k = h
  <2> TAKE k \in Low(n) \cap Ones(n)
  <2>1. k \in Bits
    BY DEF Low
  <2>2. ~(k < h) /\ ~(h < k)
    BY <1>3, <1>6, <1>7, <2>1
  <2> QED
    BY <1>3, <2>1, <2>2 DEF Bits
<1> QED
  BY <1>3, <1>6, <1>8

(* Counting down clears the lowest one and sets the zeros below it.        *)
LEMMA PopcountBelow ==
    ASSUME NEW n \in Nat \ {0}
    PROVE  Popcount(n - 1) = Popcount(n) + Cardinality(Low(n)) - (IF n % 2^25 = 0 THEN 0 ELSE 2)
<1>1. /\ IsFiniteSet(Low(n)) /\ Cardinality(Low(n)) \in Nat
      /\ IsFiniteSet(Ones(n)) /\ Cardinality(Ones(n)) \in Nat
  BY SubsetsOfBits DEF Low, Ones
<1>2. Popcount(n - 1) = Cardinality(Ones(n - 1)) /\ Popcount(n) = Cardinality(Ones(n))
  BY DEF Popcount, Ones
<1>3. CASE n % 2^25 = 0
  <2>1. ASSUME NEW k \in Bits PROVE k \notin Ones(n)
    <3>1. 25 \in 0 .. 25 /\ k + 1 \in 0 .. 25
      BY DEF Bits
    <3>2. n % 2^(k + 1) = 0
      BY <1>3, <3>1, LowerDivisors
    <3> QED
      BY <3>2, NextBit DEF Ones
  <2>2. Ones(n) = {}
    BY <2>1 DEF Ones
  <2>3. Ones(n - 1) = Low(n)
    BY <2>2, OnesBelow
  <2>4. Cardinality(Ones(n)) = 0
    BY <2>2, FS_EmptySet
  <2> QED
    BY <1>1, <1>2, <1>3, <2>3, <2>4
<1>4. CASE n % 2^25 # 0
  <2>1. PICK h \in Bits : Low(n) \cap Ones(n) = {h}
    BY <1>4, LowestOne
  <2> DEFINE A == Ones(n) \ {h}
             B == Low(n) \ {h}
  <2>2. Ones(n - 1) = A \cup B /\ A \cap B = {}
    BY <2>1, OnesBelow
  <2>3. h \in Ones(n) /\ h \in Low(n)
    BY <2>1
  <2>4. /\ IsFiniteSet(A) /\ Cardinality(A) = Cardinality(Ones(n)) - 1
        /\ IsFiniteSet(B) /\ Cardinality(B) = Cardinality(Low(n)) - 1
    BY <1>1, <2>3, FS_RemoveElement
  <2>5. Cardinality(A \cap B) = 0
    BY <2>2, FS_EmptySet
  <2> HIDE DEF A, B
  <2>6. Cardinality(A \cup B) = Cardinality(A) + Cardinality(B) - Cardinality(A \cap B)
    BY <2>4, FS_Union
  <2>7. Cardinality(Ones(n - 1)) = Cardinality(Ones(n)) + Cardinality(Low(n)) - 2
    <3>1. Cardinality(Ones(n - 1)) = Cardinality(A \cup B)
      BY <2>2
    <3>2. Cardinality(A \cup B)
              = (Cardinality(Ones(n)) - 1) + (Cardinality(Low(n)) - 1) - 0
      BY <2>4, <2>5, <2>6
    <3> QED
      BY <1>1, <3>1, <3>2
  <2> QED
    BY <1>2, <1>4, <2>7
<1> QED
  BY <1>3, <1>4

-----------------------------------------------------------------------------
(* Where blocks end, without recursion; the last summand is 0 for every    *)
(* block a file can have.                                                  *)
EndOf(n, blocksize) ==
    blocksize + (blocksize - 8) * n + 4 * Popcount(n) + 8 * (n \div 2^25)

LEMMA EndType ==
    ASSUME NEW n \in Nat, NEW b \in Nat
    PROVE  EndOf(n, b) \in Int
<1>1. Popcount(n) \in Int
  BY PopcountBound
<1>2. n \div 2^25 \in Int
  OBVIOUS
<1> HIDE DEF Popcount
<1> QED
  BY <1>1, <1>2 DEF EndOf

LEMMA EndOfFirst == ASSUME NEW b \in Nat PROVE EndOf(0, b) = b
<1>1. Ones(0) = {}
  <2>1. ASSUME NEW k \in Bits PROVE k \notin Ones(0)
    <3>1. k \in 0 .. 25
      BY DEF Bits
    <3>2. 2^k \in Nat \ {0}
      BY <3>1, PowerIsNumber
    <3>3. 0 \div 2^k = 0
      BY <3>2
    <3>4. Bit(0, k) = 0
      BY <3>3 DEF Bit
    <3> QED
      BY <3>4 DEF Ones
  <2> QED
    BY <2>1 DEF Ones
<1>2. Popcount(0) = 0
  BY <1>1, FS_EmptySet DEF Popcount, Ones
<1>3. 0 \div 2^25 = 0
  OBVIOUS
<1> QED
  BY <1>2, <1>3 DEF EndOf

(* Each block adds what it holds besides its pointers.                     *)
LEMMA EndOfNext ==
    ASSUME NEW n \in Nat \ {0}, NEW b \in Nat
    PROVE  EndOf(n, b) = EndOf(n - 1, b) + Capacity(n, b)
<1> DEFINE P == Popcount(n)
           P1 == Popcount(n - 1)
           L == Cardinality(Low(n))
           D == n \div 2^25
           D1 == (n - 1) \div 2^25
<1>1. P \in Int /\ P1 \in Int
  BY PopcountBound
<1>2. L \in Int
  BY SubsetsOfBits DEF Low
<1>3. D \in Int /\ D1 \in Int
  OBVIOUS
<1>4. Capacity(n, b) = b - 4 * L
  BY DEF Capacity, Pointers, Word, Low
<1>5. P1 = P + L - (IF n % 2^25 = 0 THEN 0 ELSE 2)
  BY PopcountBelow
<1>6. D1 = IF n % 2^25 = 0 THEN D - 1 ELSE D
  BY 2^25 \in Nat \ {0}, Predecessor
<1>7. EndOf(n, b) = b + (b - 8) * n + 4 * P + 8 * D
  BY DEF EndOf
<1>8. EndOf(n - 1, b) = b + (b - 8) * (n - 1) + 4 * P1 + 8 * D1
  BY DEF EndOf
<1> HIDE DEF P, P1, L, D, D1
<1>9. (b - 8) * (n - 1) = (b - 8) * n - (b - 8)
  OBVIOUS
<1>10. 4 * P + 8 * D = 4 * P1 + 8 * D1 - 4 * L + 8
  <2>1. CASE n % 2^25 = 0
    BY <2>1, <1>1, <1>2, <1>3, <1>5, <1>6
  <2>2. CASE n % 2^25 # 0
    BY <2>2, <1>1, <1>2, <1>3, <1>5, <1>6
  <2> QED
    BY <2>1, <2>2
<1>11. (b - 8) * n \in Int
  OBVIOUS
<1> QED
  BY <1>1, <1>2, <1>3, <1>4, <1>7, <1>8, <1>9, <1>10, <1>11

(* The recursive function, which this shows to exist and to be the only one. *)
LEMMA BlockEndsClosed ==
    ASSUME NEW b \in Nat
    PROVE  \A n \in Nat : BlockEnds(b)[n] = EndOf(n, b)
<1> DEFINE E == BlockEnds(b)
           G == [n \in Nat |-> EndOf(n, b)]
<1>1. G = [n \in Nat |-> IF n = 0 THEN b ELSE G[n - 1] + Capacity(n, b)]
  <2>1. ASSUME NEW n \in Nat
        PROVE  G[n] = IF n = 0 THEN b ELSE G[n - 1] + Capacity(n, b)
    <3>1. CASE n = 0
      BY <3>1, EndOfFirst
    <3>2. CASE n # 0
      <4>1. n \in Nat \ {0} /\ n - 1 \in Nat
        BY <3>2
      <4>2. G[n - 1] = EndOf(n - 1, b)
        BY <4>1
      <4>3. EndOf(n, b) = EndOf(n - 1, b) + Capacity(n, b)
        BY <4>1, EndOfNext
      <4> QED
        BY <3>2, <4>2, <4>3
    <3> QED
      BY <3>1, <3>2
  <2> HIDE DEF G
  <2>2. G = [n \in Nat |-> G[n]]
    BY DEF G
  <2> QED
    BY <2>1, <2>2, Zenon
<1> HIDE DEF G
<1>2. E = [n \in Nat |-> IF n = 0 THEN b ELSE E[n - 1] + Capacity(n, b)]
  <2> DEFINE Def(f) == f = [n \in Nat |-> IF n = 0 THEN b ELSE f[n - 1] + Capacity(n, b)]
  <2>1. E = CHOOSE f : Def(f)
    BY DEF BlockEnds
  <2>2. Def(G)
    BY <1>1
  <2> HIDE DEF Def, E
  <2>3. Def(E)
    BY <2>1, <2>2
  <2> QED
    BY <2>3 DEF Def
<1> HIDE DEF E
<1> DEFINE T == {n \in Nat : E[n] # EndOf(n, b)}
<1>3. T = {}
  <2> SUFFICES ASSUME T # {} PROVE FALSE
    OBVIOUS
  <2>1. PICK m \in T : \A k \in T : m <= k
    BY LeastNumber
  <2>2. m \in Nat /\ E[m] = IF m = 0 THEN b ELSE E[m - 1] + Capacity(m, b)
    BY <1>2
  <2>3. m # 0
    BY <2>1, <2>2, EndOfFirst
  <2>4. m - 1 \in Nat /\ m \in Nat \ {0}
    BY <2>2, <2>3
  <2>5. m - 1 \notin T
    BY <2>1, <2>4
  <2>6. E[m - 1] = EndOf(m - 1, b)
    BY <2>4, <2>5
  <2>7. E[m] = EndOf(m, b)
    BY <2>2, <2>3, <2>4, <2>6, EndOfNext
  <2> QED
    BY <2>1, <2>7
<1>4. \A n \in Nat : E[n] = EndOf(n, b)
  BY <1>3
<1> QED
  BY <1>4 DEF E

-----------------------------------------------------------------------------
(* offset() never returns zero: for every file size there is room left in  *)
(* the block the next byte goes to (flash.cpp:17-29).                      *)
THEOREM OffsetNeverZero ==
    ASSUME NEW filesize \in Nat, NEW blocksize \in Nat, blocksize >= LeastBlock
    PROVE  Offset(filesize, blocksize) \in Int /\ Offset(filesize, blocksize) >= 1
<1>1. CASE filesize < blocksize
  BY <1>1 DEF Offset, LeastBlock
<1>2. CASE ~(filesize < blocksize)
  <2> DEFINE data == blocksize - 2 * Word
             q == filesize \div data
             pop == Popcount(q - 1)
             rest == filesize - Word * (pop + 2)
             n == rest \div data
  <2>1. data \in Nat \ {0} /\ data >= 120 /\ data + 8 = blocksize /\ Word = 4
    BY DEF LeastBlock, Word
  <2> HIDE DEF data
  <2>2. q \in Int /\ data * q <= filesize /\ filesize < data * q + data
    BY <2>1, Division
  <2> HIDE DEF q
  <2>3. pop \in 0 .. 25
    BY <2>2, PopcountBound
  <2> HIDE DEF pop
  <2>4. rest \in Int /\ rest = filesize - 4 * pop - 8
    BY <2>1, <2>3
  <2> HIDE DEF rest
  <2>5. n \in Int /\ data * n <= rest /\ rest < data * n + data
    BY <2>1, <2>4, Division
  <2> HIDE DEF n
  <2>6. Popcount(n) \in 0 .. 25
    BY <2>5, PopcountBound
  <2>7. Offset(filesize, blocksize) = blocksize - (filesize - data * n - 4 * Popcount(n))
    BY <1>2, <2>1 DEF Offset, data, q, pop, rest, n
  <2>8. n >= q - 1
    <3>1. data * (q - 1) <= rest
      BY <2>1, <2>2, <2>3, <2>4
    <3>2. data * (q - 1) < data * (n + 1)
      BY <3>1, <2>1, <2>2, <2>4, <2>5
    <3> QED
      BY <3>2, <2>1, <2>2, <2>5
  <2>9. CASE n = q - 1
    <3>1. Popcount(n) = pop
      BY <2>9 DEF pop
    <3> QED
      BY <3>1, <2>1, <2>2, <2>3, <2>4, <2>5, <2>7
  <2>10. CASE n >= q
    <3>1. data * q <= data * n
      BY <2>10, <2>1, <2>2, <2>5
    <3>2. filesize - data * n < data
      BY <3>1, <2>1, <2>2, <2>5
    <3> QED
      BY <3>2, <2>1, <2>2, <2>5, <2>6, <2>7
  <2> QED
    BY <2>8, <2>9, <2>10, <2>2, <2>5
<1> QED
  BY <1>1, <1>2

(* Blocks hold no more than their size.                                    *)
LEMMA EndsBounded ==
    ASSUME NEW b \in Nat
    PROVE  \A n \in Nat : BlockEnds(b)[n] <= b * (n + 1)
<1> DEFINE T == {n \in Nat : ~(EndOf(n, b) <= b * (n + 1))}
<1>1. T = {}
  <2> SUFFICES ASSUME T # {} PROVE FALSE
    OBVIOUS
  <2>1. PICK m \in T : \A k \in T : m <= k
    BY LeastNumber
  <2>2. m \in Nat /\ ~(EndOf(m, b) <= b * (m + 1))
    BY <2>1
  <2>3. m # 0
    BY <2>2, EndOfFirst
  <2>4. m - 1 \in Nat /\ m \in Nat \ {0}
    BY <2>2, <2>3
  <2>5. m - 1 \notin T
    BY <2>1, <2>4
  <2>6. EndOf(m - 1, b) <= b * ((m - 1) + 1)
    BY <2>4, <2>5
  <2>7. EndOf(m, b) = EndOf(m - 1, b) + Capacity(m, b)
    BY <2>4, EndOfNext
  <2>8. Cardinality(Low(m)) \in Nat
    BY SubsetsOfBits DEF Low
  <2>9. Capacity(m, b) = b - 4 * Cardinality(Low(m))
    BY <2>4 DEF Capacity, Pointers, Word, Low
  <2>10. Capacity(m, b) \in Int /\ Capacity(m, b) <= b
    BY <2>8, <2>9
  <2>11. EndOf(m - 1, b) \in Int
    BY <2>4, EndType
  <2>12. EndOf(m, b) <= b * ((m - 1) + 1) + b
    BY <2>4, <2>6, <2>7, <2>10, <2>11
  <2>13. b * ((m - 1) + 1) + b = b * (m + 1)
    BY <2>4
  <2> QED
    BY <2>2, <2>12, <2>13
<1>2. \A n \in Nat : EndOf(n, b) <= b * (n + 1)
  BY <1>1
<1> QED
  BY <1>2, BlockEndsClosed

(* The blocks that files have.                                             *)
LEMMA EndsOfFile ==
    ASSUME NEW n \in Nat, NEW b \in Nat, n < 2^25
    PROVE  /\ BlockEnds(b)[n] = b + (b - 8) * n + 4 * Popcount(n)
           /\ BlockEnds(b)[n] \in Int
<1>1. BlockEnds(b)[n] = EndOf(n, b)
  BY BlockEndsClosed
<1>2. n \div 2^25 = 0
  OBVIOUS
<1>3. Popcount(n) \in Int
  BY PopcountBound
<1>4. EndOf(n, b) = b + (b - 8) * n + 4 * Popcount(n) + 8 * 0
  BY <1>2 DEF EndOf
<1> HIDE DEF Popcount
<1>5. (b - 8) * n \in Int
  OBVIOUS
<1> QED
  BY <1>1, <1>3, <1>4, <1>5

(* Later blocks end later.                                                 *)
LEMMA EndsAscend ==
    ASSUME NEW b \in Nat, b >= LeastBlock, NEW m \in Nat, NEW n \in Nat, m < n, n < 2^25
    PROVE  BlockEnds(b)[m] < BlockEnds(b)[n]
<1> DEFINE d == b - 8
           P == Popcount(m)
           Q == Popcount(n)
<1>1. d \in Nat /\ d >= 120
  BY DEF LeastBlock
<1>2. P \in 0 .. 25 /\ Q \in 0 .. 25
  BY PopcountBound
<1>3. /\ BlockEnds(b)[m] = b + d * m + 4 * P
      /\ BlockEnds(b)[n] = b + d * n + 4 * Q
  BY EndsOfFile
<1> HIDE DEF d, P, Q
<1>4. d * (m + 1) <= d * n
  BY <1>1
<1>5. d * m + d <= d * n
  BY <1>1, <1>4
<1>6. d * m \in Int /\ d * n \in Int
  BY <1>1
<1> QED
  BY <1>1, <1>2, <1>3, <1>5, <1>6

(* A block size of littlefs and the size of a file, the number of whose    *)
(* blocks has no bit above those of Bits.                                  *)
InRange(filesize, blocksize) ==
    /\ filesize \in Nat /\ blocksize \in Nat /\ blocksize >= LeastBlock
    /\ filesize \div (blocksize - 8) < 2^25

(* The next byte of a file of f bytes goes to block n.                     *)
IsBlockOf(n, f, b) ==
    /\ n \in 0 .. f \div (b - 8)
    /\ f < BlockEnds(b)[n]
    /\ n > 0 => BlockEnds(b)[n - 1] <= f

(* No two blocks are the one the next byte goes to.                        *)
LEMMA OneBlock ==
    ASSUME NEW f, NEW b, InRange(f, b), NEW m, NEW n, IsBlockOf(m, f, b), IsBlockOf(n, f, b)
    PROVE  ~(m < n)
<1> SUFFICES ASSUME m < n PROVE FALSE
  OBVIOUS
<1>1. f \div (b - 8) \in Int
  BY DEF InRange, LeastBlock
<1>2. m \in Nat /\ n \in Nat /\ n < 2^25 /\ n - 1 \in Nat /\ m <= n - 1 /\ n - 1 < 2^25 /\ m < 2^25
  BY <1>1 DEF InRange, IsBlockOf
<1>3. BlockEnds(b)[m] \in Int /\ BlockEnds(b)[n - 1] \in Int
  BY <1>2, EndsOfFile DEF InRange
<1>4. f < BlockEnds(b)[m] /\ BlockEnds(b)[n - 1] <= f /\ f \in Int /\ b \in Nat /\ b >= LeastBlock
  BY <1>2 DEF IsBlockOf, InRange
<1>5. CASE m = n - 1
  BY <1>3, <1>4, <1>5
<1>6. CASE m < n - 1
  <2>1. BlockEnds(b)[m] < BlockEnds(b)[n - 1]
    BY <1>2, <1>4, <1>6, EndsAscend
  <2> QED
    BY <1>3, <1>4, <2>1
<1> QED
  BY <1>2, <1>5, <1>6

LEMMA TheBlock ==
    ASSUME NEW f, NEW b, InRange(f, b), NEW n, IsBlockOf(n, f, b)
    PROVE  BlockOf(f, b) = n
<1>1. BlockOf(f, b) = CHOOSE m \in 0 .. f \div (b - 8) : IsBlockOf(m, f, b)
  BY DEF BlockOf, IsBlockOf, Word
<1>2. n \in 0 .. f \div (b - 8)
  BY DEF IsBlockOf
<1> DEFINE m == BlockOf(f, b)
<1>3. m \in 0 .. f \div (b - 8) /\ IsBlockOf(m, f, b)
  BY <1>1, <1>2, Zenon
<1>4. ~(m < n) /\ ~(n < m)
  BY <1>3, OneBlock
<1>5. m \in Int /\ n \in Int
  BY <1>2, <1>3
<1> HIDE DEF m
<1>6. m = n
  BY <1>4, <1>5
<1> QED
  BY <1>6 DEF m

(* The block offset() computes, and the room left in it.                   *)
LEMMA OffsetFindsBlock ==
    ASSUME NEW f, NEW b, InRange(f, b)
    PROVE  \E n : IsBlockOf(n, f, b) /\ Offset(f, b) = BlockEnds(b)[n] - f
<1> DEFINE d == b - 8
           q == f \div d
<1>1. f \in Nat /\ b \in Nat /\ d \in Nat /\ d >= 120 /\ b = d + 8
  BY DEF InRange, LeastBlock
<1>2. q \in Nat /\ d * q <= f /\ f < d * q + d /\ q < 2^25
  <2>1. d \in Nat \ {0} /\ f \in Int /\ f >= 0
    BY <1>1
  <2> HIDE DEF d
  <2>2. q \in Int /\ d * q <= f /\ f < d * q + d
    BY <2>1, Division
  <2>3. q >= 0
    BY <2>1, <2>2
  <2>4. q < 2^25
    BY DEF InRange, d
  <2> QED
    BY <2>2, <2>3, <2>4
<1>3. CASE f < b
  <2>1. BlockEnds(b)[0] = b
    BY <1>1, BlockEndsClosed, EndOfFirst
  <2>2. IsBlockOf(0, f, b)
    BY <1>2, <1>3, <2>1 DEF IsBlockOf
  <2>3. Offset(f, b) = b - f
    BY <1>3 DEF Offset
  <2> QED
    BY <2>1, <2>2, <2>3
<1>4. CASE ~(f < b)
  <2> DEFINE pop == Popcount(q - 1)
             rest == f - 4 * (pop + 2)
             n == rest \div d
  <2>1. Offset(f, b) = b - (f - d * n - 4 * Popcount(n))
    BY <1>4 DEF Offset, Word
  <2> HIDE DEF d, q
  <2>2. q >= 1
    <3>1. q # 0
      BY <1>1, <1>2, <1>4
    <3> QED
      BY <1>2, <3>1
  <2>3. pop \in 0 .. 25
    BY PopcountBound
  <2> HIDE DEF pop
  <2>4. rest \in Int /\ rest = f - 4 * pop - 8
    BY <1>1, <2>3
  <2> HIDE DEF rest
  <2>5. n \in Int /\ d * n <= rest /\ rest < d * n + d
    <3>1. d \in Nat \ {0}
      BY <1>1
    <3> QED
      BY <2>4, <3>1, Division
  <2> HIDE DEF n
  <2>6. d * q \in Int /\ d * n \in Int /\ d * (q - 1) = d * q - d
    BY <1>1, <1>2, <2>5
  <2>7. n <= q
    <3> SUFFICES ASSUME q + 1 <= n PROVE FALSE
      BY <1>2, <2>5
    <3>1. d * (q + 1) <= d * n
      BY <1>1, <1>2, <2>5
    <3>2. d * (q + 1) = d * q + d
      BY <1>1, <1>2
    <3> QED
      BY <1>1, <1>2, <2>3, <2>4, <2>5, <2>6, <3>1, <3>2
  <2>8. n >= q - 1
    <3> SUFFICES ASSUME n <= q - 2 PROVE FALSE
      BY <1>2, <2>5
    <3>1. d * (n + 1) <= d * (q - 1)
      BY <1>1, <1>2, <2>5
    <3>2. d * (n + 1) = d * n + d
      BY <1>1, <2>5
    <3> QED
      BY <1>1, <1>2, <2>3, <2>4, <2>5, <2>6, <3>1, <3>2
  <2>9. /\ BlockEnds(b)[q - 1] = b + d * (q - 1) + 4 * pop
        /\ BlockEnds(b)[q] = b + d * q + 4 * Popcount(q)
        /\ q >= 2 => BlockEnds(b)[q - 2] = b + d * (q - 2) + 4 * Popcount(q - 2)
    <3>1. q \in Nat /\ q - 1 \in Nat /\ q - 1 < 2^25 /\ q < 2^25 /\ (q >= 2 => q - 2 \in Nat /\ q - 2 < 2^25)
      BY <1>2, <2>2
    <3> QED
      BY <1>1, <3>1, EndsOfFile DEF d, pop
  <2>10. Popcount(q) \in 0 .. 25 /\ Popcount(q - 2) \in 0 .. 25
    BY PopcountBound
  <2>11. CASE n = q
    <3>1. BlockEnds(b)[q - 1] = d * q + 8 + 4 * pop
      BY <1>1, <2>3, <2>6, <2>9
    <3>2. BlockEnds(b)[q - 1] <= f
      BY <1>1, <2>3, <2>4, <2>5, <2>6, <2>11, <3>1
    <3>3. f < BlockEnds(b)[q]
      BY <1>1, <1>2, <2>6, <2>9, <2>10
    <3>4. IsBlockOf(q, f, b)
      BY <1>2, <3>2, <3>3 DEF IsBlockOf, q, d
    <3>5. Offset(f, b) = BlockEnds(b)[q] - f
      BY <1>1, <2>1, <2>6, <2>9, <2>10, <2>11
    <3> QED
      BY <3>4, <3>5
  <2>12. CASE n = q - 1
    <3>1. BlockEnds(b)[q - 1] = d * q + 8 + 4 * pop
      BY <1>1, <2>3, <2>6, <2>9
    <3>2. d * n + d = d * q
      BY <1>1, <2>6, <2>12
    <3>3. f < BlockEnds(b)[q - 1]
      BY <1>1, <2>3, <2>4, <2>5, <2>6, <3>1, <3>2
    <3>4. q - 1 > 0 => BlockEnds(b)[q - 2] <= f
      <4> SUFFICES ASSUME q >= 2 PROVE BlockEnds(b)[q - 2] <= f
        BY <1>2
      <4>1. d * (q - 2) = d * q - 2 * d
        BY <1>1, <1>2
      <4> QED
        BY <1>1, <1>2, <2>6, <2>9, <2>10, <4>1
    <3>5. IsBlockOf(q - 1, f, b)
      <4>1. q - 1 \in 0 .. q /\ q - 1 - 1 = q - 2
        BY <1>2, <2>2
      <4> QED
        BY <3>3, <3>4, <4>1 DEF IsBlockOf, q, d
    <3>6. Popcount(n) = pop
      BY <2>12 DEF pop
    <3>7. Offset(f, b) = BlockEnds(b)[q - 1] - f
      BY <1>1, <2>1, <2>3, <2>6, <2>9, <2>12, <3>6
    <3> QED
      BY <3>5, <3>7
  <2> QED
    BY <1>2, <2>5, <2>7, <2>8, <2>11, <2>12
<1> QED
  BY <1>3, <1>4

(* offset() is exactly the room left in the block the next byte goes to, for *)
(* every size of the file and the block (flash.cpp:17-29).                 *)
THEOREM OffsetFitsLayout ==
    ASSUME NEW filesize, NEW blocksize, InRange(filesize, blocksize)
    PROVE  Offset(filesize, blocksize) = Room(filesize, blocksize)
<1>1. PICK n : /\ IsBlockOf(n, filesize, blocksize)
               /\ Offset(filesize, blocksize) = BlockEnds(blocksize)[n] - filesize
  BY OffsetFindsBlock
<1>2. BlockOf(filesize, blocksize) = n
  BY <1>1, TheBlock
<1> QED
  BY <1>1, <1>2 DEF Room
=============================================================================
