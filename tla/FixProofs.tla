------------------------------ MODULE FixProofs ------------------------------
(***************************************************************************)
(* What read() of the GPS puts into the packet, whatever sentences come,   *)
(* whenever they come and however large the buffers are.                   *)
(***************************************************************************)
EXTENDS SensorsProofs, FiniteSetTheorems, WellFoundedInduction

LEMMA FieldSizes ==
    /\ MaxFields \in Nat /\ MaxFields > 9 /\ FieldSize \in Nat /\ FieldSize > 0
    /\ Gps!Altitude = 9
BY SensorsAssumption DEF Gps!GPSAssumption, Gps!Altitude

(* A set of numbers has a least one; what follows uses it in the place of  *)
(* induction.                                                              *)
LEMMA LeastNumber ==
    ASSUME NEW T \in SUBSET Nat, T # {}
    PROVE  \E x \in T : \A y \in T : x <= y
<1> DEFINE R == OpToRel(<, Nat)
<1>1. R = {ss \in Nat \X Nat : ss[1] < ss[2]}
  BY DEF OpToRel
<1>2. IsWellFoundedOn(R, Nat)
  BY NatLessThanWellFounded
<1> HIDE DEF R
<1>3. PICK x \in T : \A y \in T : ~ (<<y, x>> \in R)
  BY <1>2, WFMin
<1>4. \A y \in T : x <= y
  <2> SUFFICES ASSUME NEW y \in T, y < x PROVE FALSE
    OBVIOUS
  <2>1. <<y, x>> \in Nat \X Nat /\ <<y, x>>[1] < <<y, x>>[2]
    OBVIOUS
  <2> QED
    BY <1>1, <1>3, <2>1
<1> QED
  BY <1>4

-----------------------------------------------------------------------------
(* The commas of a line.                                                   *)

Comma == ","

(* Those up to the k-th character, and how many there are.                 *)
Commas(s, k) == {c \in 1 .. k : s[c] = Comma}
Count(s, k) == Cardinality(Commas(s, k))

LEMMA CommasFinite ==
    ASSUME NEW s, NEW k \in Nat
    PROVE  IsFiniteSet(Commas(s, k)) /\ Count(s, k) \in Nat
<1>1. IsFiniteSet(1 .. k)
  BY FS_Interval
<1>2. Commas(s, k) \in SUBSET (1 .. k)
  BY DEF Commas
<1>3. IsFiniteSet(Commas(s, k))
  BY <1>1, <1>2, FS_Subset
<1> QED
  BY <1>3, FS_CardinalityType DEF Count

LEMMA NoCommaYet == ASSUME NEW s PROVE Count(s, 0) = 0
<1>1. Commas(s, 0) = {}
  BY DEF Commas
<1> QED
  BY <1>1, FS_EmptySet DEF Count

LEMMA CountNext ==
    ASSUME NEW s, NEW k \in Nat
    PROVE  Count(s, k + 1) = IF s[k + 1] = Comma THEN Count(s, k) + 1 ELSE Count(s, k)
<1>1. CASE s[k + 1] = Comma
  <2>1. Commas(s, k + 1) = Commas(s, k) \cup {k + 1} /\ k + 1 \notin Commas(s, k)
    BY <1>1 DEF Commas
  <2> QED
    BY <1>1, <2>1, CommasFinite, FS_AddElement DEF Count
<1>2. CASE s[k + 1] # Comma
  <2>1. Commas(s, k + 1) = Commas(s, k)
    BY <1>2 DEF Commas
  <2> QED
    BY <1>2, <2>1 DEF Count
<1> QED
  BY <1>1, <1>2

(* A later comma has more of them before it.                               *)
LEMMA CountAscends ==
    ASSUME NEW s, NEW a \in Nat \ {0}, NEW b \in Nat, a < b, s[a] = Comma
    PROVE  Count(s, a - 1) < Count(s, b - 1)
<1>1. a - 1 \in Nat /\ (a - 1) + 1 = a /\ b - 1 \in Nat
  OBVIOUS
<1>2. Count(s, a) = Count(s, a - 1) + 1
  BY <1>1, CountNext
<1>3. Commas(s, a) \in SUBSET Commas(s, b - 1)
  BY DEF Commas
<1>4. Count(s, a) <= Count(s, b - 1)
  BY <1>1, <1>3, CommasFinite, FS_Subset DEF Count
<1> QED
  BY <1>1, <1>2, <1>4, CommasFinite

(* The field behind the n-th comma, a, and before the next one, b, or the  *)
(* end.                                                                    *)
LEMMA FieldFrom ==
    ASSUME NEW S, NEW s \in Seq(S), NEW n \in Nat,
           NEW a \in 1 .. Len(s), s[a] = Comma, Count(s, a - 1) = n - 1,
           NEW b \in a + 1 .. Len(s) + 1, b = Len(s) + 1 \/ s[b] = Comma,
           \A c \in a + 1 .. b - 1 : s[c] # Comma
    PROVE  Gps!Field(s, n) = SubSeq(s, a + 1, b - 1)
<1> DEFINE commas == {k \in DOMAIN s : s[k] = Comma}
           Nth(k) == Cardinality({c \in commas : c < k}) = n - 1
           from == CHOOSE k \in commas : Nth(k)
           ends == {k \in commas : k > a} \cup {Len(s) + 1}
<1>1. Gps!Field(s, n) =
          SubSeq(s, from + 1, Gps!Min({k \in commas : k > from} \cup {Len(s) + 1}) - 1)
  BY Zenon DEF Gps!Field, Gps!Cardinality, Cardinality, Comma
<1>2. DOMAIN s = 1 .. Len(s) /\ Len(s) \in Nat
  OBVIOUS
<1>3. \A k \in commas : Nth(k) <=> Count(s, k - 1) = n - 1
  <2> TAKE k \in commas
  <2>1. {c \in commas : c < k} = Commas(s, k - 1)
    BY <1>2 DEF Commas
  <2> QED
    BY <2>1 DEF Count
<1>4. a \in commas
  BY <1>2
<1> HIDE DEF Nth
<1>5. from \in commas /\ Nth(from)
  BY <1>3, <1>4
<1>6. from = a
  <2>1. /\ from \in Nat \ {0} /\ a \in Nat \ {0} /\ s[from] = Comma
        /\ Count(s, from - 1) = n - 1 /\ n - 1 \in Int
    BY <1>2, <1>3, <1>5
  <2>2. ~(from < a) /\ ~(a < from)
    BY <2>1, CountAscends
  <2> QED
    BY <2>1, <2>2
<1>7. Gps!Min(ends) = b
  <2>1. b \in ends
    BY <1>2
  <2>2. \A k \in ends : b <= k
    BY <1>2
  <2>3. Gps!Min(ends) = CHOOSE x \in ends : \A y \in ends : x <= y
    BY Zenon DEF Gps!Min
  <2>4. ends \in SUBSET Nat
    BY <1>2
  <2> HIDE DEF ends
  <2>5. \A m \in ends : (\A y \in ends : m <= y) => m = b
    BY <2>1, <2>2, <2>4
  <2> QED
    BY <2>1, <2>2, <2>3, <2>5, Zenon
<1> QED
  BY <1>1, <1>6, <1>7, Zenon

-----------------------------------------------------------------------------
(* Split.                                                                  *)

(* What it starts with, and what it does with a character.                 *)
Start == [fields |-> [f \in 0 .. MaxFields |-> <<>>], index |-> 0]

Step(s, c) ==
    IF s.index >= MaxFields THEN s
    ELSE IF c = Comma THEN [s EXCEPT !.index = @ + 1]
    ELSE IF Len(s.fields[s.index]) < FieldSize - 1
         THEN [s EXCEPT !.fields[s.index] = Append(@, c)]
    ELSE s

Splits(chars, g, n) ==
    g = [k \in 0 .. n |-> IF k = 0 THEN Start ELSE Step(g[k - 1], chars[k])]

(* The recursive function exists.                                          *)
LEMMA SplitExists == ASSUME NEW chars PROVE \A n \in Nat : \E g : Splits(chars, g, n)
<1> DEFINE T == {n \in Nat : ~\E g : Splits(chars, g, n)}
<1> SUFFICES ASSUME T # {} PROVE FALSE
  OBVIOUS
<1>1. PICK n \in T : \A k \in T : n <= k
  <2>1. T \in SUBSET Nat
    OBVIOUS
  <2> QED
    BY <2>1, LeastNumber
<1>2. CASE n = 0
  <2> DEFINE h == [k \in 0 .. 0 |-> Start]
  <2>1. Splits(chars, h, 0)
    BY DEF Splits
  <2> QED
    BY <1>2, <2>1
<1>3. CASE n # 0
  <2>1. n \in Nat /\ n - 1 \in Nat /\ n - 1 \notin T
    BY <1>1, <1>3
  <2>2. PICK g : Splits(chars, g, n - 1)
    BY <2>1
  <2> DEFINE h == [k \in 0 .. n |-> IF k = n THEN Step(g[n - 1], chars[n]) ELSE g[k]]
             hh == [k \in 0 .. n |-> IF k = 0 THEN Start ELSE Step(h[k - 1], chars[k])]
  <2>3. \A k \in 0 .. n - 1 : g[k] = IF k = 0 THEN Start ELSE Step(g[k - 1], chars[k])
    BY <2>2 DEF Splits
  <2>4. ASSUME NEW k \in 0 .. n PROVE h[k] = hh[k]
    <3>1. CASE k = 0
      <4>1. k \in 0 .. n - 1 /\ k # n
        BY <2>1, <1>3, <3>1
      <4> QED
        BY <2>3, <3>1, <4>1
    <3>2. CASE k # 0 /\ k # n
      <4>1. k \in 0 .. n - 1 /\ k - 1 \in 0 .. n /\ k - 1 # n
        BY <2>1, <3>2
      <4>2. h[k] = g[k] /\ h[k - 1] = g[k - 1]
        BY <3>2, <4>1
      <4> QED
        BY <2>3, <3>2, <4>1, <4>2
    <3>3. CASE k # 0 /\ k = n
      <4>1. n - 1 \in 0 .. n /\ n - 1 # n /\ n \in 0 .. n
        BY <2>1
      <4>2. h[n - 1] = g[n - 1] /\ h[n] = Step(g[n - 1], chars[n])
        BY <4>1
      <4>3. hh[n] = Step(h[n - 1], chars[n])
        BY <3>3, <4>1
      <4> QED
        BY <3>3, <4>2, <4>3
    <3> QED
      BY <3>1, <3>2, <3>3
  <2>5. h = hh
    BY <2>4
  <2>6. Splits(chars, h, n)
    BY <2>5 DEF Splits
  <2> QED
    BY <2>6
<1> QED
  BY <1>2, <1>3

LEMMA SplitRuns ==
    ASSUME NEW chars, Len(chars) \in Nat
    PROVE  \E g : /\ Gps!Split(chars) = g[Len(chars)] /\ g[0] = Start
                  /\ \A k \in 1 .. Len(chars) : g[k] = Step(g[k - 1], chars[k])
<1> DEFINE n == Len(chars)
           split == CHOOSE g : g = [k \in 0 .. n |->
                                        IF k = 0 THEN Start ELSE Step(g[k - 1], chars[k])]
<1>1. Splits(chars, split, n)
  <2>1. \E g : Splits(chars, g, n)
    BY SplitExists
  <2> QED
    BY <2>1, Zenon DEF Splits
<1>2. Gps!Split(chars) = split[n]
  BY Zenon DEF Gps!Split, Start, Step, Comma
<1> HIDE DEF split
<1>3. split[0] = Start /\ \A k \in 1 .. n : split[k] = Step(split[k - 1], chars[k])
  BY <1>1 DEF Splits
<1> QED
  BY <1>2, <1>3

States(S) == [fields : [0 .. MaxFields -> Seq(S)], index : 0 .. MaxFields]

LEMMA StartState == ASSUME NEW S PROVE Start \in States(S)
BY FieldSizes DEF Start, States

LEMMA StepState ==
    ASSUME NEW S, NEW st \in States(S), NEW c \in S
    PROVE  /\ Step(st, c) \in States(S)
           /\ st.index = MaxFields => Step(st, c) = st
           /\ st.index < MaxFields /\ c = Comma =>
                  Step(st, c).index = st.index + 1 /\ Step(st, c).fields = st.fields
           /\ st.index < MaxFields /\ c # Comma =>
                  /\ Step(st, c).index = st.index
                  /\ \A n \in 0 .. MaxFields :
                         Step(st, c).fields[n] =
                             IF n = st.index /\ Len(st.fields[n]) < FieldSize - 1
                             THEN Append(st.fields[n], c) ELSE st.fields[n]
<1>1. st.index \in 0 .. MaxFields /\ st.fields \in [0 .. MaxFields -> Seq(S)]
      /\ st = [fields |-> st.fields, index |-> st.index]
  BY DEF States
<1>2. CASE st.index = MaxFields
  BY <1>1, <1>2, FieldSizes DEF Step
<1>3. CASE st.index < MaxFields /\ c = Comma
  <2>1. Step(st, c) = [st EXCEPT !.index = st.index + 1]
    BY <1>1, <1>3, FieldSizes DEF Step
  <2>2. Step(st, c) = [fields |-> st.fields, index |-> st.index + 1]
    BY <1>1, <2>1
  <2>3. st.index + 1 \in 0 .. MaxFields
    BY <1>1, <1>3, FieldSizes
  <2> QED
    BY <1>1, <1>3, <2>2, <2>3, FieldSizes DEF States
<1>4. CASE st.index < MaxFields /\ c # Comma /\ Len(st.fields[st.index]) < FieldSize - 1
  <2> DEFINE f == [st.fields EXCEPT ![st.index] = Append(st.fields[st.index], c)]
  <2>1. Step(st, c) = [st EXCEPT !.fields = f]
    BY <1>1, <1>4, FieldSizes DEF Step
  <2>2. Step(st, c) = [fields |-> f, index |-> st.index]
    BY <1>1, <2>1
  <2>3. st.fields[st.index] \in Seq(S) /\ Append(st.fields[st.index], c) \in Seq(S)
    <3>1. st.fields[st.index] \in Seq(S)
      BY <1>1
    <3> QED
      BY <3>1
  <2>4. f \in [0 .. MaxFields -> Seq(S)]
        /\ \A n \in 0 .. MaxFields :
               f[n] = IF n = st.index THEN Append(st.fields[n], c) ELSE st.fields[n]
    BY <1>1, <2>3
  <2> HIDE DEF f
  <2> QED
    BY SMTT(30), <1>1, <1>4, <2>2, <2>4, FieldSizes DEF States
<1>5. CASE st.index < MaxFields /\ c # Comma /\ ~(Len(st.fields[st.index]) < FieldSize - 1)
  <2>1. Step(st, c) = st
    BY <1>1, <1>5, FieldSizes DEF Step
  <2> QED
    BY <1>1, <1>5, <2>1, FieldSizes
<1> QED
  BY <1>1, <1>2, <1>3, <1>4, <1>5, FieldSizes

(* The n-th field: what follows the n-th comma, a, up to b.                *)
IsField(chars, f, n, a, b) ==
    /\ chars[a] = Comma /\ Count(chars, a - 1) = n - 1
    /\ \A c \in a + 1 .. b : chars[c] # Comma
    /\ f = SubSeq(chars, a + 1, b)

(* A field of the first k characters that a comma ends, and the last one.  *)
Closed(chars, f, n, k) ==
    \E a \in 1 .. k : \E b \in a .. k - 1 : IsField(chars, f, n, a, b) /\ chars[b + 1] = Comma
Open(chars, f, n, k) == \E a \in 1 .. k : IsField(chars, f, n, a, k)

(* The line as it is split up to its k-th character.                       *)
SplitUpTo(chars, st, k) ==
    /\ st.index <= Count(chars, k) /\ (st.index < MaxFields => st.index = Count(chars, k))
    /\ \A n \in 1 .. MaxFields - 1 :
           /\ n < st.index => Closed(chars, st.fields[n], n, k)
           /\ n = st.index => Open(chars, st.fields[n], n, k)
           /\ n > st.index => st.fields[n] = <<>>

(* No field is too long.                                                   *)
FieldsFit(chars) ==
    \A k \in 1 .. Len(chars) - FieldSize + 1 : \E j \in k .. k + FieldSize - 1 : chars[j] = Comma

LEMMA SplitNext ==
    ASSUME NEW S, NEW chars \in Seq(S), FieldsFit(chars), NEW k \in 0 .. Len(chars) - 1,
           NEW st \in States(S), SplitUpTo(chars, st, k)
    PROVE  SplitUpTo(chars, Step(st, chars[k + 1]), k + 1)
<1> DEFINE c == chars[k + 1]
           next == Step(st, c)
<1>1. /\ k \in Nat /\ k + 1 \in 1 .. Len(chars) /\ c \in S /\ Len(chars) \in Nat
      /\ st.index \in 0 .. MaxFields /\ Count(chars, k) \in Nat
  BY CommasFinite DEF States
<1>2. Count(chars, k + 1) = IF c = Comma THEN Count(chars, k) + 1 ELSE Count(chars, k)
  BY <1>1, CountNext
<1>3. ASSUME NEW f, NEW n, Closed(chars, f, n, k) PROVE Closed(chars, f, n, k + 1)
  BY <1>1, <1>3 DEF Closed
<1>4. CASE st.index = MaxFields
  <2>1. next = st
    BY <1>1, <1>4, StepState
  <2>2. ASSUME NEW n \in 1 .. MaxFields - 1
        PROVE  n < st.index /\ Closed(chars, st.fields[n], n, k + 1)
    <3>1. n < st.index
      BY <1>4, FieldSizes
    <3> QED
      BY <1>3, <3>1 DEF SplitUpTo
  <2>3. st.index <= Count(chars, k + 1)
    BY <1>1, <1>2 DEF SplitUpTo
  <2> QED
    BY <1>4, <2>1, <2>2, <2>3, FieldSizes DEF SplitUpTo
<1>5. CASE st.index < MaxFields /\ c = Comma
  <2>1. next.index = st.index + 1 /\ next.fields = st.fields
    BY <1>1, <1>5, StepState
  <2>2. st.index = Count(chars, k)
    BY <1>5 DEF SplitUpTo
  <2>3. next.index = Count(chars, k + 1)
    BY <1>2, <1>5, <2>1, <2>2
  <2>4. ASSUME NEW n \in 1 .. MaxFields - 1, n < st.index
        PROVE  Closed(chars, next.fields[n], n, k + 1)
    BY <1>3, <2>1, <2>4 DEF SplitUpTo
  <2>5. ASSUME NEW n \in 1 .. MaxFields - 1, n = st.index
        PROVE  Closed(chars, next.fields[n], n, k + 1)
    <3>1. Open(chars, st.fields[n], n, k)
      BY <2>5 DEF SplitUpTo
    <3>2. PICK a \in 1 .. k : IsField(chars, st.fields[n], n, a, k)
      BY <3>1 DEF Open
    <3>3. a \in 1 .. k + 1 /\ k \in a .. (k + 1) - 1
      BY <1>1
    <3> QED
      BY <1>5, <2>1, <3>2, <3>3 DEF Closed
  <2>6. ASSUME NEW n \in 1 .. MaxFields - 1, n = st.index + 1
        PROVE  Open(chars, next.fields[n], n, k + 1)
    <3>1. next.fields[n] = <<>>
      BY <1>1, <2>1, <2>6, FieldSizes DEF SplitUpTo
    <3>2. SubSeq(chars, k + 2, k + 1) = <<>>
      BY <1>1
    <3>3. /\ k + 1 \in 1 .. k + 1 /\ k + 1 \in k + 1 .. k + 1 /\ (k + 1) + 1 = k + 2
          /\ (k + 1) - 1 = k /\ Count(chars, k) = n - 1 /\ {x \in k + 2 .. k + 1 : TRUE} = {}
      BY <1>1, <2>2, <2>6
    <3> QED
      BY <1>5, <3>1, <3>2, <3>3 DEF Open, IsField
  <2>7. ASSUME NEW n \in 1 .. MaxFields - 1, n > st.index + 1 PROVE next.fields[n] = <<>>
    BY <1>1, <2>1, <2>7, FieldSizes DEF SplitUpTo
  <2>8. ASSUME NEW n \in 1 .. MaxFields - 1
        PROVE  /\ n < next.index => Closed(chars, next.fields[n], n, k + 1)
               /\ n = next.index => Open(chars, next.fields[n], n, k + 1)
               /\ n > next.index => next.fields[n] = <<>>
    <3>1. n \in Int /\ st.index \in Int
      BY <1>1, FieldSizes
    <3>2. n < next.index => n < st.index \/ n = st.index
      BY <2>1, <3>1
    <3> QED
      BY <2>1, <2>4, <2>5, <2>6, <2>7, <3>2
  <2>9. next.index <= Count(chars, k + 1)
    BY <1>1, <2>1, <2>3
  <2> QED
    BY <2>3, <2>8, <2>9 DEF SplitUpTo
<1>6. CASE st.index < MaxFields /\ c # Comma
  <2>1. /\ next.index = st.index
        /\ \A n \in 0 .. MaxFields :
               next.fields[n] = IF n = st.index /\ Len(st.fields[n]) < FieldSize - 1
                                THEN Append(st.fields[n], c) ELSE st.fields[n]
    BY <1>1, <1>6, StepState
  <2>2. next.index <= Count(chars, k + 1) /\ (next.index < MaxFields => next.index = Count(chars, k + 1))
    BY <1>2, <1>6, <2>1 DEF SplitUpTo
  <2>3. ASSUME NEW n \in 1 .. MaxFields - 1
        PROVE  /\ n < st.index => Closed(chars, next.fields[n], n, k + 1)
               /\ n = st.index => Open(chars, next.fields[n], n, k + 1)
               /\ n > st.index => next.fields[n] = <<>>
    <3>1. n \in Int /\ st.index \in Int /\ n \in 0 .. MaxFields
      BY <1>1, FieldSizes
    <3>2. CASE n > st.index
      <4>1. next.fields[n] = st.fields[n] /\ ~(n < st.index) /\ n # st.index
        BY <2>1, <3>1, <3>2
      <4> QED
        BY <3>2, <4>1 DEF SplitUpTo
    <3>3. CASE n < st.index
      <4>1. ~(n > st.index) /\ n # st.index /\ next.fields[n] = st.fields[n]
        BY <2>1, <3>1, <3>3
      <4> QED
        BY <1>3, <3>3, <4>1 DEF SplitUpTo
    <3>4. CASE n = st.index
      <4>1. Open(chars, st.fields[n], n, k)
        BY <3>4 DEF SplitUpTo
      <4>2. PICK a \in 1 .. k :
                /\ chars[a] = Comma /\ Count(chars, a - 1) = n - 1
                /\ \A x \in a + 1 .. k : chars[x] # Comma
                /\ st.fields[n] = SubSeq(chars, a + 1, k)
        BY <4>1 DEF Open, IsField
      <4>3. \A x \in a + 1 .. k + 1 : chars[x] # Comma
        BY SMTT(30), <1>1, <1>6, <4>2
      <4>4. k - a < FieldSize - 1
        <5> SUFFICES ASSUME ~(k - a < FieldSize - 1) PROVE FALSE
          OBVIOUS
        <5>1. a + 1 \in 1 .. Len(chars) - FieldSize + 1
          BY <1>1, FieldSizes
        <5>2. PICK j \in a + 1 .. (a + 1) + FieldSize - 1 : chars[j] = Comma
          BY <5>1 DEF FieldsFit
        <5>3. j \in a + 1 .. k + 1
          BY <1>1, FieldSizes
        <5> QED
          BY <4>3, <5>2, <5>3
      <4>5. Len(st.fields[n]) = k - a
        BY SMTT(30), <1>1, <4>2
      <4>6. next.fields[n] = Append(st.fields[n], c)
        BY <2>1, <3>1, <3>4, <4>4, <4>5
      <4>7. Append(SubSeq(chars, a + 1, k), c) = SubSeq(chars, a + 1, k + 1)
        BY <1>1
      <4>8. a \in 1 .. k + 1
        BY <1>1
      <4>9. Open(chars, next.fields[n], n, k + 1)
        BY <4>2, <4>3, <4>6, <4>7, <4>8 DEF Open, IsField
      <4>10. ~(n < st.index) /\ ~(n > st.index)
        BY <3>1, <3>4
      <4> QED
        BY <4>9, <4>10
    <3> QED
      BY <3>1, <3>2, <3>3, <3>4
  <2> QED
    BY <2>1, <2>2, <2>3 DEF SplitUpTo
<1> QED
  BY <1>1, <1>4, <1>5, <1>6, FieldSizes

LEMMA SplitWhole ==
    ASSUME NEW S, NEW chars \in Seq(S), FieldsFit(chars)
    PROVE  /\ Gps!Split(chars) \in States(S)
           /\ SplitUpTo(chars, Gps!Split(chars), Len(chars))
<1> DEFINE n == Len(chars)
<1>1. n \in Nat
  OBVIOUS
<1>2. PICK g : /\ Gps!Split(chars) = g[n] /\ g[0] = Start
               /\ \A k \in 1 .. n : g[k] = Step(g[k - 1], chars[k])
  BY <1>1, SplitRuns
<1> DEFINE Right(k) == g[k] \in States(S) /\ SplitUpTo(chars, g[k], k)
           T == {k \in 0 .. n : ~Right(k)}
<1>3. SUFFICES ASSUME T # {} PROVE FALSE
  <2>1. n \in 0 .. n
    BY <1>1
  <2> QED
    BY <1>2, <2>1
<1>4. PICK k \in T : \A x \in T : k <= x
  <2>1. T \in SUBSET Nat
    OBVIOUS
  <2> QED
    BY <1>3, <2>1, LeastNumber
<1>5. CASE k = 0
  <2>1. Start.index = 0 /\ \A x \in 0 .. MaxFields : Start.fields[x] = <<>>
    BY FieldSizes DEF Start
  <2>2. SplitUpTo(chars, Start, 0)
    BY <2>1, NoCommaYet, FieldSizes DEF SplitUpTo
  <2> QED
    BY <1>2, <1>5, <2>2, StartState
<1>6. CASE k # 0
  <2>1. k \in 1 .. n /\ k - 1 \in 0 .. n - 1 /\ k - 1 \in 0 .. n /\ (k - 1) + 1 = k /\ ~(k <= k - 1)
    BY <1>1, <1>4, <1>6
  <2>2. Right(k - 1)
    BY <1>4, <2>1
  <2>3. g[k] = Step(g[k - 1], chars[k]) /\ chars[k] \in S
    BY <1>1, <1>2, <2>1
  <2>4. g[k] \in States(S)
    BY <2>2, <2>3, StepState
  <2>5. SplitUpTo(chars, Step(g[k - 1], chars[(k - 1) + 1]), (k - 1) + 1)
    BY <2>1, <2>2, SplitNext
  <2> QED
    BY <2>1, <2>3, <2>4, <2>5
<1> QED
  BY <1>5, <1>6

(* What Split makes of a line that was cut off, m characters of s.         *)
LEMMA SplitPrefix ==
    ASSUME NEW S, NEW s \in Seq(S), FieldsFit(s), NEW chars \in Seq(S), NEW m \in 0 .. Len(s),
           Len(chars) = m, \A j \in 1 .. m : chars[j] = s[j],
           ~(Gps!Split(chars).index < 9)
    PROVE  /\ \A n \in 1 .. 8 : Gps!Split(chars).fields[n] = Gps!Field(s, n)
           /\ Gps!Split(chars).fields[9] \in Seq(S)
           /\ Gps!IsPrefix(Gps!Split(chars).fields[9], Gps!Field(s, 9))
           /\ m = Len(s) => Gps!Split(chars).fields[9] = Gps!Field(s, 9)
<1> DEFINE st == Gps!Split(chars)
<1>1. m \in Nat /\ Len(s) \in Nat /\ m <= Len(s)
  OBVIOUS
<1>2. FieldsFit(chars)
  <2> SUFFICES ASSUME NEW k \in 1 .. m - FieldSize + 1
               PROVE  \E j \in k .. k + FieldSize - 1 : chars[j] = Comma
    BY DEF FieldsFit
  <2>1. k \in 1 .. Len(s) - FieldSize + 1
    BY <1>1, FieldSizes
  <2>2. PICK j \in k .. k + FieldSize - 1 : s[j] = Comma
    BY <2>1 DEF FieldsFit
  <2>3. j \in 1 .. m
    BY <1>1, FieldSizes
  <2> QED
    BY <2>2, <2>3
<1>3. st \in States(S) /\ SplitUpTo(chars, st, m)
  BY <1>2, SplitWhole
<1>4. \A k \in 0 .. m : Count(chars, k) = Count(s, k)
  <2> TAKE k \in 0 .. m
  <2>1. Commas(chars, k) = Commas(s, k)
    BY <1>1 DEF Commas
  <2> QED
    BY <2>1 DEF Count
<1>5. ASSUME NEW f, NEW n \in Nat, NEW a \in 1 .. m, NEW b \in a .. m,
             IsField(chars, f, n, a, b), b < m => chars[b + 1] = Comma
      PROVE  /\ f \in Seq(S) /\ Gps!IsPrefix(f, Gps!Field(s, n))
             /\ b < m \/ m = Len(s) => f = Gps!Field(s, n)
  <2> DEFINE T == {e \in a + 1 .. Len(s) + 1 : e = Len(s) + 1 \/ s[e] = Comma}
  <2>1. PICK e \in T : \A x \in T : e <= x
    <3>1. T \in SUBSET Nat /\ Len(s) + 1 \in T
      BY <1>1
    <3> QED
      BY <3>1, LeastNumber
  <2>2. \A c \in a + 1 .. e - 1 : s[c] # Comma
    BY <1>1, <2>1
  <2>3. s[a] = Comma /\ Count(s, a - 1) = n - 1 /\ a \in 1 .. Len(s)
    <3>1. a - 1 \in 0 .. m
      OBVIOUS
    <3> QED
      BY <1>1, <1>4, <1>5, <3>1 DEF IsField
  <2>4. Gps!Field(s, n) = SubSeq(s, a + 1, e - 1)
    <3>1. e \in a + 1 .. Len(s) + 1 /\ (e = Len(s) + 1 \/ s[e] = Comma)
      BY <2>1
    <3> HIDE DEF T
    <3> QED
      BY <2>2, <2>3, <3>1, FieldFrom
  <2>5. b < e
    <3>1. \A c \in a + 1 .. b : s[c] # Comma
      BY <1>1, <1>5 DEF IsField
    <3> QED
      BY <1>1, <2>1, <3>1
  <2>6. b < m \/ m = Len(s) => b = e - 1
    <3>1. b < m => b + 1 \in T
      BY <1>1, <1>5
    <3> QED
      BY <1>1, <2>1, <2>5, <3>1
  <2>7. f = SubSeq(s, a + 1, b)
    <3>1. f = SubSeq(chars, a + 1, b)
      BY <1>5 DEF IsField
    <3>2. SubSeq(chars, a + 1, b) = SubSeq(s, a + 1, b)
      BY <1>1
    <3> QED
      BY <3>1, <3>2
  <2>8. f \in Seq(S) /\ Len(f) = b - a
    BY <1>1, <2>7
  <2>9. Gps!IsPrefix(f, SubSeq(s, a + 1, e - 1))
    <3>1. Len(SubSeq(s, a + 1, e - 1)) = e - 1 - a
      BY <1>1, <2>1, <2>5
    <3>2. SubSeq(f, 1, b - a) = SubSeq(SubSeq(s, a + 1, e - 1), 1, b - a)
      BY <1>1, <2>1, <2>5, <2>7
    <3> QED
      BY <1>1, <2>1, <2>5, <2>8, <3>1, <3>2 DEF Gps!IsPrefix
  <2> QED
    BY <2>4, <2>6, <2>7, <2>8, <2>9
<1>6. /\ \A n \in 1 .. 8 : Closed(chars, st.fields[n], n, m)
      /\ Closed(chars, st.fields[9], 9, m) \/ Open(chars, st.fields[9], 9, m)
  <2>1. st.index \in Int
    BY <1>3 DEF States
  <2> QED
    BY <1>3, <2>1, FieldSizes DEF SplitUpTo
<1>7. ASSUME NEW n \in Nat, Closed(chars, st.fields[n], n, m)
      PROVE  /\ st.fields[n] = Gps!Field(s, n) /\ st.fields[n] \in Seq(S)
             /\ Gps!IsPrefix(st.fields[n], Gps!Field(s, n))
  <2>1. PICK a \in 1 .. m : \E b \in a .. m - 1 :
            IsField(chars, st.fields[n], n, a, b) /\ chars[b + 1] = Comma
    BY <1>7 DEF Closed
  <2>2. PICK b \in a .. m - 1 : IsField(chars, st.fields[n], n, a, b) /\ chars[b + 1] = Comma
    BY <2>1
  <2>3. b \in a .. m /\ b < m
    BY <1>1
  <2> QED
    BY <1>5, <2>2, <2>3
<1>8. ASSUME Open(chars, st.fields[9], 9, m)
      PROVE  /\ st.fields[9] \in Seq(S) /\ Gps!IsPrefix(st.fields[9], Gps!Field(s, 9))
             /\ m = Len(s) => st.fields[9] = Gps!Field(s, 9)
  <2>1. PICK a \in 1 .. m : IsField(chars, st.fields[9], 9, a, m)
    BY <1>8 DEF Open
  <2>2. m \in a .. m /\ ~(m < m)
    BY <1>1
  <2> QED
    BY <1>5, <2>1, <2>2
<1> HIDE DEF st
<1>9. \A n \in 1 .. 8 : st.fields[n] = Gps!Field(s, n)
  <2> TAKE n \in 1 .. 8
  <2>1. n \in Nat /\ Closed(chars, st.fields[n], n, m)
    BY <1>6
  <2> QED
    BY <1>7, <2>1
<1>10. /\ st.fields[9] \in Seq(S) /\ Gps!IsPrefix(st.fields[9], Gps!Field(s, 9))
       /\ m = Len(s) => st.fields[9] = Gps!Field(s, 9)
  <2>1. CASE Closed(chars, st.fields[9], 9, m)
    BY <1>7, <2>1
  <2>2. CASE Open(chars, st.fields[9], 9, m)
    BY <1>8, <2>2
  <2> QED
    BY <1>6, <2>1, <2>2
<1> QED
  BY <1>9, <1>10 DEF st

-----------------------------------------------------------------------------
(* The sentences of a burst.                                               *)

LEMMA BurstForm ==
    ASSUME NEW b \in Gps!Bursts
    PROVE  /\ b \in Seq(Gps!Characters) /\ Len(b) \in Nat \ {0} /\ DOMAIN b = 1 .. Len(b)
           /\ b[Len(b)] = "LF"
           /\ \A k \in 1 .. Len(b) :
                  b[k] # "NUL" /\ (b[k] = "LF" => k = 1 \/ b[k - 1] = "CR")
           /\ \A s \in Gps!Sentences(b) : Len(s) < LineSize /\ FieldsFit(s)
<1>1. b \in Seq(Gps!Characters)
  BY GpsBursts
<1>2. Gps!WellFormed(b)
  BY SentencesAssumption
<1>3. /\ b # <<>> /\ b[Len(b)] = "LF"
      /\ \A k \in DOMAIN b : b[k] # "NUL" /\ (b[k] = "LF" => k = 1 \/ b[k - 1] = "CR")
      /\ \A s \in Gps!Sentences(b) : Len(s) < LineSize /\ FieldsFit(s)
  BY <1>2, Zenon DEF Gps!WellFormed, Gps!Last, FieldsFit, Comma
<1>4. DOMAIN b = 1 .. Len(b) /\ Len(b) \in Nat \ {0}
  BY <1>1, <1>3
<1> QED
  BY <1>1, <1>3, <1>4

(* chars is the beginning, without an end of line, of what follows a in a  *)
(* burst b, where a GGA sentence begins.                                   *)
Begins(chars, b, a) ==
    /\ a \in 1 .. Len(b) /\ a + Len(chars) <= Len(b)
    /\ b[a] = "$" /\ b[a + 1] = "GGA"
    /\ \A j \in 1 .. Len(chars) : chars[j] = b[a + j - 1] /\ chars[j] \notin {"CR", "LF"}

(* The sentence it is the beginning of.                                    *)
LEMMA SentenceBegun ==
    ASSUME NEW b \in Gps!Bursts, NEW chars \in Seq(Gps!Characters), NEW a, Begins(chars, b, a)
    PROVE  \E s \in Gps!Sentences(b) :
               /\ s \in Seq(Gps!Characters) /\ Len(chars) <= Len(s)
               /\ \A j \in 1 .. Len(chars) : chars[j] = s[j]
               /\ b[a + Len(chars)] \in {"CR", "LF"} \/ Len(chars) = LineSize - 1 =>
                      Len(chars) = Len(s)
<1> DEFINE m == Len(chars)
           T == {e \in 1 .. Len(b) : a < e /\ b[e] = "CR"}
<1>1. /\ b \in Seq(Gps!Characters) /\ Len(b) \in Nat \ {0} /\ DOMAIN b = 1 .. Len(b)
      /\ b[Len(b)] = "LF"
      /\ \A k \in 1 .. Len(b) : b[k] = "LF" => k = 1 \/ b[k - 1] = "CR"
      /\ \A s \in Gps!Sentences(b) : Len(s) < LineSize
      /\ a \in 1 .. Len(b) /\ a + m <= Len(b) /\ b[a] = "$" /\ b[a + 1] = "GGA" /\ m \in Nat
      /\ \A j \in 1 .. m : chars[j] = b[a + j - 1] /\ chars[j] \notin {"CR", "LF"}
  BY BurstForm DEF Begins
<1>2. Len(b) - 1 \in T
  <2>1. a # Len(b)
    BY <1>1
  <2> DEFINE last == Len(b)
  <2>2. last \in Nat /\ a \in Nat /\ 1 <= a /\ a < last
    <3>1. last \in Nat /\ a \in 1 .. last /\ a # last
      BY <1>1, <2>1
    <3> HIDE DEF last
    <3> QED
      BY <3>1
  <2>3. b[Len(b) - 1] = "CR"
    <3>1. last \in 1 .. last /\ last # 1
      <4> HIDE DEF last
      <4> QED
        BY <2>2
    <3> QED
      BY <1>1, <3>1
  <2>4. a # Len(b) - 1
    BY <1>1, <2>3
  <2>5. Len(b) - 1 \in 1 .. Len(b) /\ a < Len(b) - 1
    BY <2>2, <2>4
  <2> QED
    BY <2>3, <2>5
<1>3. PICK q \in T : \A e \in T : q <= e
  <2>1. T \in SUBSET Nat
    OBVIOUS
  <2> QED
    BY <1>2, <2>1, LeastNumber
<1>4. q \in 1 .. Len(b) /\ a < q /\ b[q] = "CR" /\ \A k \in a .. q - 1 : b[k] # "CR"
  <2>1. q \in 1 .. Len(b) /\ a < q /\ b[q] = "CR"
    OBVIOUS
  <2>2. ASSUME NEW k \in a .. q - 1, b[k] = "CR" PROVE FALSE
    <3>1. k # a
      BY <1>1, <2>2
    <3>2. k \in T /\ ~(q <= k)
      BY <1>1, <2>1, <2>2, <3>1
    <3> QED
      BY <1>3, <3>2
  <2> QED
    BY <2>1, <2>2
<1> HIDE DEF T
<1> DEFINE s == SubSeq(b, a, q - 1)
<1>5. s \in Gps!Sentences(b)
  <2> DEFINE Ends == {e \in (DOMAIN b) \X (DOMAIN b) :
                         /\ e[1] < e[2] /\ b[e[1]] = "$" /\ b[e[1] + 1] = "GGA"
                         /\ b[e[2]] = "CR" /\ \A k \in e[1] .. e[2] - 1 : b[k] # "CR"}
             p == <<a, q>>
  <2>1. p \in (DOMAIN b) \X (DOMAIN b) /\ p[1] = a /\ p[2] = q
    BY <1>1, <1>4
  <2> HIDE DEF p
  <2>2. p \in Ends
    BY <1>1, <1>4, <2>1
  <2>3. Gps!Sentences(b) = {SubSeq(b, e[1], e[2] - 1) : e \in Ends}
    BY Zenon DEF Gps!Sentences
  <2> HIDE DEF Ends
  <2> QED
    BY <2>1, <2>2, <2>3
<1>6. /\ s \in Seq(Gps!Characters) /\ Len(s) = q - a
      /\ \A j \in 1 .. q - a : s[j] = b[a + j - 1]
  BY <1>1, <1>4
<1>7. m <= q - a
  <2> SUFFICES ASSUME ~(m <= q - a) PROVE FALSE
    OBVIOUS
  <2>1. (q - a) + 1 \in 1 .. m /\ a + ((q - a) + 1) - 1 = q
    BY <1>1, <1>4
  <2>2. chars[(q - a) + 1] = b[q] /\ chars[(q - a) + 1] # "CR"
    BY <1>1, <2>1
  <2> QED
    BY <1>4, <2>2
<1>8. \A j \in 1 .. m : chars[j] = s[j]
  BY <1>1, <1>4, <1>6, <1>7
<1>9. ASSUME b[a + m] \in {"CR", "LF"} PROVE m = q - a
  <2>1. m # 0
    BY <1>1, <1>9
  <2>2. b[a + m - 1] # "CR"
    <3>1. m \in 1 .. m
      BY <1>1, <2>1
    <3> QED
      BY <1>1, <3>1
  <2>3. b[a + m] = "CR"
    <3>1. a + m \in 1 .. Len(b) /\ a + m # 1
      BY <1>1, <2>1
    <3> QED
      BY <1>1, <1>9, <2>2, <3>1
  <2>4. ~(a + m \in a .. q - 1)
    BY <1>4, <2>3
  <2>5. m \in Nat /\ a \in Nat /\ q \in Nat
    BY <1>1, <1>4
  <2> HIDE DEF m
  <2> QED
    BY <1>7, <2>4, <2>5
<1>10. ASSUME m = LineSize - 1 PROVE m = q - a
  <2>1. q - a < LineSize
    BY <1>1, <1>5, <1>6
  <2> QED
    BY <1>1, <1>4, <1>7, <1>10, <2>1, GpsSizes
<1> HIDE DEF s
<1> QED
  BY <1>5, <1>6, <1>7, <1>8, <1>9, <1>10

(* What Parse makes of it.                                                 *)
LEMMA FixOfBegun ==
    ASSUME NEW b \in Gps!Bursts, NEW chars \in Seq(Gps!Characters), NEW a, Begins(chars, b, a),
           ~(Gps!Split(chars).index < 9)
    PROVE  LET f == Gps!Fix(Gps!Split(chars).fields)
           IN  \E e \in Gps!Expected[b] :
                   /\ f = [e EXCEPT !.altitude = f.altitude]
                   /\ Gps!IsPrefix(f.altitude, e.altitude)
                   /\ b[a + Len(chars)] \in {"CR", "LF"} \/ Len(chars) = LineSize - 1 => f = e
<1>1. PICK s \in Gps!Sentences(b) :
          /\ s \in Seq(Gps!Characters) /\ Len(chars) <= Len(s)
          /\ \A j \in 1 .. Len(chars) : chars[j] = s[j]
          /\ b[a + Len(chars)] \in {"CR", "LF"} \/ Len(chars) = LineSize - 1 =>
                 Len(chars) = Len(s)
  BY SentenceBegun
<1> DEFINE F == Gps!Split(chars).fields
           G == [n \in 1 .. 9 |-> Gps!Field(s, n)]
           f == Gps!Fix(F)
           e == Gps!Fix(G)
<1>2. /\ \A n \in 1 .. 8 : F[n] = Gps!Field(s, n)
      /\ Gps!IsPrefix(F[9], Gps!Field(s, 9))
      /\ Len(chars) = Len(s) => F[9] = Gps!Field(s, 9)
  <2>1. FieldsFit(s)
    BY BurstForm
  <2>2. Len(chars) \in 0 .. Len(s)
    BY <1>1
  <2> QED
    BY <1>1, <2>1, <2>2, SplitPrefix
<1>3. (\A n \in 1 .. 8 : F[n] = G[n]) /\ G[9] = Gps!Field(s, 9)
  BY <1>2
<1>4. e \in Gps!Expected[b]
  BY FieldSizes DEF Gps!Expected
<1> HIDE DEF F, G
<1>5. /\ f.latitude = e.latitude /\ f.longitude = e.longitude /\ f.fixType = e.fixType
      /\ f.satellites = e.satellites /\ f.altitude = F[9] /\ e.altitude = G[9]
  BY <1>3, FieldSizes DEF Gps!Fix
<1>6. f = [e EXCEPT !.altitude = f.altitude]
  BY <1>5 DEF Gps!Fix
<1>7. F[9] = G[9] => f = e
  BY <1>5 DEF Gps!Fix
<1> HIDE DEF f, e
<1>8. /\ f = [e EXCEPT !.altitude = f.altitude] /\ Gps!IsPrefix(f.altitude, e.altitude)
      /\ b[a + Len(chars)] \in {"CR", "LF"} \/ Len(chars) = LineSize - 1 => f = e
  BY <1>1, <1>2, <1>3, <1>5, <1>6, <1>7
<1> QED
  BY <1>4, <1>8 DEF f, F

-----------------------------------------------------------------------------
(* The invariant.                                                          *)

(* The buffer holds reception r from cell k on.                            *)
Held(r, k) ==
    /\ k <= Len(received[r])
    /\ \A j \in k .. BufferSize : j <= Len(received[r]) => buffer[j] = received[r][j]

(* The buffer holds what has come of the last reception, then the remains  *)
(* of those before.                                                        *)
Stored ==
    /\ received = <<>> => w = 0 /\ ~receiving
    /\ received # <<>> => /\ w <= Len(Gps!Burst)
                          /\ ~receiving => w = Len(Gps!Burst) \/ w = BufferSize
    /\ \A k \in 1 .. w : buffer[k] = Gps!Burst[k]
    /\ \A k \in w + 1 .. BufferSize :
           buffer[k] = "NUL" \/ (Len(received) > 1 /\ \E r \in DOMAIN received : Held(r, k))

(* settled tells of the whole read().                                      *)
Modes ==
    /\ settled /\ pc \in {"search", "match", "copy", "parse"} => ~receiving
    /\ ~settled => received # <<>>

(* The line is of one reception, and in a settled buffer it is complete    *)
(* when it has been copied.                                                *)
LineOf(r) ==
    /\ Begins(line, received[r], i)
    /\ settled => Held(r, i)
    /\ pc = "parse" /\ settled =>
           received[r][i + Len(line)] \in {"CR", "LF"} \/ Len(line) = LineSize - 1

Copying ==
    pc \in {"copy", "parse"} /\ ~overrun /\ (settled \/ Len(received) = 1) =>
        \E r \in DOMAIN received : LineOf(r)

FixInv == Stored /\ Modes /\ Copying /\ Gps!FixOfOneSentence

LEMMA Receptions ==
    ASSUME Gps!TypeOK
    PROVE  /\ Len(received) \in Nat /\ DOMAIN received = 1 .. Len(received)
           /\ received # <<>> => Len(received) \in DOMAIN received /\ Gps!Burst \in Gps!Bursts
           /\ Gps!Burst = received[Len(received)]
           /\ \A r \in DOMAIN received :
                  received[r] \in Gps!Bursts /\ Len(received[r]) \in Nat \ {0}
<1>1. received \in Seq(Gps!Bursts)
  BY DEF Gps!TypeOK
<1>2. /\ Len(received) \in Nat /\ DOMAIN received = 1 .. Len(received)
      /\ received # <<>> => Len(received) \in DOMAIN received
      /\ \A r \in DOMAIN received : received[r] \in Gps!Bursts
  BY <1>1
<1>3. Gps!Burst = received[Len(received)]
  BY DEF Gps!Burst, Gps!Last
<1> QED
  BY <1>2, <1>3, BurstForm

(* When no reception is in progress, each cell is of some reception.       *)
LEMMA AllHeld ==
    ASSUME GpsInv, Stored, ~receiving, NEW k \in 1 .. BufferSize
    PROVE  buffer[k] = "NUL" \/ \E r \in DOMAIN received : Held(r, k)
<1>1. k \in Nat /\ w \in Nat /\ BufferSize \in Nat
  BY GpsSizes DEF GpsInv, Gps!TypeOK
<1>2. CASE k > w
  BY <1>1, <1>2 DEF Stored
<1>3. CASE k <= w
  <2>1. received # <<>>
    BY <1>1, <1>3 DEF Stored
  <2> DEFINE r == Len(received)
  <2>2. /\ r \in DOMAIN received /\ Gps!Burst = received[r] /\ Len(received[r]) \in Nat
        /\ w <= Len(received[r]) /\ (w = Len(received[r]) \/ w = BufferSize)
        /\ \A j \in 1 .. w : buffer[j] = received[r][j]
    BY <2>1, Receptions DEF GpsInv, Stored
  <2> HIDE DEF r
  <2>3. Held(r, k)
    BY <1>1, <1>3, <2>2 DEF Held
  <2> QED
    BY <2>2, <2>3
<1> QED
  BY <1>1, <1>2, <1>3

LEMMA StoredNext == ASSUME GpsInv, Stored, Gps!Next PROVE Stored'
<1>1. CASE UNCHANGED Gps!reception
  BY <1>1 DEF Gps!reception, Stored, Held, Gps!Burst
<1>2. CASE Gps!StartDMA /\ ~UNCHANGED Gps!reception
  <2>1. /\ ~receiving /\ receiving' = TRUE /\ w' = 0 /\ buffer' = buffer
        /\ \E b \in Gps!Bursts : received' = Append(received, b)
    BY <1>2 DEF Gps!StartDMA, Gps!reception
  <2>2. PICK b \in Gps!Bursts : received' = Append(received, b)
    BY <2>1
  <2>3. /\ received' \in Seq(Gps!Bursts) /\ Len(received') = Len(received) + 1
        /\ received' # <<>> /\ Len(received) \in Nat
        /\ \A r \in DOMAIN received : r \in DOMAIN received' /\ received'[r] = received[r]
    BY <2>2 DEF GpsInv, Gps!TypeOK
  <2>4. Gps!Burst' = b
    BY <2>2 DEF Gps!Burst, Gps!Last, GpsInv, Gps!TypeOK
  <2>5. Len(b) \in Nat
    BY BurstForm
  <2>6. ASSUME NEW k \in 1 .. BufferSize, NEW r \in DOMAIN received, Held(r, k)
        PROVE  Len(received') > 1 /\ r \in DOMAIN received' /\ Held(r, k)'
    <3>1. Len(received) > 0
      BY <2>3, Receptions DEF GpsInv
    <3> QED
      BY <2>1, <2>3, <2>6, <3>1 DEF Held
  <2>7. \A k \in w' + 1 .. BufferSize :
            buffer'[k] = "NUL" \/ (Len(received') > 1 /\ \E r \in DOMAIN received' : Held(r, k)')
    BY <2>1, <2>6, AllHeld
  <2> QED
    BY <2>1, <2>3, <2>4, <2>5, <2>7 DEF Stored
<1>3. CASE Gps!Arrive
  <2>1. /\ receiving /\ w < Len(Gps!Burst) /\ w' = w + 1 /\ receiving' = (w' < BufferSize)
        /\ buffer' = [buffer EXCEPT ![w + 1] = Gps!Burst[w + 1]] /\ received' = received
    BY <1>3 DEF Gps!Arrive
  <2>2. /\ received # <<>> /\ w \in Nat /\ w < BufferSize /\ BufferSize \in Nat
        /\ buffer \in [1 .. BufferSize -> Gps!Characters]
    BY <2>1, GpsSizes DEF GpsInv, Indices, Gps!TypeOK
  <2>3. Len(Gps!Burst) \in Nat /\ Gps!Burst' = Gps!Burst
    BY <2>1, <2>2, Receptions DEF GpsInv, Gps!Burst
  <2>4. /\ \A k \in 1 .. BufferSize : k # w + 1 => buffer'[k] = buffer[k]
        /\ buffer'[w + 1] = Gps!Burst[w + 1]
    BY <2>1, <2>2
  <2>5. \A k \in 1 .. w' : buffer'[k] = Gps!Burst[k]
    BY <2>1, <2>2, <2>4 DEF Stored
  <2>6. ASSUME NEW k \in w' + 1 .. BufferSize, NEW r \in DOMAIN received, Held(r, k)
        PROVE  Held(r, k)'
    BY <2>1, <2>2, <2>4, <2>6 DEF Held
  <2>7. \A k \in w' + 1 .. BufferSize :
            buffer'[k] = "NUL" \/ (Len(received') > 1 /\ \E r \in DOMAIN received' : Held(r, k)')
    <3> TAKE k \in w' + 1 .. BufferSize
    <3>1. k \in w + 1 .. BufferSize /\ k # w + 1 /\ k \in 1 .. BufferSize
      BY <2>1, <2>2
    <3> QED
      BY <2>1, <2>4, <2>6, <3>1 DEF Stored
  <2>8. w' <= Len(Gps!Burst') /\ (~receiving' => w' = BufferSize)
    <3>1. w' <= Len(Gps!Burst') /\ (~(w' < BufferSize) => w' = BufferSize)
      <4>1. w < Len(Gps!Burst) /\ w' = w + 1
        BY <2>1
      <4> QED
        BY <2>2, <2>3, <4>1
    <3> QED
      BY <2>1, <3>1, Zenon
  <2> QED
    BY <2>1, <2>2, <2>3, <2>5, <2>7, <2>8 DEF Stored
<1>4. CASE Gps!LineIdle
  <2>1. /\ receiving /\ w = Len(Gps!Burst) /\ receiving' = FALSE
        /\ buffer' = buffer /\ w' = w /\ received' = received
    BY <1>4 DEF Gps!LineIdle
  <2>2. received # <<>>
    BY <2>1 DEF GpsInv, Indices
  <2>3. Gps!Burst' = Gps!Burst /\ \A r, k : Held(r, k)' <=> Held(r, k)
    BY <2>1 DEF Gps!Burst, Held
  <2>4. /\ w' <= Len(Gps!Burst') /\ w' = Len(Gps!Burst')
        /\ \A k \in 1 .. w' : buffer'[k] = Gps!Burst'[k]
    <3>1. w' <= Len(Gps!Burst') /\ w' = Len(Gps!Burst')
      BY <2>1, <2>2, <2>3 DEF Stored
    <3>2. ASSUME NEW k \in 1 .. w' PROVE buffer'[k] = Gps!Burst'[k]
      BY <2>1, <2>3 DEF Stored
    <3> QED
      BY <3>1, <3>2
  <2>5. ASSUME NEW k \in w' + 1 .. BufferSize
        PROVE  buffer'[k] = "NUL"
               \/ (Len(received') > 1 /\ \E r \in DOMAIN received' : Held(r, k)')
    <3>1. buffer[k] = "NUL" \/ (Len(received) > 1 /\ \E r \in DOMAIN received : Held(r, k))
      BY <2>1 DEF Stored
    <3> QED
      BY <2>1, <2>3, <3>1
  <2>6. received' # <<>>
    BY <2>1, <2>2
  <2> QED
    BY <2>4, <2>5, <2>6, Zenon DEF Stored
<1> QED
  BY <1>1, <1>2, <1>3, <1>4 DEF Gps!Next, Gps!Continue, Gps!StartInit, Gps!SendCommand,
     Gps!StartRead, Gps!Search, Gps!Match, Gps!Copy, Gps!Parse

LEMMA ModesNext == ASSUME GpsInv, Modes, Gps!Next PROVE Modes'
<1> USE DEF Modes, Gps!reception, Gps!reading
<1>1. CASE Gps!StartInit \/ Gps!SendCommand
  BY <1>1 DEF Gps!StartInit, Gps!SendCommand
<1>2. CASE Gps!StartDMA
  <2>1. /\ pc' = "idle" /\ settled' = settled
        /\ received' = received \/ \E b \in Gps!Bursts : received' = Append(received, b)
    BY <1>2 DEF Gps!StartDMA
  <2>2. \A b : Append(received, b) # <<>>
    BY DEF GpsInv, Gps!TypeOK
  <2> QED
    BY <2>1, <2>2
<1>3. CASE Gps!StartRead
  BY <1>3 DEF Gps!StartRead, GpsInv, Indices
<1>4. CASE Gps!Search \/ Gps!Match \/ Gps!Copy \/ Gps!Parse
  BY <1>4 DEF Gps!Search, Gps!Match, Gps!Copy, Gps!Parse, Gps!Returns
<1>5. CASE Gps!Arrive \/ Gps!LineIdle
  BY <1>5 DEF Gps!Arrive, Gps!LineIdle
<1> QED
  BY <1>1, <1>2, <1>3, <1>4, <1>5 DEF Gps!Next, Gps!Continue


(* Where the buffer is not NUL it is what came of the only reception.      *)
LEMMA OnlyReception ==
    ASSUME GpsInv, Stored, Len(received) = 1, NEW k \in 1 .. BufferSize, buffer[k] # "NUL"
    PROVE  1 \in DOMAIN received /\ k <= Len(received[1]) /\ buffer[k] = received[1][k]
<1>1. /\ received # <<>> /\ 1 \in DOMAIN received /\ Gps!Burst = received[1]
      /\ Len(received[1]) \in Nat
  BY Receptions DEF GpsInv
<1>2. k \in Nat \ {0} /\ w \in Nat /\ BufferSize \in Nat
  BY GpsSizes DEF GpsInv, Gps!TypeOK
<1>3. w <= Len(received[1]) /\ \A j \in 1 .. w : buffer[j] = received[1][j]
  BY <1>1 DEF Stored
<1>4. ~(k \in w + 1 .. BufferSize)
  BY DEF Stored
<1>5. k \in 1 .. w
  BY <1>2, <1>4
<1> QED
  BY <1>1, <1>2, <1>3, <1>5

LEMMA LineBegins ==
    ASSUME GpsInv, GpsInv', Stored, Modes, Gps!Match, pc' = "copy"
    PROVE  Copying'
<1>1. /\ pc = "match" /\ line = <<>> /\ line' = <<>> /\ i' = i /\ settled' = settled
      /\ buffer' = buffer /\ received' = received
      /\ \E c \in Gps!Cells(i) : \E d \in Gps!Cells(i + 1) : Gps!IsGga(c, d)
      /\ overrun' = (overrun \/ i + 1 > BufferSize)
  BY DEF Gps!Match, Gps!reception, GpsInv, Indices
<1> SUFFICES ASSUME ~overrun', settled \/ Len(received) = 1
             PROVE  \E r \in DOMAIN received : LineOf(r)'
  BY <1>1 DEF Copying
<1>2. i \in 1 .. BufferSize /\ BufferSize \in Nat /\ ~(i + 1 > BufferSize)
  <2>1. i \in 1 .. BufferSize + 1 /\ ~(i + 1 > BufferSize)
    BY <1>1 DEF GpsInv, Indices
  <2> QED
    BY <2>1, GpsSizes
<1>3. i + 1 \in 1 .. BufferSize
  BY <1>2
<1>4. buffer[i] = "$" /\ buffer[i + 1] = "GGA"
  <2>1. PICK c \in Gps!Cells(i), d \in Gps!Cells(i + 1) : c = "$" /\ d = "GGA"
    BY <1>1 DEF Gps!IsGga
  <2> QED
    BY <1>2, <1>3, <2>1, CellType DEF GpsInv
<1>5. ASSUME NEW r \in DOMAIN received, i + 1 <= Len(received[r]),
             received[r][i] = "$", received[r][i + 1] = "GGA", settled => Held(r, i)
      PROVE  LineOf(r)'
  <2>1. Len(received[r]) \in Nat
    BY Receptions DEF GpsInv
  <2>2. Begins(<<>>, received[r], i)
    BY <1>2, <1>5, <2>1 DEF Begins
  <2>3. settled' => Held(r, i)'
    BY <1>1, <1>5 DEF Held
  <2>4. Begins(line', received'[r], i')
    BY <1>1, <2>2
  <2> QED
    BY <2>3, <2>4 DEF LineOf
<1>6. CASE settled
  <2>1. ~receiving
    BY <1>1, <1>6 DEF Modes
  <2>2. PICK r \in DOMAIN received : Held(r, i)
    BY <1>2, <1>4, <2>1, AllHeld
  <2>3. /\ received[r] \in Gps!Bursts /\ Len(received[r]) \in Nat \ {0}
        /\ received[r][Len(received[r])] = "LF"
    BY Receptions, BurstForm DEF GpsInv
  <2>4. received[r][i] = "$"
    BY <1>2, <1>4, <2>2 DEF Held
  <2>5. i + 1 <= Len(received[r])
    BY <1>2, <2>2, <2>3, <2>4 DEF Held
  <2>6. received[r][i + 1] = "GGA"
    BY <1>2, <1>3, <1>4, <2>2, <2>5 DEF Held
  <2> QED
    BY <1>5, <2>2, <2>4, <2>5, <2>6
<1>7. CASE Len(received) = 1 /\ ~settled
  <2>1. /\ 1 \in DOMAIN received /\ i + 1 <= Len(received[1])
        /\ received[1][i] = "$" /\ received[1][i + 1] = "GGA"
    BY <1>2, <1>3, <1>4, <1>7, OnlyReception
  <2> QED
    BY <1>5, <1>7, <2>1
<1> QED
  BY <1>6, <1>7

LEMMA LineGrows ==
    ASSUME GpsInv, GpsInv', Stored, Copying, Gps!Copy
    PROVE  Copying'
<1> DEFINE h == i + Len(line)
<1>1. /\ pc = "copy" /\ i' = i /\ settled' = settled
      /\ buffer' = buffer /\ received' = received
      /\ overrun' = (overrun \/ h > BufferSize)
  BY DEF Gps!Copy, Gps!reception, Gps!Here
<1>2. \E c \in Gps!Cells(h) :
          \/ Gps!LineEnds(c) /\ pc' = "parse" /\ line' = line
          \/ ~Gps!LineEnds(c) /\ pc' = "copy" /\ line' = Append(line, Gps!Copied(c))
  BY <1>1 DEF Gps!Copy, Gps!Here
<1> SUFFICES ASSUME ~overrun', settled \/ Len(received) = 1
             PROVE  \E r \in DOMAIN received : LineOf(r)'
  BY <1>1 DEF Copying
<1>3. PICK r \in DOMAIN received : LineOf(r)
  BY <1>1 DEF Copying
<1> DEFINE b == received[r]
           m == Len(line)
<1>4. /\ b \in Gps!Bursts /\ Len(b) \in Nat \ {0} /\ b[Len(b)] = "LF"
      /\ \A k \in 1 .. Len(b) : b[k] # "NUL"
  BY Receptions, BurstForm DEF GpsInv
<1>5. /\ i \in 1 .. BufferSize + 1 /\ BufferSize \in Nat /\ m \in Nat
      /\ line \in Seq(Gps!Characters) /\ ~(h > BufferSize)
  <2>1. /\ i \in 1 .. BufferSize + 1 /\ BufferSize \in Nat /\ m \in Nat
        /\ line \in Seq(Gps!Characters)
    BY <1>1, GpsSizes DEF GpsInv, Indices, Gps!TypeOK
  <2>2. ~(h > BufferSize)
    BY <1>1
  <2> QED
    BY <2>1, <2>2
<1>6. /\ i \in 1 .. Len(b) /\ h <= Len(b) /\ b[i] = "$" /\ b[i + 1] = "GGA"
      /\ \A j \in 1 .. m : line[j] = b[i + j - 1] /\ line[j] \notin {"CR", "LF"}
  BY <1>3 DEF LineOf, Begins
<1>7. h \in i .. BufferSize /\ h \in 1 .. BufferSize /\ h \in 1 .. Len(b) /\ h \in Nat \ {0}
  BY <1>4, <1>5, <1>6
<1>8. \/ Gps!LineEnds(buffer[h]) /\ pc' = "parse" /\ line' = line
      \/ ~Gps!LineEnds(buffer[h]) /\ pc' = "copy" /\ line' = Append(line, buffer[h])
  <2>1. h <= BufferSize /\ h \in Nat \ {0}
    BY <1>5, <1>7
  <2>2. \A c \in Gps!Cells(h) : c = buffer[h] /\ Gps!Copied(c) = c
    BY <2>1, CellType DEF GpsInv, Gps!Copied, Gps!Here
  <2> QED
    BY <1>2, <2>2
<1>9. buffer[h] # "NUL" \/ settled => buffer[h] = b[h]
  <2>1. CASE settled
    <3>1. Held(r, i)
      BY <1>3, <2>1 DEF LineOf
    <3> QED
      BY <1>6, <1>7, <3>1 DEF Held
  <2>2. CASE ~settled
    <3>1. Len(received) = 1 /\ r = 1
      BY <2>2, Receptions DEF GpsInv
    <3> HIDE DEF h
    <3> QED
      BY <1>7, <2>2, <3>1, OnlyReception
  <2> QED
    BY <2>1, <2>2
<1>10. settled' => Held(r, i)'
  BY <1>1, <1>3 DEF LineOf, Held
<1>11. CASE Gps!LineEnds(buffer[h]) /\ pc' = "parse" /\ line' = line
  <2>1. Begins(line', received'[r], i')
    BY <1>1, <1>3, <1>11 DEF LineOf
  <2>2. buffer[h] \in {"NUL", "CR", "LF"} \/ m = LineSize - 1
    BY <1>11 DEF Gps!LineEnds
  <2>3. settled => b[h] \in {"CR", "LF"} \/ m = LineSize - 1
    BY <1>4, <1>7, <1>9, <2>2
  <2> QED
    BY <1>1, <1>10, <1>11, <2>1, <2>3 DEF LineOf
<1>12. CASE ~Gps!LineEnds(buffer[h]) /\ pc' = "copy" /\ line' = Append(line, buffer[h])
  <2>1. b[h] = buffer[h] /\ b[h] \notin {"CR", "LF"} /\ line' = Append(line, b[h])
    BY <1>9, <1>12 DEF Gps!LineEnds
  <2>2. h # Len(b)
    BY <1>4, <2>1
  <2>3. /\ Len(line') = m + 1 /\ line'[m + 1] = b[h]
        /\ \A j \in 1 .. m : line'[j] = line[j]
    BY <1>5, <2>1
  <2>4. ASSUME NEW j \in 1 .. m + 1
        PROVE  line'[j] = b[i + j - 1] /\ line'[j] \notin {"CR", "LF"}
    <3>1. CASE j = m + 1
      <4>1. i + j - 1 = h
        BY <1>5, <3>1
      <4> QED
        BY <2>1, <2>3, <3>1, <4>1
    <3>2. CASE j # m + 1
      <4>1. j \in 1 .. m
        BY <1>5, <3>2
      <4> QED
        BY <1>6, <2>3, <4>1
    <3> QED
      BY <3>1, <3>2
  <2>5. i + (m + 1) <= Len(b)
    BY <1>4, <1>5, <1>6, <2>2
  <2>6. Begins(line', b, i)
    BY <1>6, <2>3, <2>4, <2>5 DEF Begins
  <2> QED
    BY <1>1, <1>10, <1>12, <2>6 DEF LineOf
<1> QED
  BY <1>8, <1>11, <1>12

LEMMA CopyingNext ==
    ASSUME GpsInv, GpsInv', Stored, Modes, Copying, Gps!Next
    PROVE  Copying'
<1>1. CASE pc' \notin {"copy", "parse"}
  BY <1>1 DEF Copying
<1>2. CASE Gps!Arrive \/ Gps!LineIdle
  <2>1. /\ receiving /\ received' = received /\ pc' = pc /\ line' = line /\ i' = i
        /\ settled' = settled /\ overrun' = overrun
    BY <1>2 DEF Gps!Arrive, Gps!LineIdle, Gps!reading
  <2>2. pc \in {"copy", "parse"} => ~settled
    BY <2>1 DEF Modes
  <2> QED
    BY <2>1, <2>2 DEF Copying, LineOf
<1>3. CASE Gps!Match /\ pc' = "copy"
  BY <1>3, LineBegins
<1>4. CASE Gps!Copy
  BY <1>4, LineGrows
<1>5. \/ pc' \notin {"copy", "parse"}
      \/ Gps!Arrive \/ Gps!LineIdle \/ (Gps!Match /\ pc' = "copy") \/ Gps!Copy
  BY DEF Gps!Next, Gps!Continue, Gps!StartInit, Gps!SendCommand, Gps!StartDMA,
     Gps!StartRead, Gps!Search, Gps!Match, Gps!Parse, Gps!Returns
<1> QED
  BY <1>1, <1>2, <1>3, <1>4, <1>5

-----------------------------------------------------------------------------
(* What is found.                                                          *)

(* The exceptions of FixOfOneSentence, and what it asks of a fix.          *)
Excepted == overrun \/ (~settled /\ Len(received) > 1)

OfOneSentence(f) ==
    \E k \in DOMAIN received : \E e \in Gps!Expected[received[k]] :
        /\ f = [e EXCEPT !.altitude = f.altitude]
        /\ settled => f = e
        /\ ~settled => Gps!IsPrefix(f.altitude, e.altitude)

LEMMA FixSays ==
    /\ Gps!FixOfOneSentence => \A f \in found : Excepted \/ OfOneSentence(f)
    /\ (\A f \in found' : Excepted' \/ OfOneSentence(f)') => Gps!FixOfOneSentence'
<1>1. CASE settled
  BY <1>1 DEF Gps!FixOfOneSentence, Excepted, OfOneSentence
<1>2. CASE ~settled
  BY <1>2 DEF Gps!FixOfOneSentence, Excepted, OfOneSentence
<1>3. Gps!FixOfOneSentence => \A f \in found : Excepted \/ OfOneSentence(f)
  BY <1>1, <1>2
<1>4. (\A f \in found' : Excepted' \/ OfOneSentence(f)') => Gps!FixOfOneSentence'
  BY DEF Gps!FixOfOneSentence, Excepted, OfOneSentence
<1> QED
  BY <1>3, <1>4

LEMMA FixParsed == ASSUME GpsInv, Modes, Copying, Gps!Parse PROVE Gps!FixOfOneSentence'
<1> DEFINE split == Gps!Split(line)
<1>1. /\ pc = "parse" /\ settled' = settled /\ overrun' = overrun /\ received' = received
      /\ \/ found' = {}
         \/ /\ ~(split.index < Gps!Altitude) \/ overrun
            /\ found' = {Gps!Fix(split.fields)}
  <2>1. /\ pc = "parse" /\ settled' = settled /\ overrun' = overrun /\ received' = received
        /\ \/ found' = {}
           \/ /\ split.index < Gps!Altitude => Gps!Here > BufferSize + 1
              /\ found' = {Gps!Fix(split.fields)}
    BY DEF Gps!Parse, Gps!Returns, Gps!reception
  <2>2. Gps!Here <= BufferSize + 1 \/ overrun
    BY <2>1 DEF GpsInv, Indices
  <2>3. Gps!Here > BufferSize + 1 => overrun
    <3>1. Gps!Here \in Nat /\ BufferSize \in Nat
      BY GpsSizes DEF GpsInv, Gps!TypeOK, Gps!Here
    <3>2. Gps!Here > BufferSize + 1 => ~(Gps!Here <= BufferSize + 1)
      BY <3>1
    <3> QED
      BY <2>2, <3>2
  <2> QED
    BY <2>1, <2>3
<1> HIDE DEF split
<1>2. ASSUME NEW f \in found', ~Excepted PROVE OfOneSentence(f)'
  <2>1. f = Gps!Fix(split.fields) /\ ~(split.index < 9)
    BY <1>1, <1>2, FieldSizes DEF Excepted
  <2>2. settled \/ Len(received) = 1
    <3>1. ~settled => received # <<>> /\ ~(Len(received) > 1)
      BY <1>2 DEF Excepted, Modes
    <3>2. received # <<>> => Len(received) \in 1 .. Len(received)
      BY Receptions DEF GpsInv
    <3>3. received # <<>> /\ ~(Len(received) > 1) => Len(received) = 1
      BY <3>2, Receptions DEF GpsInv
    <3> QED
      BY <3>1, <3>3
  <2>3. PICK r \in DOMAIN received : LineOf(r)
    BY <1>1, <1>2, <2>2 DEF Copying, Excepted
  <2>4. /\ received[r] \in Gps!Bursts /\ Begins(line, received[r], i)
        /\ settled => received[r][i + Len(line)] \in {"CR", "LF"} \/ Len(line) = LineSize - 1
        /\ line \in Seq(Gps!Characters)
    BY <1>1, <2>3, Receptions DEF LineOf, GpsInv, Gps!TypeOK
  <2>5. ~(Gps!Split(line).index < 9)
    BY <2>1 DEF split
  <2>6. PICK e \in Gps!Expected[received[r]] :
            /\ f = [e EXCEPT !.altitude = f.altitude]
            /\ Gps!IsPrefix(f.altitude, e.altitude)
            /\ received[r][i + Len(line)] \in {"CR", "LF"} \/ Len(line) = LineSize - 1 => f = e
    BY <2>1, <2>4, <2>5, FixOfBegun DEF split
  <2>7. settled => f = e
    BY <2>4, <2>6
  <2> QED
    BY <1>1, <2>6, <2>7 DEF OfOneSentence
<1>3. Excepted' <=> Excepted
  BY <1>1 DEF Excepted
<1>4. \A f \in found' : Excepted' \/ OfOneSentence(f)'
  BY <1>2, <1>3
<1> QED
  BY <1>4, FixSays

LEMMA FixNext ==
    ASSUME GpsInv, Modes, Copying, Gps!FixOfOneSentence, Gps!Next
    PROVE  Gps!FixOfOneSentence'
<1>1. CASE found' = {}
  BY <1>1, Zenon DEF Gps!FixOfOneSentence
<1>2. CASE /\ found' = found /\ settled' = settled /\ received' = received
           /\ overrun => overrun'
  BY <1>2, Zenon DEF Gps!FixOfOneSentence
<1>3. CASE Gps!StartDMA /\ received' # received
  <2>1. /\ found' = found /\ settled' = settled /\ overrun' = overrun
        /\ \E b \in Gps!Bursts : received' = Append(received, b)
    BY <1>3 DEF Gps!StartDMA, Gps!reading, Gps!reception
  <2>2. PICK b \in Gps!Bursts : received' = Append(received, b)
    BY <2>1
  <2>3. /\ Len(received) > 1 => Len(received') > 1
        /\ \A r \in DOMAIN received : r \in DOMAIN received' /\ received'[r] = received[r]
    BY <2>2 DEF GpsInv, Gps!TypeOK
  <2>4. Excepted => Excepted'
    BY <2>1, <2>3 DEF Excepted
  <2>5. ASSUME NEW f \in found, OfOneSentence(f) PROVE OfOneSentence(f)'
    BY <2>1, <2>3, <2>5 DEF OfOneSentence
  <2>6. \A f \in found' : Excepted' \/ OfOneSentence(f)'
    BY <2>1, <2>4, <2>5, FixSays
  <2> QED
    BY <2>6, FixSays
<1>4. CASE Gps!Parse
  BY <1>4, FixParsed
<1>5. \/ found' = {}
      \/ found' = found /\ settled' = settled /\ received' = received /\ (overrun => overrun')
      \/ Gps!StartDMA /\ received' # received
      \/ Gps!Parse
  <2> USE DEF Gps!reading, Gps!reception
  <2>1. CASE Gps!StartInit \/ Gps!SendCommand
    BY <2>1 DEF Gps!StartInit, Gps!SendCommand
  <2>2. CASE Gps!StartDMA
    BY <2>2 DEF Gps!StartDMA
  <2>3. CASE Gps!StartRead
    BY <2>3 DEF Gps!StartRead
  <2>4. CASE Gps!Search
    BY <2>4 DEF Gps!Search, Gps!Returns
  <2>5. CASE Gps!Match \/ Gps!Copy
    BY <2>5 DEF Gps!Match, Gps!Copy
  <2>6. CASE Gps!Arrive \/ Gps!LineIdle
    BY <2>6 DEF Gps!Arrive, Gps!LineIdle
  <2> QED
    BY <2>1, <2>2, <2>3, <2>4, <2>5, <2>6 DEF Gps!Next, Gps!Continue
<1> QED
  BY <1>1, <1>2, <1>3, <1>4, <1>5

-----------------------------------------------------------------------------

LEMMA FixInit == Gps!Init => FixInv
<1> SUFFICES ASSUME Gps!Init PROVE FixInv
  OBVIOUS
<1>1. /\ buffer = [k \in 1 .. BufferSize |-> "NUL"] /\ ~receiving /\ w = 0 /\ received = <<>>
      /\ pc = "idle" /\ found = {} /\ settled
  BY DEF Gps!Init
<1>2. \A k \in w + 1 .. BufferSize : buffer[k] = "NUL"
  BY <1>1, GpsSizes
<1>3. Stored
  BY <1>1, <1>2 DEF Stored
<1>4. Gps!FixOfOneSentence
  BY <1>1, Zenon DEF Gps!FixOfOneSentence
<1> QED
  BY <1>1, <1>3, <1>4 DEF FixInv, Modes, Copying

LEMMA FixKept == ASSUME FixInv, UNCHANGED gps PROVE FixInv'
<1> USE DEF gps, FixInv
<1>1. Stored'
  BY DEF Stored, Held, Gps!Burst
<1>2. Modes'
  BY DEF Modes
<1>3. Copying'
  BY DEF Copying, LineOf, Held
<1>4. Gps!FixOfOneSentence'
  BY Zenon DEF Gps!FixOfOneSentence
<1> QED
  BY <1>1, <1>2, <1>3, <1>4

(* When read() returns true the packet holds one GGA sentence of those     *)
(* received, field by field, whatever they contain and whenever they come; *)
(* only the altitude of one that was still coming may be cut off.  A       *)
(* buffer read beyond its end and the remains of an earlier reception are  *)
(* excepted (cd-pa1616s.cpp:30-147).                                       *)
THEOREM FixIsOfOneSentence == Spec => []FixOfOneSentence
<1>1. Init => FixInv
  BY FixInit DEF Init
<1>2. ASSUME IInv, IInv', FixInv, Next PROVE FixInv'
  <2>1. CASE UNCHANGED gps
    BY <1>2, <2>1, FixKept
  <2>2. CASE Gps!Next
    <3>1. GpsInv /\ GpsInv' /\ Stored /\ Modes /\ Copying /\ Gps!FixOfOneSentence
      BY <1>2 DEF IInv, FixInv
    <3>2. Stored' /\ Modes' /\ Copying' /\ Gps!FixOfOneSentence'
      BY <2>2, <3>1, StoredNext, ModesNext, CopyingNext, FixNext
    <3> QED
      BY <3>2 DEF FixInv
  <2> QED
    BY <1>2, <2>1, <2>2 DEF Next, BoschStep, GpsStep
<1>3. IInv /\ IInv' /\ FixInv /\ [Next]_vars => FixInv'
  BY <1>2, FixKept DEF vars
<1>4. FixInv => FixOfOneSentence
  BY DEF FixInv, FixOfOneSentence
<1> QED
  BY <1>1, <1>3, <1>4, Inductive, PTL DEF Spec
==============================================================================
