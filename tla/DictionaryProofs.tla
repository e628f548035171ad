--------------------------- MODULE DictionaryProofs ---------------------------
(* Proofs about the dictionary and the library it shares: for texts of any *)
(* length, a buffer of any size and any list of entries.                   *)
EXTENDS Dictionary, SequenceTheorems, FiniteSetTheorems, WellFoundedInduction, TLAPS

-----------------------------------------------------------------------------
(* The first line.                                                         *)

(* A set of numbers has a least one.                                       *)
LEMMA Least ==
  ASSUME NEW T, T \subseteq Nat, T # {}
  PROVE  \E m \in T : \A n \in T : m <= n
<1>1. PICK m \in T : \A n \in T : <<n, m>> \notin OpToRel(<, Nat)
  BY NatLessThanWellFounded, WFMin
<1>2. ASSUME NEW n \in T PROVE m <= n
  <2>1. m \in Nat /\ n \in Nat
    OBVIOUS
  <2>2. ~(n < m)
    BY <1>1, <2>1 DEF OpToRel
  <2> QED
    BY <2>1, <2>2
<1> QED
  BY <1>2

(* The first line is at least as long as what has no newline in it, and it *)
(* ends at the first newline or with the text.                             *)
LEMMA FirstLine ==
  ASSUME text \in Texts, NEW n \in 0 .. Len(text), \A i \in 1 .. n : text[i] # NL
  PROVE  /\ Len(Line) \in Nat /\ Len(Line) >= n
         /\ (n = Len(text) \/ (n < Len(text) /\ text[n + 1] = NL)) =>
              /\ Len(Line) = n
              /\ Line = [i \in 1 .. n |-> text[i]]
<1> DEFINE ends == {i \in 1 .. Len(text) : text[i] = NL}
<1>1. text \in Seq(1 .. 127) /\ Len(text) \in Nat /\ n \in Nat
  BY LibraryAssumption, LenProperties
<1>2. CASE ends = {}
  <2>1. Line = text
    BY <1>2 DEF Line
  <2>2. ~(n < Len(text) /\ text[n + 1] = NL)
    BY <1>1, <1>2
  <2>3. text = [i \in 1 .. Len(text) |-> text[i]]
    BY <1>1, LenProperties
  <2> QED
    BY <1>1, <2>1, <2>2, <2>3
<1>3. CASE ends # {}
  <2> DEFINE m == CHOOSE i \in ends : \A j \in ends : i <= j
  <2>1. m \in ends /\ \A j \in ends : m <= j
    <3>1. ends \subseteq Nat
      BY <1>1
    <3> HIDE DEF ends
    <3> QED
      BY <1>3, <3>1, Least
  <2>2. Line = SubSeq(text, 1, m - 1)
    BY <1>3 DEF Line
  <2> HIDE DEF m
  <2>3. m \in 1 .. Len(text) /\ text[m] = NL /\ m > n /\ m \in Nat
    BY <1>1, <2>1
  <2>4. /\ Len(Line) = m - 1 /\ Line \in Seq(1 .. 127)
        /\ \A i \in 1 .. m - 1 : Line[i] = text[i]
    <3>1. \A i \in 1 .. m - 1 : text[i] \in 1 .. 127
      <4>1. \A i \in 1 .. Len(text) : text[i] \in 1 .. 127
        BY <1>1, ElementOfSeq
      <4>2. 1 .. m - 1 \subseteq 1 .. Len(text)
        BY <1>1, <2>3
      <4> QED
        BY <4>1, <4>2
    <3>2. 1 \in Int /\ m - 1 \in Int
      BY <2>3
    <3>3. /\ SubSeq(text, 1, m - 1) \in Seq(1 .. 127)
          /\ Len(SubSeq(text, 1, m - 1)) = IF 1 <= m - 1 THEN (m - 1) - 1 + 1 ELSE 0
          /\ \A i \in 1 .. (m - 1) - 1 + 1 : SubSeq(text, 1, m - 1)[i] = text[1 + i - 1]
      BY <3>1, <3>2, SubSeqProperties
    <3> QED
      BY <2>2, <2>3, <3>3
  <2>5. Line = [i \in 1 .. m - 1 |-> text[i]]
    BY <2>3, <2>4, LenProperties
  <2>6. ASSUME n = Len(text) \/ (n < Len(text) /\ text[n + 1] = NL) PROVE m - 1 = n
    <3>1. n # Len(text)
      BY <1>1, <2>3
    <3>2. n + 1 \in ends
      BY <1>1, <2>6, <3>1
    <3> QED
      BY <1>1, <2>1, <2>3, <3>2
  <2> QED
    BY <1>1, <2>3, <2>4, <2>5, <2>6
<1> QED
  BY <1>2, <1>3

-----------------------------------------------------------------------------
(* The buffer.                                                             *)

(* n characters of the text, from the i-th on, are in the buffer, as a     *)
(* string.                                                                 *)
Holds(i, n) ==
  /\ n \in 0 .. BUFFER_SIZE /\ i \in Nat \ {0} /\ i + n <= Len(text) + 1
  /\ buffer[n] = NUL
  /\ \A k \in 0 .. n - 1 : buffer[k] = text[i + k]

LEMMA StringIsText ==
  ASSUME text \in Texts, NEW i, NEW n, Holds(i, n)
  PROVE  String = [k \in 1 .. n |-> text[(i + k) - 1]]
<1>1. /\ text \in Seq(1 .. 127) /\ Len(text) \in Nat /\ BUFFER_SIZE \in Nat
      /\ i \in Nat /\ i > 0 /\ n \in Nat /\ i + n <= Len(text) + 1 /\ n <= BUFFER_SIZE
  BY LibraryAssumption, LenProperties DEF Holds
<1>2. ASSUME NEW k \in 0 .. n - 1 PROVE buffer[k] = text[i + k] /\ buffer[k] # NUL
  <2>1. i + k \in 1 .. Len(text)
    BY <1>1
  <2>2. text[i + k] \in 1 .. 127
    BY <1>1, <2>1, ElementOfSeq
  <2>3. buffer[k] = text[i + k]
    BY DEF Holds
  <2> QED
    BY <2>2, <2>3 DEF NUL
<1>3. n \in Memory
  BY <1>1 DEF Memory, QWORD
<1>4. string_length = n
  <2>1. /\ n \in Memory /\ buffer[n] = NUL /\ \A k \in 0 .. n - 1 : buffer[k] # NUL
    BY <1>2, <1>3 DEF Holds
  <2>2. ASSUME NEW m \in Memory, buffer[m] = NUL, \A k \in 0 .. m - 1 : buffer[k] # NUL
        PROVE  m = n
    <3>1. m \in Nat
      BY DEF Memory
    <3>2. ~(m < n)
      BY <1>1, <1>2, <2>2, <3>1
    <3>3. ~(n < m)
      BY <1>1, <2>1, <2>2, <3>1
    <3> QED
      BY <1>1, <3>1, <3>2, <3>3
  <2> QED
    BY <2>1, <2>2 DEF string_length
<1>5. \A k \in 1 .. n : buffer[k - 1] = text[(i + k) - 1]
  <2> SUFFICES ASSUME NEW k \in 1 .. n PROVE buffer[k - 1] = text[(i + k) - 1]
    OBVIOUS
  <2>1. k - 1 \in 0 .. n - 1 /\ i + (k - 1) = (i + k) - 1
    BY <1>1
  <2> QED
    BY <1>2, <2>1
<1> QED
  BY <1>4, <1>5 DEF String

-----------------------------------------------------------------------------
(* The words.                                                              *)

LEMMA StartsAreFinite ==
  ASSUME text \in Texts
  PROVE  /\ Len(text) \in Nat /\ Starts \subseteq 1 .. Len(text) /\ Starts \subseteq Nat
         /\ IsFiniteSet(Starts)
<1>1. Len(text) \in Nat
  BY LibraryAssumption, LenProperties
<1>2. Starts \subseteq 1 .. Len(text)
  BY DEF Starts
<1>3. IsFiniteSet(Starts)
  <2>1. IsFiniteSet(1 .. Len(text))
    BY <1>1, FS_Interval
  <2>2. Starts \in SUBSET (1 .. Len(text))
    BY <1>2
  <2> QED
    BY <2>1, <2>2, FS_Subset
<1> QED
  BY <1>1, <1>2, <1>3

(* One more word begins up to the i-th than before it.                     *)
LEMMA OneMore ==
  ASSUME text \in Texts, NEW i \in Starts
  PROVE  /\ Cardinality({j \in Starts : j < i}) \in Nat
         /\ Cardinality({j \in Starts : j <= i}) = Cardinality({j \in Starts : j < i}) + 1
         /\ Cardinality({j \in Starts : j <= i}) <= Cardinality(Starts)
         /\ Cardinality(Starts) \in Nat
<1> DEFINE before == {j \in Starts : j < i}
           upto == {j \in Starts : j <= i}
<1>1. upto = before \cup {i} /\ i \notin before
  BY StartsAreFinite
<1>2. before \in SUBSET Starts /\ upto \in SUBSET Starts
  OBVIOUS
<1> HIDE DEF before, upto
<1>3. IsFiniteSet(before) /\ IsFiniteSet(upto)
  BY <1>2, StartsAreFinite, FS_Subset
<1>4. Cardinality(before) \in Nat /\ Cardinality(upto) = Cardinality(before) + 1
  BY <1>1, <1>3, FS_CardinalityType, FS_AddElement
<1>5. Cardinality(upto) <= Cardinality(Starts) /\ Cardinality(Starts) \in Nat
  BY <1>2, StartsAreFinite, FS_CardinalityType, FS_Subset
<1> QED
  BY <1>4, <1>5 DEF before, upto

(* It is the only word with this number.                                   *)
LEMMA WordNumber ==
  ASSUME text \in Texts, NEW i \in Starts,
         NEW n, n = Cardinality({j \in Starts : j <= i})
  PROVE  Words[n] = WordAt(i)
<1> DEFINE Before(k) == Cardinality({j \in Starts : j < k})
<1>1. Before(i) = n - 1 /\ n \in 1 .. Cardinality(Starts)
  BY OneMore
<1>2. ASSUME NEW k \in Starts, NEW l \in Starts, k < l PROVE Before(k) < Before(l)
  <2> DEFINE upto == {j \in Starts : j <= k}
             before == {j \in Starts : j < l}
  <2>1. upto \subseteq before /\ before \subseteq Starts
    BY <1>2, StartsAreFinite
  <2>2. Cardinality(upto) = Before(k) + 1 /\ Before(k) \in Nat
    BY OneMore
  <2> HIDE DEF upto
  <2>3. Cardinality(upto) <= Cardinality(before)
    <3> HIDE DEF before
    <3>1. IsFiniteSet(before)
      BY <2>1, StartsAreFinite, FS_Subset
    <3> QED
      BY <2>1, <3>1, FS_Subset
  <2>4. Before(l) = Cardinality(before) /\ Before(l) \in Nat
    BY OneMore
  <2> HIDE DEF Before, before
  <2> QED
    BY <2>2, <2>3, <2>4
<1>3. (CHOOSE k \in Starts : Before(k) = n - 1) = i
  <2>1. ASSUME NEW k \in Starts, Before(k) = n - 1 PROVE k = i
    <3>1. k \in Nat /\ i \in Nat /\ n - 1 \in Int
      BY <1>1, StartsAreFinite
    <3> HIDE DEF Before
    <3>2. ~(k < i) /\ ~(i < k)
      BY <1>1, <1>2, <2>1, <3>1
    <3> QED
      BY <3>1, <3>2
  <2> HIDE DEF Before
  <2> QED
    BY <1>1, <2>1
<1> QED
  BY <1>1, <1>3 DEF Words

(* A word reaches up to the blank behind it.                               *)
LEMMA WordUpTo ==
  ASSUME text \in Texts, NEW i \in Nat, NEW e \in Nat, 1 <= i, i <= e, e <= Len(text),
         \A k \in i .. e : text[k] \notin Blank,
         e < Len(text) => text[e + 1] \in Blank
  PROVE  /\ WordAt(i) = [k \in 1 .. (e - i) + 1 |-> text[(i + k) - 1]]
         /\ Len(WordAt(i)) = (e - i) + 1
<1>1. text \in Seq(1 .. 127) /\ Len(text) \in Nat
  BY LibraryAssumption, LenProperties
<1>2. (CHOOSE j \in i .. Len(text) : /\ \A k \in i .. j : text[k] \notin Blank
                                     /\ j < Len(text) => text[j + 1] \in Blank) = e
  <2>1. e \in i .. Len(text)
    BY <1>1
  <2>2. ASSUME NEW j \in i .. Len(text), \A k \in i .. j : text[k] \notin Blank,
               j < Len(text) => text[j + 1] \in Blank
        PROVE  j = e
    <3>1. ~(j < e)
      <4> SUFFICES ASSUME j < e PROVE FALSE
        OBVIOUS
      <4>1. j + 1 \in i .. e /\ j < Len(text)
        BY <1>1
      <4> QED
        BY <2>2, <4>1
    <3>2. ~(e < j)
      <4> SUFFICES ASSUME e < j PROVE FALSE
        OBVIOUS
      <4>1. e + 1 \in i .. j /\ e < Len(text)
        BY <1>1
      <4> QED
        BY <2>2, <4>1
    <3> QED
      BY <1>1, <3>1, <3>2
  <2> QED
    BY <2>1, <2>2
<1>3. WordAt(i) = SubSeq(text, i, e)
  BY <1>2 DEF WordAt
<1>4. \A k \in i .. e : text[k] \in 1 .. 127
  <2>1. i .. e \subseteq 1 .. Len(text)
    BY <1>1
  <2> QED
    BY <1>1, <2>1, ElementOfSeq
<1>5. /\ SubSeq(text, i, e) \in Seq(1 .. 127)
      /\ Len(SubSeq(text, i, e)) = (e - i) + 1
      /\ \A k \in 1 .. (e - i) + 1 : SubSeq(text, i, e)[k] = text[(i + k) - 1]
  <2>1. i \in Int /\ e \in Int
    OBVIOUS
  <2>2. /\ SubSeq(text, i, e) \in Seq(1 .. 127)
        /\ Len(SubSeq(text, i, e)) = IF i <= e THEN e - i + 1 ELSE 0
        /\ \A k \in 1 .. e - i + 1 : SubSeq(text, i, e)[k] = text[i + k - 1]
    BY <1>4, <2>1, SubSeqProperties
  <2> QED
    BY <2>2
<1> QED
  BY <1>3, <1>5, LenProperties

-----------------------------------------------------------------------------
(* Numbers.                                                                *)

(* Induction up to m: what is to be shown of a number is that it is in S.  *)
LEMMA UpTo ==
  ASSUME NEW m \in Nat, NEW S,
         \A n \in 0 .. m : (\A k \in 0 .. n - 1 : k \in S) => n \in S
  PROVE  \A n \in 0 .. m : n \in S
<1> DEFINE others == {n \in 0 .. m : n \notin S}
<1>1. ASSUME others # {} PROVE FALSE
  <2>1. PICK n \in others : \A k \in others : n <= k
    <3>1. others \subseteq Nat
      OBVIOUS
    <3> HIDE DEF others
    <3> QED
      BY <1>1, <3>1, Least
  <2>2. \A k \in 0 .. n - 1 : k \in S
    <3> SUFFICES ASSUME NEW k \in 0 .. n - 1 PROVE k \in S
      OBVIOUS
    <3>1. k \in 0 .. m /\ ~(n <= k)
      BY <2>1
    <3> QED
      BY <2>1, <3>1
  <2> QED
    BY <2>1, <2>2
<1> QED
  BY <1>1

(* A function that is defined from 0 on, step by step, exists.             *)
LEMMA StepByStep ==
  ASSUME NEW m \in Nat, NEW step \in [1 .. m -> [Int -> Int]]
  PROVE  \E f \in [0 .. m -> Int] : /\ f[0] = 0
                                  /\ \A n \in 1 .. m : f[n] = step[n][f[n - 1]]
<1> DEFINE Good(n, f) == f[0] = 0 /\ \A k \in 1 .. n : f[k] = step[k][f[k - 1]]
           S == {n \in Nat : \E f \in [0 .. n -> Int] : Good(n, f)}
<1>1. ASSUME NEW n \in 0 .. m, \A k \in 0 .. n - 1 : k \in S PROVE n \in S
  <2>1. CASE n = 0
    <3>1. [k \in 0 .. 0 |-> 0] \in [0 .. 0 -> Int] /\ Good(0, [k \in 0 .. 0 |-> 0])
      OBVIOUS
    <3> HIDE DEF Good
    <3>2. \E f \in [0 .. 0 -> Int] : Good(0, f)
      BY <3>1
    <3> QED
      BY <2>1, <3>2
  <2>2. CASE n # 0
    <3>0. n \in Nat /\ n - 1 \in Nat /\ n - 1 \in S
      <4>1. n \in Nat /\ n - 1 \in Nat /\ n - 1 \in 0 .. n - 1
        BY <2>2
      <4> HIDE DEF S
      <4> QED
        BY <1>1, <4>1
    <3>1. PICK f \in [0 .. n - 1 -> Int] : Good(n - 1, f)
      BY <3>0
    <3>2. PICK w \in Int : w = step[n][f[n - 1]]
      <4>1. n \in 1 .. m /\ n - 1 \in 0 .. n - 1
        BY <2>2
      <4>2. step[n] \in [Int -> Int] /\ f[n - 1] \in Int
        BY <4>1
      <4> QED
        BY <4>2
    <3> DEFINE g == [k \in 0 .. n |-> IF k = n THEN w ELSE f[k]]
    <3>3. g \in [0 .. n -> Int]
      <4>1. \A k \in 0 .. n : k # n => f[k] \in Int
        BY <2>2
      <4> QED
        BY <3>2, <4>1
    <3>4. g[n] = w /\ \A k \in 0 .. n - 1 : g[k] = f[k]
      BY <2>2
    <3> HIDE DEF g
    <3>5. Good(n, g)
      <4>1. ASSUME NEW k \in 1 .. n PROVE g[k] = step[k][g[k - 1]]
        <5>1. k - 1 \in 0 .. n - 1 /\ (k # n => k \in 0 .. n - 1 /\ k \in 1 .. n - 1)
          BY <2>2
        <5> QED
          BY <3>1, <3>2, <3>4, <5>1
      <4>2. 0 \in 0 .. n - 1
        BY <2>2
      <4> QED
        BY <3>1, <3>4, <4>1, <4>2
    <3> HIDE DEF Good
    <3> QED
      BY <3>0, <3>3, <3>5
  <2> QED
    BY <2>1, <2>2
<1>2. m \in S
  <2> HIDE DEF S
  <2>1. \A n \in 0 .. m : (\A k \in 0 .. n - 1 : k \in S) => n \in S
    BY <1>1
  <2>2. \A n \in 0 .. m : n \in S
    BY <2>1, UpTo
  <2> QED
    BY <2>2
<1> QED
  BY <1>2

(* How many digits a string begins with.                                   *)
LEMMA DigitsCounted ==
  ASSUME NEW s \in Seq(Int)
  PROVE  /\ Digits(s) \in 0 .. Len(s) /\ Len(s) \in Nat
         /\ \A i \in 1 .. Digits(s) : s[i] \in Digit
         /\ Digits(s) < Len(s) => s[Digits(s) + 1] \notin Digit
<1> DEFINE T == {n \in 0 .. Len(s) : n < Len(s) => s[n + 1] \notin Digit}
<1>1. Len(s) \in Nat
  BY LenProperties
<1>2. PICK m \in T : \A n \in T : m <= n
  <2>1. Len(s) \in T /\ T \subseteq Nat
    BY <1>1
  <2> HIDE DEF T
  <2> QED
    BY <2>1, Least
<1>3. \A i \in 1 .. m : s[i] \in Digit
  <2> SUFFICES ASSUME NEW i \in 1 .. m, s[i] \notin Digit PROVE FALSE
    OBVIOUS
  <2>1. i - 1 \in 0 .. Len(s) /\ (i - 1) + 1 = i /\ ~(m <= i - 1)
    BY <1>1
  <2> QED
    BY <1>2, <2>1
<1> QED
  BY <1>1, <1>2, <1>3 DEF Digits

(* The number that the digits stand for, digit by digit.                   *)
LEMMA SizeCounted ==
  ASSUME NEW s \in Seq(Int)
  PROVE  \E size \in [0 .. Len(s) -> Int] :
           /\ size[0] = 0
           /\ \A n \in 1 .. Len(s) : size[n] = size[n - 1] * 10 + s[n] - 48
           /\ Size(s) = size[Digits(s)]
<1>1. Len(s) \in Nat /\ \A n \in 1 .. Len(s) : s[n] \in Int
  BY LenProperties, ElementOfSeq
<1> DEFINE step == [n \in 1 .. Len(s) |-> [v \in Int |-> v * 10 + s[n] - 48]]
           Good(f) == f = [n \in 0 .. Len(s) |-> IF n = 0 THEN 0 ELSE f[n - 1] * 10 + s[n] - 48]
<1>2. \E f : Good(f)
  <2>1. step \in [1 .. Len(s) -> [Int -> Int]]
    <3>1. \A n \in 1 .. Len(s) : [v \in Int |-> v * 10 + s[n] - 48] \in [Int -> Int]
      BY <1>1
    <3> QED
      BY <3>1
  <2>2. PICK f \in [0 .. Len(s) -> Int] :
          f[0] = 0 /\ \A n \in 1 .. Len(s) : f[n] = step[n][f[n - 1]]
    <3> HIDE DEF step
    <3>1. \A d \in [1 .. Len(s) -> [Int -> Int]] : \E f \in [0 .. Len(s) -> Int] :
            f[0] = 0 /\ \A n \in 1 .. Len(s) : f[n] = d[n][f[n - 1]]
      BY <1>1, StepByStep
    <3> QED
      BY <2>1, <3>1
  <2>3. \A n \in 1 .. Len(s) : f[n] = f[n - 1] * 10 + s[n] - 48
    <3> SUFFICES ASSUME NEW n \in 1 .. Len(s) PROVE f[n] = f[n - 1] * 10 + s[n] - 48
      OBVIOUS
    <3>1. f[n - 1] \in Int
      BY <1>1
    <3>2. step[n][f[n - 1]] = f[n - 1] * 10 + s[n] - 48
      BY <3>1
    <3> QED
      BY <2>2, <3>2
  <2>4. f = [n \in 0 .. Len(s) |-> IF n = 0 THEN 0 ELSE f[n - 1] * 10 + s[n] - 48]
    <3>1. \A n \in 0 .. Len(s) : f[n] = IF n = 0 THEN 0 ELSE f[n - 1] * 10 + s[n] - 48
      BY <1>1, <2>2, <2>3
    <3> QED
      BY <3>1
  <2> QED
    BY <2>4
<1>3. PICK size : Good(size) /\ Size(s) = size[Digits(s)]
  <2> DEFINE size == CHOOSE f : Good(f)
  <2>1. Good(size)
    <3> HIDE DEF Good
    <3> QED
      BY <1>2
  <2>2. Size(s) = size[Digits(s)]
    BY DEF Size
  <2> HIDE DEF size
  <2> QED
    BY <2>1, <2>2
<1>5. size[0] = 0 /\ \A n \in 1 .. Len(s) : size[n] = size[n - 1] * 10 + s[n] - 48
  <2>1. \A n \in 0 .. Len(s) : size[n] = IF n = 0 THEN 0 ELSE size[n - 1] * 10 + s[n] - 48
    BY <1>3
  <2> QED
    BY <1>1, <2>1
<1>6. size \in [0 .. Len(s) -> Int]
  <2> DEFINE S == {n \in Nat : size[n] \in Int}
  <2>1. ASSUME NEW n \in 0 .. Len(s), \A k \in 0 .. n - 1 : k \in S PROVE n \in S
    <3>1. CASE n = 0
      BY <1>5, <3>1
    <3>2. CASE n # 0
      <4>1. size[n - 1] \in Int /\ s[n] \in Int /\ n \in 1 .. Len(s)
        BY <1>1, <2>1, <3>2
      <4> QED
        BY <1>5, <4>1
    <3> QED
      BY <3>1, <3>2
  <2>2. \A n \in 0 .. Len(s) : n \in S
    <3> HIDE DEF S
    <3> QED
      BY <1>1, <2>1, UpTo
  <2> QED
    BY <1>3, <2>2
<1> QED
  BY <1>3, <1>5, <1>6
(* The machine's words.                                                    *)
LEMMA MachineWords ==
  ASSUME NEW a \in Int
  PROVE  /\ WORD \in Nat /\ WORD > 10 /\ a % WORD \in 0 .. WORD - 1
         /\ a \in 0 .. WORD - 1 => a % WORD = a
         /\ \E q \in Int : a = q * WORD + (a % WORD)
         /\ \A q \in Int, r \in 0 .. WORD - 1 : a = q * WORD + r => a % WORD = r
<1>1. WORD \in Nat /\ WORD > 10
  BY LibraryAssumption
<1>2. a % WORD \in 0 .. WORD - 1
  BY <1>1
<1>3. a = (a \div WORD) * WORD + (a % WORD) /\ a \div WORD \in Int
  BY <1>1
<1>4. ASSUME a \in 0 .. WORD - 1 PROVE a % WORD = a
  BY <1>1, <1>4
<1>5. ASSUME NEW q \in Int, NEW r \in 0 .. WORD - 1, a = q * WORD + r PROVE a % WORD = r
  BY <1>1, <1>5
<1> QED
  BY <1>1, <1>2, <1>3, <1>4, <1>5

(* Ten times a word and a digit more.                                      *)
LEMMA NextDigit ==
  ASSUME NEW a \in Int, NEW d \in Int
  PROVE  ((a % WORD) * 10 + d) % WORD = (a * 10 + d) % WORD
<1>1. PICK r \in 0 .. WORD - 1 : r = a % WORD
  BY MachineWords
<1>2. PICK q \in Int : a = q * WORD + r
  BY <1>1, MachineWords
<1>3. WORD \in Nat /\ r \in Int
  BY MachineWords
<1>4. r * 10 + d \in Int
  BY <1>3
<1>5. PICK t \in 0 .. WORD - 1, p \in Int : r * 10 + d = p * WORD + t
  BY <1>4, MachineWords
<1>6. (r * 10 + d) % WORD = t
  BY <1>4, <1>5, MachineWords
<1>7. a * 10 + d = (q * 10 + p) * WORD + t
  <2>1. a * 10 + d = (q * WORD) * 10 + (r * 10 + d)
    BY <1>2, <1>3
  <2>2. t \in Int /\ (q * WORD) * 10 = (q * 10) * WORD
    BY <1>3
  <2> QED
    BY <1>3, <1>5, <2>1, <2>2
<1>8. (a * 10 + d) % WORD = t
  <2>1. q * 10 + p \in Int /\ a * 10 + d \in Int
    OBVIOUS
  <2> QED
    BY <1>7, <2>1, MachineWords
<1> QED
  BY <1>1, <1>6, <1>8

(* A word, negated.                                                        *)
LEMMA Negated ==
  ASSUME NEW a \in Int
  PROVE  Neg(a % WORD) = (-a) % WORD
<1>1. PICK r \in 0 .. WORD - 1 : r = a % WORD
  BY MachineWords
<1>2. PICK q \in Int : a = q * WORD + r
  BY <1>1, MachineWords
<1>3. WORD \in Nat /\ r \in Int /\ -r \in Int
  BY MachineWords
<1>5. PICK t \in 0 .. WORD - 1, p \in Int : -r = p * WORD + t
  BY <1>3, MachineWords
<1>6. (-r) % WORD = t
  BY <1>3, <1>5, MachineWords
<1>7. -a = (p - q) * WORD + t
  <2>1. -a = p * WORD - q * WORD + t /\ t \in Int
    BY <1>2, <1>3, <1>5
  <2>2. (p - q) * WORD = p * WORD - q * WORD
    BY <1>3
  <2> QED
    BY <1>3, <2>1, <2>2
<1>8. (-a) % WORD = t
  <2>1. p - q \in Int /\ -a \in Int
    OBVIOUS
  <2> QED
    BY <1>7, <2>1, MachineWords
<1> QED
  BY <1>1, <1>6, <1>8 DEF Neg

(* parse_uint returns the digits' number, as a machine word.               *)
LEMMA ParseUint ==
  ASSUME NEW s \in Seq(Int)
  PROVE  /\ Size(s) \in Int
         /\ parse_uint(s).rax = Size(s) % WORD
         /\ parse_uint(s).r9 = IF Digits(s) = 0 THEN 0 ELSE s[Digits(s)] - 48
<1>1. Len(s) \in Nat /\ (\A n \in 1 .. Len(s) : s[n] \in Int) /\ Digits(s) \in 0 .. Len(s)
  BY LenProperties, ElementOfSeq, DigitsCounted
<1>2. PICK size \in [0 .. Len(s) -> Int] :
        /\ size[0] = 0
        /\ \A n \in 1 .. Len(s) : size[n] = size[n - 1] * 10 + s[n] - 48
        /\ Size(s) = size[Digits(s)]
  BY SizeCounted
<1> DEFINE Good(f) == f = [n \in 0 .. Len(s) |->
                             IF n = 0 THEN 0 ELSE (f[n - 1] * 10 + s[n] - 48) % WORD]
<1>3. \A n \in 1 .. Len(s) : ((size[n - 1] % WORD) * 10 + s[n] - 48) % WORD = size[n] % WORD
  <2> SUFFICES ASSUME NEW n \in 1 .. Len(s)
               PROVE  ((size[n - 1] % WORD) * 10 + s[n] - 48) % WORD = size[n] % WORD
    OBVIOUS
  <2>1. size[n - 1] \in Int /\ s[n] \in Int /\ size[n - 1] % WORD \in Int
    <3>1. size[n - 1] \in Int /\ s[n] \in Int
      BY <1>1
    <3>2. size[n - 1] % WORD \in 0 .. WORD - 1
      BY <3>1, MachineWords
    <3> QED
      BY <3>1, <3>2
  <2>2. PICK d \in Int : d = s[n] - 48
    BY <2>1
  <2>3. ((size[n - 1] % WORD) * 10 + d) % WORD = (size[n - 1] * 10 + d) % WORD
    BY <2>1, NextDigit
  <2>4. /\ (size[n - 1] % WORD) * 10 + d = (size[n - 1] % WORD) * 10 + s[n] - 48
        /\ size[n - 1] * 10 + d = size[n]
    <3>1. size[n] = size[n - 1] * 10 + s[n] - 48
      BY <1>2
    <3> QED
      BY <2>1, <2>2, <3>1
  <2> QED
    BY <2>3, <2>4
<1>4. 0 % WORD = 0
  <2>1. 0 \in Int /\ 0 \in 0 .. WORD - 1
    BY LibraryAssumption
  <2> QED
    BY <2>1, MachineWords
<1>5. \E f : Good(f)
  <2> DEFINE f == [n \in 0 .. Len(s) |-> size[n] % WORD]
  <2>1. ASSUME NEW n \in 0 .. Len(s)
        PROVE  f[n] = IF n = 0 THEN 0 ELSE (f[n - 1] * 10 + s[n] - 48) % WORD
    <3>1. CASE n = 0
      BY <1>2, <1>4, <3>1
    <3>2. CASE n # 0
      <4>1. n \in 1 .. Len(s) /\ n - 1 \in 0 .. Len(s)
        BY <1>1, <3>2
      <4>2. f[n - 1] = size[n - 1] % WORD /\ f[n] = size[n] % WORD
        BY <4>1
      <4> HIDE DEF f
      <4> QED
        BY <1>3, <3>2, <4>1, <4>2
    <3> QED
      BY <3>1, <3>2
  <2>2. f = [n \in 0 .. Len(s) |-> f[n]]
    OBVIOUS
  <2> HIDE DEF f
  <2>3. Good(f)
    BY <2>1, <2>2
  <2> HIDE DEF Good
  <2> QED
    BY <2>3
<1>6. PICK rax : /\ Good(rax)
                 /\ parse_uint(s) = [rax |-> rax[Digits(s)], rdx |-> Digits(s),
                                     r9 |-> IF Digits(s) = 0 THEN 0 ELSE s[Digits(s)] - 48]
  <2> DEFINE rax == CHOOSE f : Good(f)
  <2>1. Good(rax)
    <3> HIDE DEF Good
    <3> QED
      BY <1>5
  <2>2. parse_uint(s) = [rax |-> rax[Digits(s)], rdx |-> Digits(s),
                         r9 |-> IF Digits(s) = 0 THEN 0 ELSE s[Digits(s)] - 48]
    BY DEF parse_uint
  <2> HIDE DEF rax
  <2> QED
    BY <2>1, <2>2
<1>7. \A n \in 0 .. Len(s) : rax[n] = size[n] % WORD
  <2> DEFINE S == {n \in 0 .. Len(s) : rax[n] = size[n] % WORD}
  <2>1. ASSUME NEW n \in 0 .. Len(s), \A k \in 0 .. n - 1 : k \in S PROVE n \in S
    <3>1. rax[n] = IF n = 0 THEN 0 ELSE (rax[n - 1] * 10 + s[n] - 48) % WORD
      BY <1>6
    <3>2. CASE n = 0
      BY <1>2, <1>4, <3>1, <3>2
    <3>3. CASE n # 0
      <4>1. n \in 1 .. Len(s) /\ n - 1 \in 0 .. n - 1
        BY <1>1, <3>3
      <4>2. rax[n - 1] = size[n - 1] % WORD
        BY <2>1, <4>1
      <4> QED
        BY <1>3, <3>1, <3>3, <4>1, <4>2
    <3> QED
      BY <3>2, <3>3
  <2>2. \A n \in 0 .. Len(s) : n \in S
    <3> HIDE DEF S
    <3> QED
      BY <1>1, <2>1, UpTo
  <2> QED
    BY <2>2
<1>8. Size(s) \in Int /\ rax[Digits(s)] = Size(s) % WORD
  BY <1>1, <1>2, <1>7
<1> QED
  BY <1>6, <1>8
(* All of a string of digits is a number.                                  *)
LEMMA AllDigits ==
  ASSUME NEW s \in Seq(Digit)
  PROVE  s \in Seq(Int) /\ Digits(s) = Len(s)
<1>1. Digit \subseteq Int
  BY DEF Digit
<1>2. s \in Seq(Int)
  <2>1. PICK n \in Nat : s \in [1 .. n -> Digit]
    BY SeqDef
  <2>2. s \in [1 .. n -> Int]
    BY <1>1, <2>1
  <2> QED
    BY <2>2, SeqDef
<1>3. \A i \in 1 .. Len(s) : s[i] \in Digit
  BY ElementOfSeq
<1>4. Digits(s) \in 0 .. Len(s) /\ Len(s) \in Nat
      /\ (Digits(s) < Len(s) => s[Digits(s) + 1] \notin Digit)
  BY <1>2, DigitsCounted
<1>5. Digits(s) < Len(s) => Digits(s) + 1 \in 1 .. Len(s)
  BY <1>4
<1>6. ~(Digits(s) < Len(s))
  BY <1>3, <1>4, <1>5
<1> QED
  BY <1>2, <1>4, <1>6

(* One digit more.                                                         *)
LEMMA OneDigitMore ==
  ASSUME NEW s \in Seq(Digit), NEW c \in Digit
  PROVE  Append(s, c) \in Seq(Digit) /\ Size(Append(s, c)) = Size(s) * 10 + c - 48
<1> DEFINE t == Append(s, c)
<1>1. /\ t \in Seq(Digit) /\ Len(t) = Len(s) + 1 /\ t[Len(s) + 1] = c
      /\ \A i \in 1 .. Len(s) : t[i] = s[i]
  BY AppendProperties
<1> HIDE DEF t
<1>2. /\ s \in Seq(Int) /\ t \in Seq(Int) /\ Len(s) \in Nat
      /\ Digits(s) = Len(s) /\ Digits(t) = Len(s) + 1
  BY <1>1, AllDigits, LenProperties
<1>3. PICK z \in [0 .. Len(s) -> Int] :
        /\ z[0] = 0 /\ \A n \in 1 .. Len(s) : z[n] = z[n - 1] * 10 + s[n] - 48
        /\ Size(s) = z[Len(s)]
  BY <1>2, SizeCounted
<1>4. PICK y \in [0 .. Len(t) -> Int] :
        /\ y[0] = 0 /\ \A n \in 1 .. Len(t) : y[n] = y[n - 1] * 10 + t[n] - 48
        /\ Size(t) = y[Len(s) + 1]
  BY <1>2, SizeCounted
<1>5. \A n \in 0 .. Len(s) : y[n] = z[n]
  <2> DEFINE S == {n \in 0 .. Len(s) : y[n] = z[n]}
  <2>1. ASSUME NEW n \in 0 .. Len(s), \A k \in 0 .. n - 1 : k \in S PROVE n \in S
    <3>1. CASE n = 0
      BY <1>3, <1>4, <3>1
    <3>2. CASE n # 0
      <4>1. n \in 1 .. Len(s) /\ n - 1 \in 0 .. n - 1 /\ n \in 1 .. Len(t)
        BY <1>1, <1>2, <3>2
      <4>2. y[n - 1] = z[n - 1] /\ t[n] = s[n]
        BY <1>1, <2>1, <4>1
      <4>3. z[n] = z[n - 1] * 10 + s[n] - 48 /\ y[n] = y[n - 1] * 10 + t[n] - 48
        BY <1>3, <1>4, <4>1
      <4> QED
        BY <4>2, <4>3
    <3> QED
      BY <3>1, <3>2
  <2>2. \A n \in 0 .. Len(s) : n \in S
    <3> HIDE DEF S
    <3> QED
      BY <1>2, <2>1, UpTo
  <2> QED
    BY <2>2
<1>6. Size(t) = z[Len(s)] * 10 + c - 48
  <2>1. y[Len(s) + 1] = y[(Len(s) + 1) - 1] * 10 + t[Len(s) + 1] - 48
    <3>1. Len(s) + 1 \in 1 .. Len(t)
      BY <1>1, <1>2
    <3> QED
      BY <1>4, <3>1
  <2>2. (Len(s) + 1) - 1 = Len(s) /\ Len(s) \in 0 .. Len(s)
    BY <1>2
  <2> QED
    BY <1>1, <1>4, <1>5, <2>1, <2>2
<1> QED
  BY <1>1, <1>3, <1>6 DEF t

(* print_uint writes the digits of its number, the highest first.          *)
LEMMA PrintUint ==
  ASSUME NEW n \in 0 .. WORD - 1
  PROVE  /\ print_uint(n) \in Seq(Digit) /\ print_uint(n) # <<>>
         /\ Size(print_uint(n)) = n
<1>1. WORD \in Nat
  BY LibraryAssumption
<1> DEFINE Next10(f, k) == IF k < 10 THEN <<48 + k>> ELSE Append(f[k \div 10], 48 + (k % 10))
           Good(m, f) == \A k \in 0 .. m : f[k] = Next10(f, k)
           S == {m \in Nat : \E f \in [0 .. m -> Seq(Digit)] : Good(m, f)}
<1>2. ASSUME NEW k \in Nat
      PROVE  /\ k \div 10 \in Nat /\ k % 10 \in 0 .. 9 /\ k = (k \div 10) * 10 + (k % 10)
             /\ k >= 10 => k \div 10 \in 0 .. k - 1 /\ k \div 10 # 0
             /\ k < 10 => 48 + k \in Digit
             /\ 48 + (k % 10) \in Digit
  BY DEF Digit
<1>3. ASSUME NEW m \in 0 .. WORD, \A k \in 0 .. m - 1 : k \in S PROVE m \in S
  <2>1. CASE m = 0
    <3>1. <<48>> \in Seq(Digit)
      BY DEF Digit
    <3> DEFINE f == [k \in 0 .. 0 |-> <<48>>]
    <3>2. f \in [0 .. 0 -> Seq(Digit)] /\ f[0] = <<48>>
      BY <3>1
    <3> HIDE DEF f
    <3>3. Good(0, f)
      BY <3>2
    <3> HIDE DEF Good
    <3> QED
      BY <2>1, <3>2, <3>3
  <2>2. CASE m # 0
    <3>1. m \in Nat /\ m - 1 \in Nat /\ m - 1 \in S
      <4>1. m \in Nat /\ m - 1 \in Nat /\ m - 1 \in 0 .. m - 1
        BY <2>2
      <4> HIDE DEF S
      <4> QED
        BY <1>3, <4>1
    <3>2. PICK f \in [0 .. m - 1 -> Seq(Digit)] : Good(m - 1, f)
      BY <3>1
    <3>3. PICK s \in Seq(Digit) : s = Next10(f, m)
      <4>1. CASE m < 10
        <5>1. 48 + m \in Digit
          BY <1>2, <3>1, <4>1
        <5> HIDE DEF Digit
        <5>2. <<48 + m>> \in Seq(Digit)
          BY <5>1
        <5>3. Next10(f, m) = <<48 + m>>
          BY <4>1
        <5> QED
          BY <5>2, <5>3
      <4>2. CASE ~(m < 10)
        <5>1. m \div 10 \in 0 .. m - 1 /\ 48 + (m % 10) \in Digit
          BY <1>2, <3>1, <4>2
        <5>2. Append(f[m \div 10], 48 + (m % 10)) \in Seq(Digit)
          BY <5>1, AppendProperties
        <5> QED
          BY <4>2, <5>2
      <4> QED
        BY <4>1, <4>2
    <3> DEFINE g == [k \in 0 .. m |-> IF k = m THEN s ELSE f[k]]
    <3>4. g \in [0 .. m -> Seq(Digit)]
      <4>1. \A k \in 0 .. m : k # m => f[k] \in Seq(Digit)
        BY <3>1
      <4> QED
        BY <3>3, <4>1
    <3>5. g[m] = s /\ \A k \in 0 .. m - 1 : g[k] = f[k]
      BY <3>1
    <3> HIDE DEF g
    <3>6. ASSUME NEW k \in 0 .. m PROVE g[k] = Next10(g, k)
      <4>1. k \in Nat /\ (k >= 10 => k \div 10 \in 0 .. k - 1)
        BY <1>2
      <4>2. k >= 10 => k \div 10 \in 0 .. m - 1
        BY <3>1, <4>1
      <4>3. Next10(g, k) = Next10(f, k)
        BY <3>5, <4>1, <4>2
      <4>4. CASE k = m
        BY <3>3, <3>5, <4>3, <4>4
      <4>5. CASE k # m
        <5>1. k \in 0 .. m - 1
          BY <3>1, <4>5
        <5>2. f[k] = Next10(f, k)
          BY <3>2, <5>1
        <5> HIDE DEF Next10
        <5> QED
          BY <3>5, <4>3, <5>1, <5>2
      <4> QED
        BY <4>4, <4>5
    <3> HIDE DEF Next10
    <3>7. Good(m, g)
      BY <3>6
    <3> HIDE DEF Good
    <3> QED
      BY <3>1, <3>4, <3>7
  <2> QED
    BY <2>1, <2>2
<1>4. \E f : f = [k \in 0 .. WORD |-> Next10(f, k)]
  <2>1. WORD \in S
    <3> HIDE DEF S
    <3>1. \A m \in 0 .. WORD : m \in S
      BY <1>1, <1>3, UpTo
    <3> QED
      BY <1>1, <3>1
  <2>2. PICK f \in [0 .. WORD -> Seq(Digit)] : Good(WORD, f)
    BY <2>1
  <2>3. f = [k \in 0 .. WORD |-> Next10(f, k)]
    <3> HIDE DEF Next10
    <3>1. \A k \in 0 .. WORD : f[k] = Next10(f, k)
      BY <2>2
    <3> QED
      BY <3>1
  <2> HIDE DEF Next10
  <2> QED
    BY <2>3
<1>5. PICK digits : /\ \A k \in 0 .. WORD : digits[k] = Next10(digits, k)
                    /\ print_uint(n) = digits[n]
  <2> DEFINE Right(f) == f = [k \in 0 .. WORD |-> Next10(f, k)]
             digits == CHOOSE f : Right(f)
  <2>1. Right(digits)
    <3> HIDE DEF Right
    <3>1. \E f : Right(f)
      BY <1>4 DEF Right
    <3> QED
      BY <3>1
  <2>2. print_uint(n) = digits[n]
    BY DEF print_uint
  <2> HIDE DEF digits, Next10
  <2>3. \A k \in 0 .. WORD : digits[k] = Next10(digits, k)
    BY <2>1
  <2> QED
    BY <2>2, <2>3
<1>6. Size(<<>>) = 0 /\ <<>> \in Seq(Digit)
  <2>1. <<>> \in Seq(Digit) /\ Len(<<>>) = 0
    OBVIOUS
  <2>2. <<>> \in Seq(Int) /\ Digits(<<>>) = 0
    BY <2>1, AllDigits
  <2> QED
    BY <2>1, <2>2, SizeCounted
<1> DEFINE T == {k \in 0 .. WORD : /\ digits[k] \in Seq(Digit) /\ digits[k] # <<>>
                                   /\ Size(digits[k]) = k}
<1>7. ASSUME NEW k \in 0 .. WORD, \A l \in 0 .. k - 1 : l \in T PROVE k \in T
  <2>1. digits[k] = Next10(digits, k) /\ k \in Nat
    BY <1>1, <1>5
  <2>2. CASE k < 10
    <3>1. digits[k] = <<48 + k>> /\ 48 + k \in Digit
      BY <1>2, <2>1, <2>2
    <3>2. /\ Append(<<>>, 48 + k) \in Seq(Digit)
          /\ Size(Append(<<>>, 48 + k)) = Size(<<>>) * 10 + (48 + k) - 48
      BY <1>6, <3>1, OneDigitMore
    <3>3. digits[k] = Append(<<>>, 48 + k)
      BY <3>1
    <3>4. digits[k] # <<>>
      BY <3>1
    <3>5. 0 * 10 + (48 + k) - 48 = k
      BY <2>1
    <3> QED
      BY <1>6, <3>2, <3>3, <3>4, <3>5
  <2>3. CASE ~(k < 10)
    <3>1. /\ k \div 10 \in 0 .. k - 1 /\ 48 + (k % 10) \in Digit /\ k % 10 \in 0 .. 9
          /\ k = (k \div 10) * 10 + (k % 10)
      BY <1>2, <2>1, <2>3
    <3>2. digits[k] = Append(digits[k \div 10], 48 + (k % 10))
      BY <2>1, <2>3
    <3>3. digits[k \div 10] \in Seq(Digit) /\ Size(digits[k \div 10]) = k \div 10
      BY <1>7, <3>1
    <3>4. /\ digits[k] \in Seq(Digit)
          /\ Size(digits[k]) = (k \div 10) * 10 + (48 + (k % 10)) - 48
      BY <3>1, <3>2, <3>3, OneDigitMore
    <3>5. digits[k] # <<>>
      <4>1. Len(Append(digits[k \div 10], 48 + (k % 10))) = Len(digits[k \div 10]) + 1
            /\ Len(digits[k \div 10]) \in Nat
        BY <3>1, <3>3, AppendProperties, LenProperties
      <4>2. Len(digits[k]) > 0
        BY <3>2, <4>1
      <4> QED
        BY <4>2
    <3>6. Size(digits[k]) = k
      BY <3>1, <3>4
    <3> QED
      BY <3>4, <3>5, <3>6
  <2> QED
    BY <2>2, <2>3
<1>8. n \in T
  <2>1. n \in 0 .. WORD
    BY <1>1
  <2> HIDE DEF T
  <2>2. \A k \in 0 .. WORD : k \in T
    BY <1>1, <1>7, UpTo
  <2> QED
    BY <2>1, <2>2
<1> QED
  BY <1>5, <1>8
(* A digit is no sign.                                                     *)
LEMMA NoSign ==
  ASSUME NEW s \in Seq(Digit), s # <<>>
  PROVE  s[1] # PLUS /\ s[1] # MINUS
<1>1. 1 \in 1 .. Len(s)
  BY LenProperties, EmptySeq
<1>2. s[1] \in Digit
  BY <1>1, ElementOfSeq
<1> QED
  BY <1>2 DEF Digit, PLUS, MINUS

(* print_int writes its number.                                            *)
LEMMA PrintInt ==
  ASSUME NEW n \in 0 .. WORD - 1
  PROVE  Value(print_int(n)) = n
<1>1. n \in Int /\ n % WORD = n
  <2>1. n \in Int
    BY LibraryAssumption
  <2> QED
    BY <2>1, MachineWords
<1>2. CASE n < WORD \div 2
  <2>1. PICK s \in Seq(Digit) : s = print_uint(n) /\ s # <<>> /\ Size(s) = n
    BY PrintUint
  <2>2. print_int(n) = s
    BY <1>2, <2>1 DEF print_int
  <2>3. Value(s) = Size(s) % WORD
    BY <2>1, NoSign DEF Value
  <2> QED
    BY <1>1, <2>1, <2>2, <2>3
<1>3. CASE ~(n < WORD \div 2)
  <2>1. PICK m \in 0 .. WORD - 1 : m = (-n) % WORD
    <3>1. -n \in Int
      BY <1>1
    <3> QED
      BY <3>1, MachineWords
  <2>2. PICK t \in Seq(Digit) : t = print_uint(m) /\ t # <<>> /\ Size(t) = m
    BY PrintUint
  <2>3. print_int(n) = <<MINUS>> \o t
    BY <1>3, <2>1, <2>2 DEF print_int, Neg
  <2>4. (<<MINUS>> \o t)[1] = MINUS /\ Tail(<<MINUS>> \o t) = t
    <3>1. MINUS \in Int /\ t \in Seq(Int)
      BY AllDigits DEF MINUS
    <3> QED
      BY <3>1
  <2>5. Value(<<MINUS>> \o t) = (-m) % WORD
    BY <2>2, <2>4 DEF Value
  <2>6. (-m) % WORD = n
    <3>1. Neg((-n) % WORD) = (-(-n)) % WORD
      <4>1. -n \in Int
        BY <1>1
      <4> QED
        BY <4>1, Negated
    <3>2. -(-n) = n
      BY <1>1
    <3> QED
      BY <1>1, <2>1, <3>1, <3>2 DEF Neg
  <2> QED
    BY <2>3, <2>5, <2>6
<1> QED
  BY <1>2, <1>3

(* parse_int reads the number that is written, unless a plus finds a 1 in  *)
(* the register of the sign, which it leaves as it is.                     *)
LEMMA ParseInt ==
  ASSUME NEW s \in Seq(Int), s # <<>>, NEW reg9
  PROVE  /\ parse_int(s, reg9).rax \in 0 .. WORD - 1
         /\ \/ parse_int(s, reg9).rax = Value(s)
            \/ s[1] = PLUS /\ reg9 = 1 /\ parse_int(s, reg9).r9 = 1
<1>1. MINUS # PLUS
  BY DEF MINUS, PLUS
<1>2. CASE s[1] \in {PLUS, MINUS}
  <2>1. Tail(s) \in Seq(Int)
    BY HeadTailProperties
  <2>2. PICK z \in Int, r \in 0 .. WORD - 1 :
          z = Size(Tail(s)) /\ r = z % WORD /\ r = parse_uint(Tail(s)).rax
    BY <2>1, ParseUint, MachineWords
  <2>3. Neg(r) = (-z) % WORD /\ Neg(r) \in 0 .. WORD - 1
    <3>1. -z \in Int
      OBVIOUS
    <3> QED
      BY <2>2, <3>1, Negated, MachineWords
  <2>4. Value(s) = IF s[1] = MINUS THEN Neg(r) ELSE r
    BY <1>1, <1>2, <2>2, <2>3 DEF Value
  <2>5. /\ parse_int(s, reg9).rax
             = IF (IF s[1] = MINUS THEN 1 ELSE reg9) = 1 THEN Neg(r) ELSE r
        /\ parse_int(s, reg9).r9 = IF s[1] = MINUS THEN 1 ELSE reg9
    BY <1>2, <2>2 DEF parse_int
  <2> QED
    BY <1>1, <1>2, <2>3, <2>4, <2>5
<1>3. CASE ~(s[1] \in {PLUS, MINUS})
  <2>1. parse_int(s, reg9) = parse_uint(s)
    BY <1>3 DEF parse_int
  <2>2. Value(s) = Size(s) % WORD
    BY <1>3 DEF Value
  <2>3. Size(s) % WORD \in 0 .. WORD - 1
    BY ParseUint, MachineWords
  <2> QED
    BY <2>1, <2>2, <2>3, ParseUint
<1> QED
  BY <1>2, <1>3
-----------------------------------------------------------------------------
(* The invariant.                                                          *)

(* Where the program is, and what it may find there.                       *)
TypeOK ==
  /\ text \in Texts /\ at \in 0 .. Len(text)
  /\ lib_pc \in {"skip", "word", "parse", "parsed", "printed",
                 "line", "clear", "overflow", "find", "ended"}
  /\ buffer \in [Memory -> Int]
  /\ length \in 0 .. BUFFER_SIZE
  /\ lib_pc = "line" => length < BUFFER_SIZE

(* What is written behind the buffer, by stores of eight bytes: seven      *)
(* bytes at most.                                                          *)
SpillBounded ==
  \A k \in Memory : k >= BUFFER_SIZE + QWORD - 1 => buffer[k] = FOREIGN

(* While the line is read, all of it that was read is in the buffer.       *)
LineIsRead ==
  lib_pc = "line" => /\ at = length /\ Holds(1, length)
                     /\ \A i \in 1 .. length : text[i] # NL

(* Only a line that is no key is refused.                                  *)
Refused == Len(Line) \notin 1 .. BUFFER_SIZE - 1

LineIsRefused == lib_pc \in {"clear", "overflow"} => Refused

(* While the list is searched, the line is in the buffer, and the entries  *)
(* that were passed have other keys.                                       *)
ListIsSearched ==
  lib_pc = "find" => /\ String = Line /\ ~Refused
                     /\ entry \in 0 .. Len(Entries)
                     /\ \A e \in entry + 1 .. Len(Entries) : Entries[e][1] # Line

(* Whole words have been read, and counted.                                *)
WordsRead ==
  /\ words = Cardinality({j \in Starts : j <= at})
  /\ at = 0 \/ at = Len(text) \/ text[at] \in Blank

(* A word is read: all of it that was read is in the buffer.               *)
InWord ==
  LET i == (at - length) + 1
  IN  /\ i \in Starts /\ Holds(i, length)
      /\ \A k \in i .. at : text[k] \notin Blank
      /\ words = Cardinality({j \in Starts : j < i})

(* The library's client reads one word after the other.                    *)
WordIsRead ==
  /\ lib_pc \in {"skip", "parse", "parsed", "printed"} => WordsRead
  /\ lib_pc = "skip" => length = 0
  /\ lib_pc = "word" /\ length = 0 => WordsRead /\ read_char \notin Blank
  /\ lib_pc = "word" /\ length > 0 => InWord

Inv ==
  /\ TypeOK /\ SpillBounded
  /\ WordIsRead /\ WordReadWhole
  /\ LineIsRead /\ LineIsRefused /\ ListIsSearched
  /\ lib_pc # "ended" => answer = <<>>
  /\ AnsweredRight

-----------------------------------------------------------------------------
(* What the stores do.                                                     *)

LEMMA Sizes ==
  /\ BUFFER_SIZE \in Nat /\ BUFFER_SIZE > 0
  /\ \A k : k \in Memory <=> k \in Nat /\ k <= 2 * (BUFFER_SIZE + 8)
BY LibraryAssumption DEF Memory, QWORD

(* A store of eight bytes that begins inside the buffer.                   *)
LEMMA Stored ==
  ASSUME buffer \in [Memory -> Int], SpillBounded,
         NEW i \in 0 .. BUFFER_SIZE - 1, NEW c \in Int, Store(i, c)
  PROVE  /\ buffer' \in [Memory -> Int] /\ SpillBounded'
         /\ buffer'[i] = c /\ buffer'[i + 1] = NUL
         /\ \A k \in 0 .. i - 1 : buffer'[k] = buffer[k]
<1>1. BUFFER_SIZE \in Nat /\ i \in Nat /\ i < BUFFER_SIZE
  BY Sizes
<1>2. buffer' = [k \in Memory |-> IF k = i THEN c
                                  ELSE IF k \in i + 1 .. i + 7 THEN 0 ELSE buffer[k]]
  BY <1>1 DEF Store, QWORD, NUL
<1>3. buffer' \in [Memory -> Int]
  BY <1>2
<1>4. ASSUME NEW k \in Memory, k >= BUFFER_SIZE + QWORD - 1 PROVE buffer'[k] = FOREIGN
  <2>1. k \in Nat /\ k # i /\ k \notin i + 1 .. i + 7
    BY <1>1, <1>4, Sizes DEF QWORD
  <2>2. buffer[k] = FOREIGN
    BY <1>4 DEF SpillBounded
  <2> QED
    BY <1>2, <2>1, <2>2
<1>5. i \in Memory /\ i + 1 \in Memory /\ i + 1 \in i + 1 .. i + 7 /\ i + 1 # i
  BY <1>1, Sizes
<1>6. ASSUME NEW k \in 0 .. i - 1 PROVE buffer'[k] = buffer[k]
  <2>1. k \in Memory /\ k # i /\ k \notin i + 1 .. i + 7
    BY <1>1, Sizes
  <2> QED
    BY <1>2, <2>1
<1>7. buffer'[i] = c /\ buffer'[i + 1] = NUL
  BY <1>2, <1>5 DEF NUL
<1> QED
  BY <1>3, <1>4, <1>6, <1>7 DEF SpillBounded, Memory

(* The terminator goes one byte behind the end of the string.              *)
LEMMA Terminated ==
  ASSUME buffer \in [Memory -> Int], SpillBounded, length \in 0 .. BUFFER_SIZE,
         buffer' = [buffer EXCEPT ![length + 1] = NUL]
  PROVE  /\ buffer' \in [Memory -> Int] /\ SpillBounded'
         /\ \A k \in 0 .. length : buffer'[k] = buffer[k]
<1>1. BUFFER_SIZE \in Nat /\ length \in Nat /\ length <= BUFFER_SIZE
  BY Sizes
<1>2. ASSUME NEW k \in Memory, k >= BUFFER_SIZE + QWORD - 1 PROVE buffer'[k] = FOREIGN
  <2>1. k \in Nat /\ k # length + 1
    BY <1>1, <1>2, Sizes DEF QWORD
  <2>2. buffer[k] = FOREIGN
    BY <1>2 DEF SpillBounded
  <2> QED
    BY <2>1, <2>2
<1>3. buffer' = [k \in Memory |-> IF k = length + 1 THEN 0 ELSE buffer[k]]
  BY DEF NUL
<1>4. ASSUME NEW k \in 0 .. length PROVE buffer'[k] = buffer[k]
  <2>1. k \in Memory /\ k # length + 1
    BY <1>1, Sizes
  <2> QED
    BY <2>1
<1> QED
  <2>1. \A k \in Memory : (IF k = length + 1 THEN 0 ELSE buffer[k]) \in Int
    OBVIOUS
  <2>2. buffer' \in [Memory -> Int]
    BY <1>3, <2>1
  <2> QED
    BY <1>2, <1>4, <2>2 DEF SpillBounded, Memory

(* What is read, and how far.                                              *)
LEMMA ReadOn ==
  ASSUME text \in Texts, at \in 0 .. Len(text), Advance
  PROVE  /\ Len(text) \in Nat /\ at \in Nat /\ at <= Len(text)
         /\ at' \in 0 .. Len(text)
         /\ read_char \in 0 .. 127
         /\ read_char = NUL => at = Len(text)
         /\ read_char # NUL => at < Len(text) /\ at' = at + 1 /\ read_char = text[at + 1]
<1>1. text \in Seq(1 .. 127) /\ Len(text) \in Nat
  BY LibraryAssumption, LenProperties
<1>2. CASE at < Len(text)
  <2>1. text[at + 1] \in 1 .. 127
    <3>1. at + 1 \in 1 .. Len(text)
      BY <1>1, <1>2
    <3> QED
      BY <1>1, <3>1, ElementOfSeq
  <2>2. read_char = text[at + 1] /\ at' = at + 1
    BY <1>2 DEF read_char, Advance
  <2> QED
    <3>1. read_char \in 1 .. 127
      BY <2>1, <2>2
    <3>2. at \in Nat /\ at' \in 0 .. Len(text)
      BY <1>1, <1>2, <2>2
    <3>3. read_char \in 0 .. 127 /\ read_char # NUL
      BY <3>1 DEF NUL
    <3> QED
      BY <1>1, <1>2, <2>2, <3>2, <3>3
<1>3. CASE ~(at < Len(text))
  BY <1>1, <1>3 DEF read_char, Advance, NUL
<1> QED
  BY <1>2, <1>3

(* The string in the buffer after a step.                                  *)
LEMMA StringIsTextThen ==
  (\A i, n : text \in Texts /\ Holds(i, n) =>
               String = [k \in 1 .. n |-> text[(i + k) - 1]])'
<1>1. \A i, n : text \in Texts /\ Holds(i, n) =>
                  String = [k \in 1 .. n |-> text[(i + k) - 1]]
  BY StringIsText
<1> QED
  BY <1>1, PTL

-----------------------------------------------------------------------------
(* The invariant holds at the beginning, and every step keeps it.          *)

LEMMA InvAtFirst ==
  ASSUME ProgramInit
  PROVE  Inv
<1>1. /\ text \in Texts /\ at = 0 /\ length = 0 /\ answer = <<>> /\ lib_pc \in {"line", "skip"}
      /\ buffer = [k \in Memory |-> IF k < BUFFER_SIZE THEN NUL ELSE FOREIGN]
  BY DEF ProgramInit, Start, LibraryInit, Fresh
<1>2. Len(text) \in Nat
  BY <1>1, LibraryAssumption, LenProperties
<1>3. TypeOK
  <2>1. \A k \in Memory : (IF k < BUFFER_SIZE THEN NUL ELSE FOREIGN) \in Int
    BY DEF NUL, FOREIGN
  <2>2. buffer \in [Memory -> Int]
    BY <1>1, <2>1
  <2> QED
    BY <1>1, <1>2, <2>2, Sizes DEF TypeOK
<1>4. SpillBounded
  <2> SUFFICES ASSUME NEW k \in Memory, k >= BUFFER_SIZE + 7 PROVE buffer[k] = FOREIGN
    BY Sizes DEF SpillBounded, QWORD
  <2>1. ~(k < BUFFER_SIZE)
    BY Sizes
  <2> QED
    BY <1>1, <2>1
<1>5. LineIsRead
  <2>1. buffer[0] = NUL
    BY <1>1, Sizes
  <2> QED
    BY <1>1, <1>2, <2>1, Sizes DEF LineIsRead, Holds
<1>6. WordIsRead /\ WordReadWhole
  <2>1. {j \in Starts : j <= at} = {}
    BY <1>1, StartsAreFinite
  <2>2. WordsRead
    BY <1>1, <2>1, FS_EmptySet DEF ProgramInit, Start, LibraryInit, Fresh, WordsRead
  <2> QED
    BY <1>1, <2>2 DEF WordIsRead, WordReadWhole
<1> QED
  BY <1>1, <1>3, <1>4, <1>5, <1>6 DEF Inv, LineIsRefused, ListIsSearched, AnsweredRight

(* The line is that of the text, and the text is what it is.               *)
LEMMA LineStays ==
  ASSUME text' = text
  PROVE  Line' = Line
BY DEF Line, NL

(* The words are those of the text.                                        *)
LEMMA WordsStay ==
  ASSUME text' = text
  PROVE  Starts' = Starts /\ Words' = Words
BY DEF Starts, Words, WordAt, Blank, NL

(* A word ends: it is the next word of the text, and it is read whole.     *)
LEMMA WordEndReadsWord ==
  ASSUME Inv, WordEnd, length > 0
  PROVE  /\ WordIsRead' /\ WordReadWhole'
         /\ String' \in Seq(Int) /\ String' # <<>>
<1>1. /\ lib_pc = "word" /\ lib_pc' = "parse" /\ text \in Texts /\ text' = text /\ length' = length
      /\ words' = words + 1 /\ Advance /\ read_char \in Blank \cup {NUL}
      /\ buffer' = [buffer EXCEPT ![length + 1] = NUL]
      /\ length \in Nat /\ length \in 0 .. BUFFER_SIZE /\ at \in 0 .. Len(text)
  BY Sizes DEF WordEnd, Inv, TypeOK
<1>2. PICK i : i = (at - length) + 1
  OBVIOUS
<1>3. /\ i \in Starts /\ Holds(i, length) /\ \A k \in i .. at : text[k] \notin Blank
      /\ words = Cardinality({j \in Starts : j < i})
  BY <1>1, <1>2 DEF Inv, WordIsRead, InWord
<1>4. /\ Len(text) \in Nat /\ i \in Nat /\ at \in Nat /\ 1 <= i /\ i <= at /\ at <= Len(text)
      /\ (at - i) + 1 = length
  <2>1. Len(text) \in Nat /\ at \in Nat /\ at <= Len(text) /\ i \in 1 .. Len(text)
    BY <1>1, <1>3, StartsAreFinite
  <2> QED
    BY <1>1, <1>2, <2>1
<1>5. /\ at < Len(text) => at' = at + 1 /\ text[at + 1] \in Blank
      /\ ~(at < Len(text)) => at' = at
  <2>1. at < Len(text) => read_char # NUL
    BY <1>1, <1>4, ReadOn
  <2> QED
    BY <1>1, <1>4, <2>1 DEF Advance, read_char
<1>6. WordsRead'
  <2>1. words' = Cardinality({j \in Starts : j <= i})
    BY <1>1, <1>3, OneMore
  <2>2. {j \in Starts : j <= at'} = {j \in Starts : j <= i}
    <3>1. ASSUME NEW j \in Starts, j > i PROVE j > at'
      <4>1. j \in Nat /\ text[j] \notin Blank /\ text[j - 1] \in Blank
        BY <1>4, <3>1, StartsAreFinite DEF Starts
      <4>2. ~(j <= at)
        <5>1. j <= at => j - 1 \in i .. at
          BY <1>4, <3>1, <4>1
        <5> QED
          BY <1>3, <4>1, <5>1
      <4>3. at < Len(text) => j # at + 1
        BY <1>5, <4>1
      <4> QED
        BY <1>4, <1>5, <4>1, <4>2, <4>3
    <3>2. at' \in Nat /\ at' >= i
      BY <1>4, <1>5
    <3>3. Starts \subseteq Nat
      BY <1>1, StartsAreFinite
    <3>4. ASSUME NEW j \in Starts PROVE j <= at' <=> j <= i
      <4>1. j \in Nat
        BY <3>3
      <4>2. j > i => j > at'
        BY <3>1
      <4> QED
        BY <1>4, <3>2, <4>1, <4>2
    <3> QED
      BY <3>4
  <2>3. at' = Len(text) \/ text[at'] \in Blank
    BY <1>4, <1>5
  <2>4. Starts' = Starts
    BY <1>1, WordsStay
  <2> QED
    BY <1>1, <2>1, <2>2, <2>3, <2>4 DEF WordsRead, Blank, NL
<1>7. String' = WordAt(i) /\ String' = [k \in 1 .. length |-> text[(i + k) - 1]]
  <2>1. \A k \in 0 .. length : buffer'[k] = buffer[k]
    BY <1>1, Terminated DEF Inv, TypeOK
  <2>2. Holds(i, length)'
    <3>1. length \in 0 .. length /\ 0 .. length - 1 \subseteq 0 .. length
      BY <1>1
    <3> QED
      BY <1>1, <1>3, <2>1, <3>1 DEF Holds
  <2>3. String' = [k \in 1 .. length |-> text[(i + k) - 1]]
    <3>1. \A h, n : Holds(h, n)' => String' = [k \in 1 .. n |-> text'[(h + k) - 1]]
      BY <1>1, StringIsTextThen
    <3> QED
      BY <1>1, <2>2, <3>1
  <2> QED
    BY <1>1, <1>3, <1>4, <1>5, <2>3, WordUpTo
<1>8. WordReadWhole'
  <2>1. PICK n : n = words'
    OBVIOUS
  <2>2. n = Cardinality({j \in Starts : j <= i})
    BY <1>1, <1>3, <2>1, OneMore
  <2>3. Words[n] = WordAt(i)
    BY <1>1, <1>3, <2>2, WordNumber
  <2>4. Words' = Words
    BY <1>1, WordsStay
  <2>5. Len(WordAt(i)) = length
    BY <1>1, <1>3, <1>4, <1>5, WordUpTo
  <2> QED
    BY <1>1, <1>7, <2>1, <2>3, <2>4, <2>5 DEF WordReadWhole
<1>9. String' \in Seq(Int) /\ String' # <<>>
  <2>1. \A k \in 1 .. length : text[(i + k) - 1] \in Int
    <3> SUFFICES ASSUME NEW k \in 1 .. length PROVE text[(i + k) - 1] \in Int
      OBVIOUS
    <3>1. (i + k) - 1 \in 1 .. Len(text) /\ text \in Seq(1 .. 127)
      BY <1>1, <1>4, LibraryAssumption
    <3>2. text[(i + k) - 1] \in 1 .. 127
      BY <3>1, ElementOfSeq
    <3> QED
      BY <3>2
  <2>2. [k \in 1 .. length |-> text[(i + k) - 1]] \in [1 .. length -> Int]
    BY <2>1
  <2>3. String' \in Seq(Int) /\ Len(String') = length
    <3>1. String' \in [1 .. length -> Int]
      BY <1>7, <2>2
    <3>2. String' \in Seq(Int) /\ DOMAIN String' = 1 .. length
      BY <1>1, <3>1, SeqDef
    <3> QED
      BY <1>1, <3>2, LenProperties
  <2>4. Len(<<>>) = 0
    OBVIOUS
  <2> QED
    BY <2>3, <2>4
<1> QED
  BY <1>1, <1>6, <1>8, <1>9 DEF WordIsRead

(* A character of a word, the first or a later one.                        *)
LEMMA WordCharReadsWord ==
  ASSUME Inv, WordChar, ~(length > BUFFER_SIZE - 1)
  PROVE  WordIsRead' /\ WordReadWhole'
<1>1. /\ lib_pc = "word" /\ lib_pc' = "word" /\ text \in Texts /\ text' = text
      /\ words' = words /\ Advance /\ read_char \notin Blank /\ read_char # NUL
      /\ Store(length, read_char) /\ length' = length + 1
      /\ BUFFER_SIZE \in Nat /\ length \in Nat /\ length < BUFFER_SIZE
      /\ at \in 0 .. Len(text)
  BY Sizes DEF WordChar, Inv, TypeOK
<1>2. /\ Len(text) \in Nat /\ at \in Nat /\ at < Len(text) /\ at' = at + 1
      /\ read_char = text[at + 1] /\ read_char \in Int
  <2>1. read_char \in 0 .. 127 => read_char \in Int
    OBVIOUS
  <2> QED
    BY <1>1, <2>1, ReadOn
<1>3. PICK i : i = (at - length) + 1
  OBVIOUS
<1>4. (at' - length') + 1 = i /\ i + length = at + 1
  BY <1>1, <1>2, <1>3
<1>5. /\ i \in Starts /\ \A k \in i .. at : text[k] \notin Blank
      /\ \A k \in 0 .. length - 1 : buffer[k] = text[i + k]
      /\ words = Cardinality({j \in Starts : j < i})
  <2>1. CASE length = 0
    <3>1. i = at + 1 /\ WordsRead
      BY <1>1, <1>2, <1>3, <2>1 DEF Inv, WordIsRead
    <3>2. i \in Starts
      <4>1. i \in 1 .. Len(text) /\ text[i] \notin Blank /\ i - 1 = at
        BY <1>1, <1>2, <3>1
      <4>2. i > 1 => text[i - 1] \in Blank
        BY <1>2, <3>1, <4>1 DEF WordsRead
      <4> QED
        BY <4>1, <4>2 DEF Starts
    <3>3. {j \in Starts : j <= at} = {j \in Starts : j < i}
      BY <1>1, <1>2, <3>1, StartsAreFinite
    <3>4. i .. at = {} /\ 0 .. length - 1 = {}
      BY <1>2, <2>1, <3>1
    <3> QED
      BY <3>1, <3>2, <3>3, <3>4 DEF WordsRead
  <2>2. CASE length # 0
    <3>1. InWord
      BY <1>1, <2>2 DEF Inv, WordIsRead
    <3> QED
      BY <1>3, <3>1 DEF InWord, Holds
  <2> QED
    BY <2>1, <2>2
<1>6. i \in Nat /\ 1 <= i
  BY <1>1, <1>5, StartsAreFinite
<1>7. Holds(i, length)'
  <2>1. /\ buffer'[length] = read_char /\ buffer'[length + 1] = NUL
        /\ \A k \in 0 .. length - 1 : buffer'[k] = buffer[k]
    <3>1. \A l \in 0 .. BUFFER_SIZE - 1, c \in Int : Store(l, c) =>
            /\ buffer'[l] = c /\ buffer'[l + 1] = NUL
            /\ \A k \in 0 .. l - 1 : buffer'[k] = buffer[k]
      BY Stored DEF Inv, TypeOK
    <3>2. length \in 0 .. BUFFER_SIZE - 1
      BY <1>1
    <3> QED
      BY <1>1, <1>2, <3>1, <3>2
  <2>2. ASSUME NEW k \in 0 .. length PROVE buffer'[k] = text[i + k]
    <3>1. CASE k = length
      BY <1>2, <1>4, <2>1, <3>1
    <3>2. CASE k # length
      <4>1. k \in 0 .. length - 1
        BY <1>1, <3>2
      <4> QED
        BY <1>5, <2>1, <4>1
    <3> QED
      BY <3>1, <3>2
  <2>3. /\ (length + 1) - 1 = length /\ length + 1 \in 0 .. BUFFER_SIZE
        /\ i + (length + 1) <= Len(text) + 1
    BY <1>1, <1>2, <1>4, <1>6
  <2> QED
    BY <1>1, <1>6, <2>1, <2>2, <2>3 DEF Holds
<1>8. \A k \in i .. at + 1 : text[k] \notin Blank
  BY <1>1, <1>2, <1>5, <1>6
<1>9. InWord'
  <2>1. Starts' = Starts
    BY <1>1, WordsStay
  <2> QED
    BY <1>1, <1>2, <1>4, <1>5, <1>7, <1>8, <2>1 DEF InWord, Blank, NL
<1> QED
  BY <1>1, <1>9 DEF WordIsRead, WordReadWhole

(* Every other step of the library's client.                               *)
LEMMA ClientReadsWords ==
  ASSUME Inv, LibraryNext
  PROVE  WordIsRead' /\ WordReadWhole'
<1>1. text \in Texts /\ text' = text /\ at \in 0 .. Len(text) /\ length \in Nat
  BY Sizes DEF Inv, TypeOK, LibraryNext, read_word, skipping_loop, WordEnd, WordChar, Parse,
               PrintNumber, ReadNext
<1>2. Starts' = Starts
  BY <1>1, WordsStay
<1>3. CASE skipping_loop
  <2>1. lib_pc = "skip" /\ length = 0 /\ length' = 0 /\ words' = words /\ WordsRead
    BY <1>3 DEF skipping_loop, Inv, WordIsRead
  <2>2. CASE read_char \in Blank
    <3>1. lib_pc' = "skip" /\ Advance /\ read_char # NUL
      BY <1>3, <2>1, <2>2 DEF skipping_loop, Blank, NL, NUL
    <3>2. at \in Nat /\ at' = at + 1 /\ text[at + 1] \in Blank
      BY <1>1, <2>2, <3>1, ReadOn
    <3>3. {j \in Starts : j <= at'} = {j \in Starts : j <= at}
      <4>1. at + 1 \notin Starts
        BY <3>2 DEF Starts
      <4>2. Starts \subseteq Nat
        BY <1>1, StartsAreFinite
      <4>3. ASSUME NEW j \in Starts PROVE j <= at' <=> j <= at
        <5>1. j \in Nat /\ j # at + 1
          BY <4>1, <4>2
        <5> QED
          BY <3>2, <5>1
      <4> QED
        BY <4>3
    <3>4. WordsRead'
      BY <1>1, <1>2, <2>1, <3>2, <3>3 DEF WordsRead, Blank, NL
    <3> QED
      BY <2>1, <3>1, <3>4 DEF WordIsRead, WordReadWhole
  <2>3. CASE read_char \notin Blank
    <3>1. lib_pc' = "word" /\ at' = at
      BY <1>3, <2>3 DEF skipping_loop
    <3>2. WordsRead'
      BY <1>1, <1>2, <2>1, <3>1 DEF WordsRead, Blank, NL
    <3>3. read_char' = read_char
      BY <1>1, <3>1 DEF read_char, NUL
    <3> QED
      BY <2>1, <2>3, <3>1, <3>2, <3>3 DEF WordIsRead, WordReadWhole, Blank, NL
  <2> QED
    BY <2>2, <2>3
<1>4. CASE WordEnd
  <2>1. CASE length = 0
    BY <1>4, <2>1 DEF WordEnd, WordIsRead, WordReadWhole
  <2>2. CASE length # 0
    BY <1>1, <1>4, <2>2, WordEndReadsWord
  <2> QED
    BY <2>1, <2>2
<1>5. CASE WordChar
  <2>1. CASE length > BUFFER_SIZE - 1
    BY <1>5, <2>1 DEF WordChar, WordIsRead, WordReadWhole
  <2>2. CASE ~(length > BUFFER_SIZE - 1)
    BY <1>5, <2>2, WordCharReadsWord
  <2> QED
    BY <2>1, <2>2
<1>6. CASE Parse \/ PrintNumber \/ ReadNext
  <2>1. /\ WordsRead /\ at' = at /\ words' = words /\ lib_pc' \in {"parsed", "printed", "skip"}
        /\ lib_pc' = "skip" => length' = 0
    BY <1>6 DEF Parse, PrintNumber, ReadNext, Inv, WordIsRead
  <2>2. WordsRead'
    BY <1>1, <1>2, <2>1 DEF WordsRead, Blank, NL
  <2> QED
    BY <2>1, <2>2 DEF WordIsRead, WordReadWhole
<1> QED
  BY <1>3, <1>4, <1>5, <1>6 DEF LibraryNext, read_word

(* A step of the library's client: it reads no line.                       *)
LEMMA ClientKeepsInv ==
  ASSUME Inv, LibraryNext, UNCHANGED <<entry, answer>>
  PROVE  Inv'
<1> USE DEF Inv, TypeOK
<1>1. BUFFER_SIZE \in Nat /\ length \in Nat /\ length <= BUFFER_SIZE
  BY Sizes
<1>2. /\ lib_pc \in {"skip", "word", "parse", "parsed", "printed"}
      /\ lib_pc' \in {"skip", "word", "parse", "parsed", "printed", "ended"} /\ text' = text
  BY DEF LibraryNext, read_word, skipping_loop, WordEnd, WordChar, Parse, PrintNumber, ReadNext
<1>3. /\ at' \in 0 .. Len(text) /\ length' \in 0 .. BUFFER_SIZE
      /\ buffer' \in [Memory -> Int] /\ SpillBounded'
  <2> SUFFICES ASSUME TRUE
      PROVE  /\ at' \in 0 .. Len(text) /\ length' \in 0 .. BUFFER_SIZE
             /\ buffer' \in [Memory -> Int] /\ SpillBounded'
    OBVIOUS
  <2>0. buffer' = buffer => buffer' \in [Memory -> Int] /\ SpillBounded'
    BY DEF SpillBounded, Memory, QWORD, FOREIGN
  <2>1. CASE skipping_loop
    BY <2>0, <2>1, ReadOn DEF skipping_loop
  <2>2. CASE WordEnd
    BY <2>0, <2>2, ReadOn, Terminated DEF WordEnd
  <2>3. CASE WordChar
    <3>1. Advance /\ at' \in 0 .. Len(text) /\ read_char \in Int
      <4>1. Advance
        BY <2>3 DEF WordChar
      <4>2. at' \in 0 .. Len(text) /\ read_char \in 0 .. 127
        BY <4>1, ReadOn
      <4> QED
        BY <4>1, <4>2
    <3>2. CASE length > BUFFER_SIZE - 1
      BY <2>0, <2>3, <3>1, <3>2 DEF WordChar
    <3>3. CASE ~(length > BUFFER_SIZE - 1)
      <4>1. length \in 0 .. BUFFER_SIZE - 1 /\ length + 1 \in 0 .. BUFFER_SIZE
        BY <1>1, <3>3
      <4>2. Store(length, read_char) /\ length' = length + 1
        BY <2>3, <3>3 DEF WordChar
      <4>3. \A i \in 0 .. BUFFER_SIZE - 1, c \in Int :
              Store(i, c) => buffer' \in [Memory -> Int] /\ SpillBounded'
        BY Stored
      <4> QED
        BY <3>1, <4>1, <4>2, <4>3
    <3> QED
      BY <3>2, <3>3
  <2>4. CASE Parse \/ PrintNumber
    BY <2>0, <2>4 DEF Parse, PrintNumber
  <2>5. CASE ReadNext
    BY <1>1, <2>0, <2>5 DEF ReadNext
  <2> QED
    BY <2>1, <2>2, <2>3, <2>4, <2>5 DEF LibraryNext, read_word
<1>4. answer = <<>> /\ answer' = <<>>
  BY <1>2
<1>5. WordIsRead' /\ WordReadWhole'
  BY ClientReadsWords
<1> QED
  BY <1>2, <1>3, <1>4, <1>5 DEF LineIsRead, LineIsRefused, ListIsSearched, AnsweredRight

(* The end of the line: the whole of it is in the buffer, or it is empty.  *)
LEMMA LineEndKeepsInv ==
  ASSUME Inv, LineEnd
  PROVE  Inv'
<1>1. BUFFER_SIZE \in Nat /\ length \in Nat /\ length < BUFFER_SIZE /\ at = length
  BY Sizes DEF Inv, TypeOK, LineEnd, LineIsRead
<1>2. /\ lib_pc = "line" /\ text \in Texts /\ text' = text /\ length' = length
      /\ answer = <<>> /\ answer' = <<>> /\ read_char \in {NL, NUL} /\ Advance
  BY DEF Inv, TypeOK, LineEnd
<1>3. /\ Len(text) \in Nat /\ at <= Len(text) /\ at' \in 0 .. Len(text)
      /\ at = Len(text) \/ (at < Len(text) /\ text[at + 1] = NL)
  BY <1>2, ReadOn DEF Inv, TypeOK, NL, NUL
<1>4. Len(Line) = length /\ Line = [i \in 1 .. length |-> text[i]]
  <2>1. \A n \in 0 .. Len(text) :
          /\ \A i \in 1 .. n : text[i] # NL
          /\ n = Len(text) \/ (n < Len(text) /\ text[n + 1] = NL)
          => Len(Line) = n /\ Line = [i \in 1 .. n |-> text[i]]
    BY <1>2, FirstLine
  <2>2. length \in 0 .. Len(text) /\ \A i \in 1 .. length : text[i] # NL
    BY <1>1, <1>2, <1>3 DEF Inv, LineIsRead
  <2> QED
    BY <1>1, <1>3, <2>1, <2>2
<1>5. Line' = Line
  BY <1>2, LineStays
<1>6. CASE length = 0
  <2>1. lib_pc' = "clear" /\ buffer' = buffer
    BY <1>6 DEF LineEnd
  <2>2. TypeOK' /\ SpillBounded'
    BY <1>1, <1>2, <1>3, <2>1 DEF Inv, TypeOK, SpillBounded, Memory, QWORD, FOREIGN
  <2>3. Refused'
    BY <1>4, <1>5, <1>6 DEF Refused
  <2> QED
    BY <1>2, <2>1, <2>2, <2>3
       DEF Inv, WordIsRead, WordReadWhole, LineIsRead, LineIsRefused, ListIsSearched, AnsweredRight
<1>7. CASE length # 0
  <2>1. /\ lib_pc' = "find" /\ entry' = head
        /\ buffer' = [buffer EXCEPT ![length + 1] = NUL]
    BY <1>7 DEF LineEnd
  <2>2. /\ buffer' \in [Memory -> Int] /\ SpillBounded'
        /\ \A k \in 0 .. length : buffer'[k] = buffer[k]
    BY <1>1, <2>1, Terminated DEF Inv, TypeOK
  <2>3. TypeOK'
    BY <1>1, <1>2, <1>3, <2>1, <2>2 DEF Inv, TypeOK
  <2>4. Holds(1, length)'
    <3>1. Holds(1, length)
      BY <1>2 DEF Inv, LineIsRead
    <3>2. length \in 0 .. length /\ 0 .. length - 1 \subseteq 0 .. length
      BY <1>1
    <3> QED
      BY <1>2, <2>2, <3>1, <3>2 DEF Holds
  <2>5. String' = Line'
    <3>1. \A i, n : Holds(i, n)' => String' = [k \in 1 .. n |-> text'[(i + k) - 1]]
      BY <1>2, StringIsTextThen
    <3>2. String' = [k \in 1 .. length |-> text[(1 + k) - 1]]
      BY <1>2, <2>4, <3>1
    <3>3. \A k \in 1 .. length : (1 + k) - 1 = k
      BY <1>1
    <3> QED
      BY <1>4, <1>5, <3>2, <3>3
  <2>6. ~Refused'
    BY <1>1, <1>4, <1>5, <1>7 DEF Refused
  <2>7. /\ head \in 0 .. Len(Entries)
        /\ \A e \in head + 1 .. Len(Entries) : Entries[e][1] # Line
    <3>1. Len(Entries) \in Nat
      BY DictionaryAssumption, LenProperties
    <3>2. head + 1 .. Len(Entries) = {}
      BY <3>1 DEF head
    <3> QED
      BY <3>1, <3>2 DEF head
  <2> QED
    BY <1>2, <1>5, <2>1, <2>2, <2>3, <2>5, <2>6, <2>7
       DEF Inv, WordIsRead, WordReadWhole, LineIsRead, LineIsRefused, ListIsSearched, AnsweredRight
<1> QED
  BY <1>6, <1>7

(* A character of the line.                                                *)
LEMMA LineCharKeepsInv ==
  ASSUME Inv, LineChar
  PROVE  Inv'
<1>1. BUFFER_SIZE \in Nat /\ length \in Nat /\ length < BUFFER_SIZE /\ at = length
  BY Sizes DEF Inv, TypeOK, LineChar, LineIsRead
<1>2. /\ lib_pc = "line" /\ text \in Texts /\ text' = text /\ length' = length + 1
      /\ answer = <<>> /\ answer' = <<>> /\ Advance
      /\ read_char # NL /\ read_char # NUL /\ Store(length, read_char)
      /\ lib_pc' = IF length' > BUFFER_SIZE - 1 THEN "clear" ELSE "line"
  BY DEF Inv, TypeOK, LineChar
<1>3. /\ Len(text) \in Nat /\ at < Len(text) /\ at' = length' /\ at' \in 0 .. Len(text)
      /\ read_char = text[length + 1] /\ read_char \in 0 .. 127
  BY <1>1, <1>2, ReadOn DEF Inv, TypeOK
<1>4. /\ buffer' \in [Memory -> Int] /\ SpillBounded'
      /\ buffer'[length] = read_char /\ buffer'[length + 1] = NUL
      /\ \A k \in 0 .. length - 1 : buffer'[k] = buffer[k]
  <2>1. \A i \in 0 .. BUFFER_SIZE - 1, c \in Int : Store(i, c) =>
          /\ buffer' \in [Memory -> Int] /\ SpillBounded'
          /\ buffer'[i] = c /\ buffer'[i + 1] = NUL
          /\ \A k \in 0 .. i - 1 : buffer'[k] = buffer[k]
    BY Stored DEF Inv, TypeOK
  <2>2. length \in 0 .. BUFFER_SIZE - 1 /\ read_char \in Int
    BY <1>1, <1>3
  <2> QED
    BY <1>2, <2>1, <2>2
<1>5. TypeOK'
  BY <1>1, <1>2, <1>3, <1>4 DEF Inv, TypeOK
<1>6. \A i \in 1 .. length + 1 : text[i] # NL
  <2>1. \A i \in 1 .. length : text[i] # NL
    BY <1>2 DEF Inv, LineIsRead
  <2> QED
    BY <1>1, <1>2, <1>3, <2>1
<1>7. Holds(1, length)
  BY <1>2 DEF Inv, LineIsRead
<1>8. Holds(1, length)'
  <2>1. \A k \in 0 .. length : buffer'[k] = text[k + 1]
    <3> SUFFICES ASSUME NEW k \in 0 .. length PROVE buffer'[k] = text[k + 1]
      OBVIOUS
    <3>1. CASE k = length
      BY <1>3, <1>4, <3>1
    <3>2. CASE k # length
      <4>1. k \in 0 .. length - 1
        BY <1>1, <3>2
      <4> QED
        BY <1>4, <1>7, <4>1 DEF Holds
    <3> QED
      BY <3>1, <3>2
  <2>2. (length + 1) - 1 = length /\ length + 1 \in 0 .. BUFFER_SIZE /\ length + 1 <= Len(text)
    BY <1>1, <1>3
  <2> QED
    BY <1>2, <1>4, <2>1, <2>2 DEF Holds
<1>9. Line' = Line
  BY <1>2, LineStays
<1>10. CASE length' > BUFFER_SIZE - 1
  <2>1. Len(Line) \in Nat /\ Len(Line) >= length + 1
    <3>1. \A n \in 0 .. Len(text) : (\A i \in 1 .. n : text[i] # NL) =>
            Len(Line) \in Nat /\ Len(Line) >= n
      BY <1>2, FirstLine
    <3>2. length + 1 \in 0 .. Len(text)
      BY <1>1, <1>2, <1>3
    <3> QED
      BY <1>6, <3>1, <3>2
  <2>2. Refused' /\ lib_pc' = "clear"
    BY <1>1, <1>2, <1>9, <1>10, <2>1 DEF Refused
  <2> QED
    BY <1>2, <1>4, <1>5, <2>2
       DEF Inv, WordIsRead, WordReadWhole, LineIsRead, LineIsRefused, ListIsSearched, AnsweredRight
<1>11. CASE ~(length' > BUFFER_SIZE - 1)
  <2>1. lib_pc' = "line" /\ Holds(1, length)'
    BY <1>2, <1>8, <1>11
  <2> QED
    BY <1>2, <1>3, <1>4, <1>5, <1>6, <2>1
       DEF Inv, WordIsRead, WordReadWhole, LineIsRead, LineIsRefused, ListIsSearched, AnsweredRight
<1> QED
  BY <1>10, <1>11

(* A refused line: the program reads up to the next newline.               *)
LEMMA ClearKeepsInv ==
  ASSUME Inv, clear_stdin
  PROVE  Inv'
<1>1. /\ lib_pc = "clear" /\ text' = text /\ answer' = answer /\ answer = <<>> /\ Advance
      /\ buffer' = buffer /\ length' = length /\ lib_pc' \in {"clear", "overflow"}
  BY DEF Inv, clear_stdin
<1>2. at' \in 0 .. Len(text)
  BY <1>1, ReadOn DEF Inv, TypeOK
<1>3. TypeOK' /\ SpillBounded'
  BY <1>1, <1>2 DEF Inv, TypeOK, SpillBounded, Memory, QWORD, FOREIGN
<1>4. Line' = Line
  BY <1>1, LineStays
<1>5. Refused'
  BY <1>1, <1>4 DEF Inv, LineIsRefused, Refused
<1> QED
  BY <1>1, <1>3, <1>5
     DEF Inv, WordIsRead, WordReadWhole, LineIsRead, LineIsRefused, ListIsSearched, AnsweredRight

(* An entry is compared.                                                   *)
LEMMA FindKeepsInv ==
  ASSUME Inv, find_word
  PROVE  Inv'
<1>1. /\ lib_pc = "find" /\ text' = text /\ at' = at /\ length' = length /\ buffer' = buffer
      /\ answer = <<>> /\ String = Line /\ ~Refused
  BY DEF Inv, find_word, ListIsSearched
<1>2. /\ Len(Entries) \in Nat /\ entry \in 1 .. Len(Entries)
      /\ \A e \in entry + 1 .. Len(Entries) : Entries[e][1] # Line
      /\ DOMAIN Entries = 1 .. Len(Entries)
  BY DictionaryAssumption, LenProperties DEF Inv, find_word, ListIsSearched
<1>3. Line' = Line /\ (Refused' <=> Refused)
  BY <1>1, LineStays DEF Refused
<1>4. SpillBounded'
  BY <1>1 DEF Inv, SpillBounded, Memory, QWORD, FOREIGN
<1>5. CASE Entries[entry][1] = Line
  <2>1. /\ lib_pc' = "ended" /\ answer' = <<"stdout", Entries[entry][2]>>
    BY <1>1, <1>5 DEF find_word, string_equals
  <2> DEFINE with == {e \in DOMAIN Entries : Entries[e][1] = Line'}
             last == CHOOSE e \in with : \A d \in with : d <= e
  <2>2. entry \in with /\ \A d \in with : d <= entry
    BY <1>2, <1>3, <1>5
  <2>3. last = entry
    <3>1. with \subseteq Nat
      BY <1>2
    <3>2. ASSUME NEW e \in with, \A d \in with : d <= e PROVE e = entry
      <4> HIDE DEF with
      <4>1. entry <= e /\ e <= entry /\ e \in Nat /\ entry \in Nat
        BY <2>2, <3>1, <3>2
      <4> QED
        BY <4>1
    <3> HIDE DEF with
    <3> QED
      BY <2>2, <3>2
  <2>4. AnsweredRight'
    <3>1. Len(Line') \in 1 .. BUFFER_SIZE - 1
      BY <1>1, <1>3 DEF Refused
    <3>2. with # {}
      BY <2>2
    <3>3. answer' = IF Len(Line') \notin 1 .. BUFFER_SIZE - 1
                    THEN <<"stderr", "overflow_msg">>
                    ELSE IF with = {} THEN <<"stderr", "not_found_msg">>
                    ELSE <<"stdout", Entries[last][2]>>
      <4> HIDE DEF with, last
      <4> QED
        BY <2>1, <2>3, <3>1, <3>2
    <3> QED
      BY <3>3 DEF AnsweredRight
  <2>5. TypeOK'
    BY <1>1, <2>1 DEF Inv, TypeOK
  <2> QED
    BY <1>4, <2>1, <2>4, <2>5 DEF Inv, WordIsRead, WordReadWhole, LineIsRead, LineIsRefused, ListIsSearched
<1>6. CASE Entries[entry][1] # Line
  <2>1. lib_pc' = lib_pc /\ answer' = answer /\ entry' = entry - 1
    BY <1>1, <1>6 DEF find_word, string_equals
  <2>2. TypeOK'
    BY <1>1, <2>1 DEF Inv, TypeOK
  <2>3. String' = String
    BY <1>1 DEF String, string_length, Memory, QWORD, NUL
  <2>4. /\ entry - 1 \in 0 .. Len(Entries)
        /\ \A e \in (entry - 1) + 1 .. Len(Entries) : Entries[e][1] # Line
    BY <1>2, <1>6
  <2> QED
    BY <1>1, <1>3, <1>4, <2>1, <2>2, <2>3, <2>4
       DEF Inv, WordIsRead, WordReadWhole, LineIsRead, LineIsRefused, ListIsSearched, AnsweredRight
<1> QED
  BY <1>5, <1>6

(* There is no such entry, or the line was no key.                         *)
LEMMA ErrorKeepsInv ==
  ASSUME Inv, error
  PROVE  Inv'
<1>1. /\ text' = text /\ at' = at /\ length' = length /\ buffer' = buffer
      /\ lib_pc' = "ended" /\ lib_pc \in {"find", "overflow"}
  BY DEF error
<1>2. TypeOK' /\ SpillBounded'
  BY <1>1 DEF Inv, TypeOK, SpillBounded, Memory, QWORD, FOREIGN
<1>3. Line' = Line
  BY <1>1, LineStays
<1>4. CASE lib_pc = "overflow"
  <2>1. Refused /\ answer' = <<"stderr", "overflow_msg">>
    BY <1>4 DEF Inv, error, LineIsRefused
  <2>2. AnsweredRight'
    BY <1>3, <2>1 DEF AnsweredRight, Refused
  <2> QED
    BY <1>1, <1>2, <2>2 DEF Inv, WordIsRead, WordReadWhole, LineIsRead, LineIsRefused, ListIsSearched
<1>5. CASE lib_pc = "find"
  <2>1. /\ ~Refused /\ entry = 0 /\ answer' = <<"stderr", "not_found_msg">>
        /\ \A e \in entry + 1 .. Len(Entries) : Entries[e][1] # Line
    BY <1>5 DEF Inv, error, ListIsSearched
  <2>2. {e \in DOMAIN Entries : Entries[e][1] = Line} = {}
    BY <2>1, DictionaryAssumption, LenProperties
  <2>3. AnsweredRight'
    BY <1>3, <2>1, <2>2 DEF AnsweredRight, Refused
  <2> QED
    BY <1>1, <1>2, <2>3 DEF Inv, WordIsRead, WordReadWhole, LineIsRead, LineIsRefused, ListIsSearched
<1> QED
  BY <1>1, <1>4, <1>5

LEMMA StepKeepsInv ==
  ASSUME Inv, [ProgramNext]_dictionary
  PROVE  Inv'
<1>1. CASE UNCHANGED dictionary
  <2>1. /\ text' = text /\ at' = at /\ lib_pc' = lib_pc /\ buffer' = buffer /\ length' = length
        /\ entry' = entry /\ answer' = answer
    BY <1>1 DEF dictionary, library_vars
  <2>2. Line' = Line
    BY <2>1, LineStays
  <2>3. TypeOK' /\ SpillBounded'
    BY <2>1 DEF Inv, TypeOK, SpillBounded, Memory, QWORD, FOREIGN
  <2>4. LineIsRead' /\ LineIsRefused'
    BY <2>1, <2>2 DEF Inv, LineIsRead, Holds, LineIsRefused, Refused, NUL, NL
  <2>5. ListIsSearched'
    <3>1. String' = String
      BY <2>1 DEF String, string_length, Memory, QWORD, NUL
    <3> QED
      BY <2>1, <2>2, <3>1 DEF Inv, ListIsSearched, Refused
  <2>6. AnsweredRight'
    BY <2>1, <2>2 DEF Inv, AnsweredRight
  <2>7. WordIsRead' /\ WordReadWhole'
    <3>1. Starts' = Starts /\ Words' = Words /\ words' = words
      BY <1>1, <2>1, WordsStay DEF dictionary, library_vars
    <3>2. String' = String /\ read_char' = read_char /\ (WordsRead <=> WordsRead')
      BY <2>1, <3>1 DEF String, string_length, Memory, QWORD, NUL, NL, read_char, WordsRead,
                        Blank
    <3>3. InWord <=> InWord'
      BY <2>1, <3>1 DEF InWord, Holds, Blank, NL, NUL
    <3> QED
      BY <2>1, <3>1, <3>2, <3>3 DEF Inv, WordIsRead, WordReadWhole, Blank, NL
  <2> QED
    BY <2>1, <2>3, <2>4, <2>5, <2>6, <2>7 DEF Inv
<1>2. CASE ProgramNext
  BY <1>2, ClientKeepsInv, LineEndKeepsInv, LineCharKeepsInv, ClearKeepsInv, FindKeepsInv,
     ErrorKeepsInv DEF ProgramNext, _start, read_line
<1> QED
  BY <1>1, <1>2

-----------------------------------------------------------------------------
(* The numbers: what the client has parsed and printed.                    *)

NumInv ==
  /\ number \in 0 .. WORD - 1 /\ words \in Nat
  /\ lib_pc = "parse" => words # 0
  /\ lib_pc = "parse" => String \in Seq(Int) /\ String # <<>>
  /\ NumbersRight

LEMMA NumInvAtFirst ==
  ASSUME ProgramInit
  PROVE  NumInv
<1>1. number = 0 /\ r9 = 0 /\ words = 0 /\ lib_pc \in {"line", "skip"}
  BY DEF ProgramInit, Start, LibraryInit, Fresh
<1>2. 0 \in 0 .. WORD - 1
  BY LibraryAssumption
<1> QED
  BY <1>1, <1>2 DEF NumInv, NumbersRight, NumberReadRight, PrintedReadsBack

(* While words are read no number is.                                      *)
LEMMA ReadingKeepsNumInv ==
  ASSUME Inv, NumInv, read_word
  PROVE  NumInv'
<1>1. /\ number' = number /\ lib_pc' \in {"skip", "word", "parse", "ended"}
      /\ lib_pc' # "parse" => words' = words
  BY DEF read_word, skipping_loop, WordEnd, WordChar
<1>2. number' \in 0 .. WORD - 1 /\ NumbersRight'
  BY <1>1 DEF NumInv, NumbersRight, NumberReadRight, PrintedReadsBack
<1>3. CASE lib_pc' = "parse"
  <2>1. WordEnd /\ length # 0 /\ words' = words + 1
    BY <1>3 DEF read_word, skipping_loop, WordEnd, WordChar
  <2>2. length > 0 /\ words \in Nat
    <3>1. length \in Nat
      BY Sizes DEF Inv, TypeOK
    <3> QED
      BY <2>1, <3>1 DEF NumInv
  <2>3. String' \in Seq(Int) /\ String' # <<>>
    BY <2>1, <2>2, WordEndReadsWord
  <2>4. words' # 0 /\ words' \in Nat
    BY <2>1, <2>2
  <2> QED
    BY <1>2, <1>3, <2>3, <2>4 DEF NumInv
<1>4. CASE lib_pc' # "parse"
  BY <1>1, <1>2, <1>4 DEF NumInv
<1> QED
  BY <1>3, <1>4

(* What is parsed is the word that was read last.                          *)
LEMMA ParseKeepsNumInv ==
  ASSUME Inv, NumInv, Parse
  PROVE  NumInv'
<1>1. /\ lib_pc = "parse" /\ lib_pc' = "parsed" /\ text' = text /\ words' = words
      /\ number' = parse_int(String, r9).rax /\ r9' = parse_int(String, r9).r9
  BY DEF Parse
<1>2. PICK s : s = String /\ s = Words[words] /\ s \in Seq(Int) /\ s # <<>>
  BY <1>1 DEF Inv, WordReadWhole, NumInv
<1>3. Words' = Words
  BY <1>1, WordsStay
<1>4. /\ number' \in 0 .. WORD - 1
      /\ number' = Value(s) \/ (s[1] = PLUS /\ r9' = 1)
  BY <1>1, <1>2, ParseInt
<1>5. NumberReadRight'
  <2>1. number' = Value(Words[words]) \/ (Words[words][1] = PLUS /\ r9' = 1)
    BY <1>2, <1>4
  <2> QED
    BY <1>1, <1>3, <2>1 DEF NumberReadRight, SignLeft, PLUS
<1> QED
  BY <1>1, <1>4, <1>5 DEF NumInv, NumbersRight, PrintedReadsBack

LEMMA StepKeepsNumInv ==
  ASSUME Inv, NumInv, [ProgramNext]_dictionary
  PROVE  NumInv'
<1>1. CASE UNCHANGED dictionary
  <2>1. /\ text' = text /\ lib_pc' = lib_pc /\ buffer' = buffer /\ words' = words
        /\ number' = number /\ printed' = printed /\ r9' = r9 /\ Words' = Words
    BY <1>1, WordsStay DEF dictionary, library_vars
  <2>2. String' = String
    BY <2>1 DEF String, string_length, Memory, QWORD, NUL
  <2>3. NumbersRight'
    BY <2>1 DEF NumInv, NumbersRight, NumberReadRight, SignLeft, PrintedReadsBack, PLUS
  <2> QED
    BY <2>1, <2>2, <2>3 DEF NumInv
<1>2. CASE _start
  <2>1. /\ number' = number /\ words' \in Nat
        /\ lib_pc' \in {"line", "clear", "find", "overflow", "ended"}
    BY <1>2 DEF NumInv, _start, read_line, LineEnd, LineChar, clear_stdin, find_word, error
  <2> QED
    BY <2>1 DEF NumInv, NumbersRight, NumberReadRight, PrintedReadsBack
<1>3. CASE PrintNumber
  <2>1. /\ number' = number /\ words' = words /\ lib_pc' = "printed" /\ r9' = 10
        /\ printed' = print_int(number) /\ number \in 0 .. WORD - 1
    BY <1>3 DEF PrintNumber, NumInv
  <2>2. Value(printed') = number'
    BY <2>1, PrintInt
  <2> QED
    BY <2>1, <2>2 DEF NumInv, NumbersRight, NumberReadRight, PrintedReadsBack
<1>4. CASE ReadNext
  <2>1. number' = number /\ words' = words /\ lib_pc' = "skip"
    BY <1>4 DEF ReadNext
  <2> QED
    BY <2>1 DEF NumInv, NumbersRight, NumberReadRight, PrintedReadsBack
<1> QED
  BY <1>1, <1>2, <1>3, <1>4, ReadingKeepsNumInv, ParseKeepsNumInv DEF ProgramNext, LibraryNext

-----------------------------------------------------------------------------
(* What follows for the program.                                           *)

(* main.asm and lib.asm: the invariant, for any text the user sends.       *)
THEOREM DictionaryInvariantHolds == ProgramSpec => []Inv
<1>1. ProgramInit => Inv
  BY InvAtFirst
<1>2. Inv /\ [ProgramNext]_dictionary => Inv'
  BY StepKeepsInv
<1> QED
  BY <1>1, <1>2, PTL DEF ProgramSpec

(* main.asm:33-69, dict.asm:6-26: the answer to any line is the value of   *)
(* the last entry with this key, or the message that fits, and a line of   *)
(* the buffer's size less one is still a key.                              *)
THEOREM AnswersAreRight == ProgramSpec => []AnsweredRight
<1>1. Inv => AnsweredRight
  BY DEF Inv
<1> QED
  BY <1>1, DictionaryInvariantHolds, PTL

(* lib.asm:175-178, lib.inc:165-168: read_line and read_word do write      *)
(* behind the buffer (BufferKept is violated), but whatever the text, no   *)
(* more than seven bytes.                                                  *)
THEOREM SpillIsBounded == ProgramSpec => []SpillBounded
<1>1. Inv => SpillBounded
  BY DEF Inv
<1> QED
  BY <1>1, DictionaryInvariantHolds, PTL

(* lib.inc:136-189: the n-th word that read_word accepts is the n-th word  *)
(* of the text, from the buffer's beginning to a NUL, whatever was there   *)
(* before, and its length is returned.  The NUL of a word as long as the   *)
(* buffer lies behind it: that words with their NUL fit is WordFits, which *)
(* is violated.                                                            *)
THEOREM WordsAreReadWhole == ProgramSpec => []WordReadWhole
<1>1. Inv => WordReadWhole
  BY DEF Inv
<1> QED
  BY <1>1, DictionaryInvariantHolds, PTL

(* lib.inc:221-261, 200-215: every word of a text is parsed as the number  *)
(* that is written, whatever was read or printed before, unless it begins  *)
(* with a plus and r9 holds 1 (without that condition it is                *)
(* NumberAsWritten, which is violated); and lib.inc:51-91: what print_int  *)
(* writes is read back as the same number, for every word of the machine,  *)
(* the smallest one included.                                              *)
THEOREM NumbersAreRight == ProgramSpec => []NumbersRight
<1>1. ProgramInit => NumInv
  BY NumInvAtFirst
<1>2. Inv /\ NumInv /\ [ProgramNext]_dictionary => NumInv'
  BY StepKeepsNumInv
<1>3. NumInv => NumbersRight
  BY DEF NumInv
<1>4. ProgramSpec => []Inv
  BY DictionaryInvariantHolds
<1> QED
  BY <1>1, <1>2, <1>3, <1>4, PTL DEF ProgramSpec

===============================================================================
