--------------------------- MODULE SequenceLemmas ---------------------------
(***************************************************************************)
(* Lemmas about sequences, for any elements. What a fold or a recursive    *)
(* function does to a sequence of any length is proved by induction: of    *)
(* the lengths for which it does something else there would be a least.    *)
(***************************************************************************)
EXTENDS Integers, Sequences, SequencesExt, WellFoundedInduction, TLAPS

\* A set of natural numbers has a least one.
LEMMA LeastNumber ==
  ASSUME NEW T, T \subseteq Nat, T # {}
  PROVE  \E n \in T : \A m \in T : n <= m
<1>. DEFINE R == {ss \in Nat \X Nat : ss[1] < ss[2]}
<1>1. IsWellFoundedOn(R, Nat)
  BY NatLessThanWellFounded DEF OpToRel
<1>. HIDE DEF R
<1>2. PICK n \in T : \A m \in T : ~ (<<m, n>> \in R)
  BY <1>1, WFMin
<1>3. \A m \in T : n <= m
  <2>. SUFFICES ASSUME NEW m \in T PROVE n <= m
    OBVIOUS
  <2>1. <<m, n>> \in Nat \X Nat /\ <<m, n>>[1] = m /\ <<m, n>>[2] = n /\ m \in Nat /\ n \in Nat
    OBVIOUS
  <2>2. ~ (m < n)
    BY <1>2, <2>1 DEF R
  <2>. QED
    BY <2>1, <2>2
<1>. QED
  BY <1>3

\* What holds of 0, and of k if of k - 1, holds of n.
LEMMA StepByStep ==
  ASSUME NEW n \in Nat, NEW T, 0 \in T, \A k \in 1..n : k - 1 \in T => k \in T
  PROVE  n \in T
<1>. DEFINE B == {k \in 0..n : k \notin T}
<1>1. B \subseteq Nat
  OBVIOUS
<1>. SUFFICES ASSUME B # {} PROVE FALSE
  OBVIOUS
<1>. HIDE DEF B
<1>2. PICK k \in B : \A m \in B : k <= m
  BY <1>1, LeastNumber
<1>3. k \in 0..n /\ k \notin T
  BY <1>2 DEF B
<1>4. k \in 1..n /\ k - 1 \in 0..n /\ ~ (k <= k - 1)
  BY <1>3
<1>5. k - 1 \in T
  BY <1>2, <1>4 DEF B
<1>. QED
  BY <1>3, <1>4, <1>5

\* A sequence that is not empty holds something.
LEMMA RangeNotEmpty ==
  ASSUME NEW S, NEW s \in Seq(S), s # << >>
  PROVE  \E e : e \in Range(s)
<1>1. Len(s) # 0 /\ Len(s) \in Nat /\ DOMAIN s = 1..Len(s)
  OBVIOUS
<1>2. 1 \in DOMAIN s
  BY <1>1
<1>. QED
  BY <1>2 DEF Range

\* Two sequences joined: the elements of the first, then those of the second.
LEMMA ConcatFacts ==
  ASSUME NEW S, NEW a \in Seq(S), NEW b \in Seq(S)
  PROVE  /\ a \o b \in Seq(S) /\ Len(a \o b) = Len(a) + Len(b)
         /\ Len(a) \in Nat /\ Len(b) \in Nat
         /\ \A i \in 1..Len(a) : (a \o b)[i] = a[i]
         /\ \A i \in (Len(a) + 1)..(Len(a) + Len(b)) :
              i - Len(a) \in 1..Len(b) /\ (a \o b)[i] = b[i - Len(a)]
OBVIOUS

\* Nothing is lost or added when two sequences are joined.
LEMMA RangeConcat ==
  ASSUME NEW S, NEW a \in Seq(S), NEW b \in Seq(S)
  PROVE  Range(a \o b) = Range(a) \cup Range(b)
<1>1. /\ DOMAIN (a \o b) = 1..(Len(a) + Len(b))
      /\ DOMAIN a = 1..Len(a) /\ DOMAIN b = 1..Len(b)
      /\ \A i \in 1..Len(a) : (a \o b)[i] = a[i]
      /\ \A i \in 1..Len(b) : (a \o b)[Len(a) + i] = b[i]
      /\ \A i \in (Len(a) + 1)..(Len(a) + Len(b)) :
           i - Len(a) \in 1..Len(b) /\ (a \o b)[i] = b[i - Len(a)]
  OBVIOUS
<1>2. ASSUME NEW i \in 1..Len(a) PROVE a[i] \in Range(a \o b)
  <2>1. i \in DOMAIN (a \o b)
    BY <1>1
  <2>. QED
    BY <1>1, <2>1 DEF Range
<1>3. ASSUME NEW i \in 1..Len(b) PROVE b[i] \in Range(a \o b)
  <2>1. Len(a) + i \in DOMAIN (a \o b)
    BY <1>1
  <2>. QED
    BY <1>1, <2>1 DEF Range
<1>4. Range(a) \cup Range(b) \subseteq Range(a \o b)
  BY <1>1, <1>2, <1>3 DEF Range
<1>5. ASSUME NEW i \in 1..(Len(a) + Len(b)) PROVE (a \o b)[i] \in Range(a) \cup Range(b)
  <2>1. CASE i \in 1..Len(a)
    BY <1>1, <2>1 DEF Range
  <2>2. CASE i \in (Len(a) + 1)..(Len(a) + Len(b))
    BY <1>1, <2>2 DEF Range
  <2>. QED
    BY <2>1, <2>2
<1>6. Range(a \o b) \subseteq Range(a) \cup Range(b)
  BY <1>1, <1>5 DEF Range
<1>. QED
  BY <1>4, <1>6

\* What is appended to a sequence that does not hold it comes on top of the rest.
LEMMA AppendFacts ==
  ASSUME NEW S, NEW s \in Seq(S), IsInjective(s), NEW e \in S, e \notin Range(s)
  PROVE  /\ Append(s, e) \in Seq(S) /\ IsInjective(Append(s, e))
         /\ Range(Append(s, e)) = Range(s) \cup {e} /\ Append(s, e) # << >>
<1>1. /\ DOMAIN Append(s, e) = 1..(Len(s) + 1) /\ DOMAIN s = 1..Len(s) /\ Len(s) \in Nat
      /\ \A i \in 1..Len(s) : Append(s, e)[i] = s[i]
      /\ Append(s, e)[Len(s) + 1] = e /\ Append(s, e) \in Seq(S)
      /\ \A i \in 1..(Len(s) + 1) : i \in 1..Len(s) \/ i = Len(s) + 1
      /\ \A i \in 1..Len(s) : i \in 1..(Len(s) + 1)
      /\ Len(s) + 1 \in 1..(Len(s) + 1)
  OBVIOUS
<1>. DEFINE t == Append(s, e)
<1>2. t # << >>
  <2>1. Len(t) = Len(s) + 1 /\ Len(s) + 1 # 0 /\ Len(<< >>) = 0
    OBVIOUS
  <2>. QED
    BY <2>1
<1>. HIDE DEF t
<1>3. Range(t) = Range(s) \cup {e}
  BY <1>1 DEF Range, t
<1>4. \A i \in 1..Len(s) : s[i] # e
  BY <1>1 DEF Range
<1>5. IsInjective(t)
  BY <1>1, <1>4 DEF IsInjective, t
<1>. QED
  BY <1>1, <1>2, <1>3, <1>5 DEF t

\* Of a sequence without repetitions RemoveFirst() takes the one element.
LEMMA RemoveFirstFacts ==
  ASSUME NEW S, NEW s \in Seq(S), IsInjective(s), NEW e
  PROVE  /\ RemoveFirst(s, e) \in Seq(S) /\ IsInjective(RemoveFirst(s, e))
         /\ Range(RemoveFirst(s, e)) = Range(s) \ {e}
<1>0. DOMAIN s = 1..Len(s) /\ Len(s) \in Nat
  OBVIOUS
<1>1. CASE ~ \E i \in 1..Len(s) : s[i] = e
  <2>1. RemoveFirst(s, e) = s
    BY <1>1 DEF RemoveFirst
  <2>2. e \notin Range(s)
    BY <1>0, <1>1 DEF Range
  <2>. QED
    BY <2>1, <2>2
<1>2. CASE \E i \in 1..Len(s) : s[i] = e
  <2>. DEFINE I == {i \in 1..Len(s) : s[i] = e}
              k == Min(I)
              t == RemoveFirst(s, e)
              n == Len(s)
  <2>1. t = SubSeq(s, 1, k - 1) \o SubSeq(s, k + 1, n)
    BY <1>2 DEF RemoveFirst, RemoveAt, SelectInSeq
  <2>2. k \in I
    <3>1. I \subseteq Nat /\ I # {}
      BY <1>2
    <3>. HIDE DEF I
    <3>2. \E i \in I : \A j \in I : i <= j
      BY <3>1, LeastNumber
    <3>. QED
      BY <3>2 DEF Min
  <2>3. k \in 1..n /\ s[k] = e
    BY <2>2
  <2>. HIDE DEF I, k, t
  <2>4. /\ t \in Seq(S) /\ Len(t) = n - 1
        /\ \A i \in 1..(n - 1) : t[i] = IF i < k THEN s[i] ELSE s[i + 1]
    <3>. DEFINE a == SubSeq(s, 1, k - 1)
                b == SubSeq(s, k + 1, n)
    <3>1. a \in Seq(S) /\ Len(a) = k - 1 /\ \A i \in 1..(k - 1) : a[i] = s[i]
      BY <2>3
    <3>2. b \in Seq(S) /\ Len(b) = n - k /\ \A i \in 1..(n - k) : b[i] = s[i + k]
      BY <2>3
    <3>. HIDE DEF a, b
    <3>0. /\ a \o b \in Seq(S) /\ Len(a \o b) = Len(a) + Len(b)
          /\ \A i \in 1..Len(a) : (a \o b)[i] = a[i]
          /\ \A i \in (Len(a) + 1)..(Len(a) + Len(b)) : (a \o b)[i] = b[i - Len(a)]
      BY <3>1, <3>2, ConcatFacts
    <3>9. n \in Nat
      OBVIOUS
    <3>. HIDE DEF n
    <3>3. a \o b \in Seq(S) /\ Len(a \o b) = n - 1
      BY <2>3, <3>0, <3>1, <3>2, <3>9
    <3>4. ASSUME NEW i \in 1..(n - 1) PROVE (a \o b)[i] = IF i < k THEN s[i] ELSE s[i + 1]
      <4>1. CASE i < k
        <5>1. i \in 1..(k - 1)
          BY <2>3, <3>9, <4>1
        <5>. QED
          BY <3>0, <3>1, <4>1, <5>1
      <4>2. CASE ~ (i < k)
        <5>1. i - (k - 1) \in 1..(n - k) /\ i - (k - 1) + k = i + 1
          BY <2>3, <3>9, <4>2
        <5>2. i \in (Len(a) + 1)..(Len(a) + Len(b)) /\ i - Len(a) = i - (k - 1)
          BY <2>3, <3>1, <3>2, <3>9, <4>2
        <5>3. (a \o b)[i] = b[i - (k - 1)]
          BY <3>0, <5>2
        <5>. QED
          BY <3>2, <4>2, <5>1, <5>3
      <4>. QED
        BY <4>1, <4>2
    <3>5. t = a \o b
      BY <2>1 DEF a, b
    <3>. QED
      BY <3>3, <3>4, <3>5
  <2>5. DOMAIN t = 1..(n - 1) /\ DOMAIN s = 1..n /\ n \in Nat
    BY <2>4
  <2>. HIDE DEF n
  <2>6. \A i, j \in 1..n : s[i] = s[j] => i = j
    BY <2>5 DEF IsInjective
  <2>7. ASSUME NEW i \in 1..(n - 1), NEW j \in 1..(n - 1), t[i] = t[j] PROVE i = j
    <3>. DEFINE x == IF i < k THEN i ELSE i + 1
                y == IF j < k THEN j ELSE j + 1
    <3>1. t[i] = s[x] /\ t[j] = s[y] /\ x \in 1..n /\ y \in 1..n
      BY <2>3, <2>4, <2>5
    <3>2. x = y
      <4>. HIDE DEF x, y
      <4>. QED
        BY <2>6, <2>7, <3>1
    <3>. QED
      BY <2>3, <2>5, <3>2
  <2>8. IsInjective(t)
    BY <2>5, <2>7 DEF IsInjective
  <2>9. ASSUME NEW i \in 1..(n - 1) PROVE t[i] \in Range(s) \ {e}
    <3>. DEFINE j == IF i < k THEN i ELSE i + 1
    <3>1. j \in 1..n /\ j # k /\ t[i] = s[j]
      BY <2>3, <2>4, <2>5
    <3>. QED
      BY <2>3, <2>5, <2>6, <3>1 DEF Range
  <2>10. ASSUME NEW i \in 1..n, s[i] # e PROVE s[i] \in Range(t)
    <3>. DEFINE j == IF i < k THEN i ELSE i - 1
    <3>1. j \in 1..(n - 1) /\ t[j] = s[i]
      BY <2>3, <2>4, <2>5, <2>10
    <3>. HIDE DEF j
    <3>. QED
      BY <2>5, <3>1 DEF Range
  <2>11. Range(t) = Range(s) \ {e}
    BY <2>5, <2>9, <2>10 DEF Range
  <2>. QED
    BY <2>4, <2>8, <2>11 DEF t
<1>. QED
  BY <1>1, <1>2

\* A part of a sequence.
LEMMA SubSeqFacts ==
  ASSUME NEW S, NEW s \in Seq(S), NEW m \in Int, NEW n \in Int, 1 <= m, n <= Len(s)
  PROVE  /\ SubSeq(s, m, n) \in Seq(S)
         /\ Len(SubSeq(s, m, n)) = IF m <= n THEN (n - m) + 1 ELSE 0
         /\ DOMAIN SubSeq(s, m, n) = 1..((n - m) + 1)
         /\ \A k \in DOMAIN SubSeq(s, m, n) :
              (m + k) - 1 \in m..n /\ SubSeq(s, m, n)[k] = s[(m + k) - 1]
OBVIOUS

\* What is left of a sequence when its first i elements are taken off.
LEMMA SuffixFacts ==
  ASSUME NEW S, NEW s \in Seq(S), NEW i \in 1..Len(s)
  PROVE  LET t == SubSeq(s, i + 1, Len(s)) IN
         /\ t \in Seq(S)
         /\ DOMAIN t = 1..(Len(s) - i)
         /\ \A k \in DOMAIN t : i + k \in DOMAIN s /\ t[k] = s[i + k]
<1>1. Len(s) \in Nat /\ DOMAIN s = 1..Len(s) /\ i + 1 \in Int /\ 1 <= i + 1
  OBVIOUS
<1>2. (Len(s) - (i + 1)) + 1 = Len(s) - i /\ \A k \in Int : ((i + 1) + k) - 1 = i + k
  BY <1>1
<1>. QED
  BY <1>1, <1>2, SubSeqFacts

\* A reversed sequence holds the same elements.
LEMMA ReverseFacts ==
  ASSUME NEW S, NEW s \in Seq(S)
  PROVE  Reverse(s) \in Seq(S) /\ Range(Reverse(s)) = Range(s)
<1>. DEFINE n == Len(s)
            t == Reverse(s)
<1>1. n \in Nat /\ DOMAIN s = 1..n
  OBVIOUS
<1>2. DOMAIN t = 1..n /\ \A i \in 1..n : (n - i) + 1 \in 1..n /\ t[i] = s[(n - i) + 1]
  BY DEF Reverse
<1>3. t \in Seq(S)
  <2>1. \A i \in 1..n : t[i] \in S
    BY <1>2
  <2>2. t = [i \in 1..n |-> t[i]]
    BY <1>2 DEF Reverse
  <2>. HIDE DEF t, n
  <2>. QED
    BY <1>1, <2>1, <2>2
<1>. HIDE DEF t, n
<1>4. \A i \in 1..n : (n - i) + 1 \in 1..n /\ s[i] = t[(n - i) + 1]
  <2>. SUFFICES ASSUME NEW i \in 1..n PROVE (n - i) + 1 \in 1..n /\ s[i] = t[(n - i) + 1]
    OBVIOUS
  <2>1. (n - i) + 1 \in 1..n /\ (n - ((n - i) + 1)) + 1 = i
    BY <1>1
  <2>. QED
    BY <1>2, <2>1
<1>5. Range(t) \subseteq Range(s)
  BY <1>1, <1>2 DEF Range
<1>6. Range(s) \subseteq Range(t)
  BY <1>1, <1>2, <1>4 DEF Range
<1>. QED
  BY <1>3, <1>5, <1>6 DEF t

\* What flatten is in FlattenSeq(seqs).
Flattens(f, seqs, n) ==
  f = [i \in 1..n |-> IF i = 1 THEN seqs[i] ELSE f[i - 1] \o seqs[i]]

\* The recursive function in FlattenSeq(seqs) exists: there is no least length without.
LEMMA FlattenExists ==
  ASSUME NEW seqs, NEW n \in Nat
  PROVE  \E f : Flattens(f, seqs, n)
<1>. DEFINE T == {k \in Nat : ~ \E f : Flattens(f, seqs, k)}
<1>. SUFFICES ASSUME T # {} PROVE FALSE
  OBVIOUS
<1>1. PICK k \in T : \A m \in T : k <= m
  BY LeastNumber
<1>2. k # 0
  <2>. DEFINE e == [i \in 1..0 |-> << >>]
  <2>1. Flattens(e, seqs, 0)
    BY DEF Flattens
  <2>. HIDE DEF e
  <2>. QED
    BY <2>1
<1>3. k - 1 \in Nat /\ k - 1 \notin T
  BY <1>1, <1>2
<1>4. PICK f : Flattens(f, seqs, k - 1)
  BY <1>3
<1>5. \A i \in 1..(k - 1) : f[i] = IF i = 1 THEN seqs[i] ELSE f[i - 1] \o seqs[i]
  BY <1>4 DEF Flattens
<1>. DEFINE g == [i \in 1..k |-> IF i = k THEN IF k = 1 THEN seqs[k] ELSE f[k - 1] \o seqs[k]
                                 ELSE f[i]]
<1>9. \A i \in 1..(k - 1) : i \in 1..k /\ g[i] = f[i]
  BY <1>3
<1>6. \A i \in 1..k : g[i] = IF i = 1 THEN seqs[i] ELSE g[i - 1] \o seqs[i]
  <2>. SUFFICES ASSUME NEW i \in 1..k PROVE g[i] = IF i = 1 THEN seqs[i] ELSE g[i - 1] \o seqs[i]
    OBVIOUS
  <2>1. CASE i = k
    <3>1. i # 1 => i - 1 \in 1..(k - 1) /\ g[i - 1] = f[i - 1]
      BY <1>3, <1>9, <2>1
    <3>. QED
      BY <2>1, <3>1
  <2>2. CASE i # k
    <3>1. i \in 1..(k - 1) /\ (i # 1 => i - 1 \in 1..(k - 1))
      BY <1>3, <2>2
    <3>. QED
      BY <1>5, <1>9, <3>1
  <2>. QED
    BY <2>1, <2>2
<1>7. g = [i \in 1..k |-> g[i]]
  OBVIOUS
<1>. HIDE DEF g
<1>8. Flattens(g, seqs, k)
  BY <1>6, <1>7 DEF Flattens
<1>. QED
  BY <1>8

\* What FlattenSeq(seqs) holds is what the sequences hold.
LEMMA FlattenSeqRange ==
  ASSUME NEW S, NEW seqs \in Seq(Seq(S))
  PROVE  /\ FlattenSeq(seqs) \in Seq(S)
         /\ Range(FlattenSeq(seqs)) = UNION {Range(seqs[i]) : i \in DOMAIN seqs}
<1>. DEFINE n == Len(seqs)
            f == CHOOSE g : Flattens(g, seqs, n)
<1>1. n \in Nat /\ DOMAIN seqs = 1..n /\ \A i \in 1..n : seqs[i] \in Seq(S)
  OBVIOUS
<1>2. Flattens(f, seqs, n)
  BY <1>1, FlattenExists
<1>3. n # 0 => FlattenSeq(seqs) = f[n]
  BY DEF FlattenSeq, Flattens
<1>. HIDE DEF n, f
<1>4. \A i \in 1..n : f[i] = IF i = 1 THEN seqs[i] ELSE f[i - 1] \o seqs[i]
  BY <1>1, <1>2 DEF Flattens
<1>. DEFINE Upto(i) == UNION {Range(seqs[j]) : j \in 1..i}
            T == {i \in 1..n : ~ (f[i] \in Seq(S) /\ Range(f[i]) = Upto(i))}
<1>8. T \subseteq 1..n /\ T \subseteq Nat
  BY <1>1
<1>5. T = {}
  <2>. SUFFICES ASSUME T # {} PROVE FALSE
    OBVIOUS
  <2>. HIDE DEF T
  <2>1. PICK k \in T : \A m \in T : k <= m
    BY <1>8, LeastNumber
  <2>2. CASE k = 1
    <3>1. f[k] = seqs[k] /\ f[k] \in Seq(S)
      BY <1>1, <1>4, <1>8, <2>1, <2>2
    <3>2. Upto(1) = Range(seqs[1])
      BY <1>1
    <3>. QED
      BY <2>1, <2>2, <3>1, <3>2 DEF T
  <2>3. CASE k # 1
    <3>1. k - 1 \in 1..n /\ k - 1 \notin T /\ k \in 1..n
      BY <1>1, <1>8, <2>1, <2>3
    <3>2. f[k - 1] \in Seq(S) /\ Range(f[k - 1]) = Upto(k - 1)
      BY <3>1 DEF T
    <3>3. f[k] = f[k - 1] \o seqs[k] /\ seqs[k] \in Seq(S)
      BY <1>1, <1>4, <2>3, <3>1
    <3>4. f[k] \in Seq(S)
      BY <3>2, <3>3
    <3>5. Range(f[k - 1] \o seqs[k]) = Range(f[k - 1]) \cup Range(seqs[k])
      BY <3>2, <3>3, RangeConcat
    <3>6. Upto(k) = Upto(k - 1) \cup Range(seqs[k])
      <4>1. 1..k = 1..(k - 1) \cup {k}
        BY <3>1
      <4>. QED
        BY <4>1
    <3>. QED
      BY <2>1, <3>2, <3>3, <3>4, <3>5, <3>6 DEF T
  <2>. QED
    BY <2>2, <2>3
<1>6. CASE n = 0
  <2>1. seqs = << >> /\ FlattenSeq(seqs) = << >>
    BY <1>6 DEF FlattenSeq, n
  <2>2. DOMAIN seqs = {}
    BY <1>1, <1>6
  <2>3. Range(FlattenSeq(seqs)) = {}
    BY <2>1, <2>2 DEF Range
  <2>4. UNION {Range(seqs[i]) : i \in DOMAIN seqs} = {}
    BY <2>2
  <2>5. << >> \in Seq(S)
    OBVIOUS
  <2>. QED
    BY <2>1, <2>3, <2>4, <2>5
<1>7. CASE n # 0
  <2>. HIDE DEF T
  <2>1. n \in 1..n /\ n \notin T
    BY <1>1, <1>5, <1>7
  <2>. QED
    BY <1>1, <1>3, <1>7, <2>1 DEF T
<1>. QED
  BY <1>6, <1>7

-----------------------------------------------------------------------------
(* Sequences joined, and what is flattened *)

\* a \o b under a name that the provers do not look into.
Cat(a, b) == a \o b

\* It does not matter in which order three sequences are joined.
LEMMA CatAssociates ==
  ASSUME NEW S, NEW a \in Seq(S), NEW b \in Seq(S), NEW c \in Seq(S)
  PROVE  Cat(Cat(a, b), c) = Cat(a, Cat(b, c))
<1>. DEFINE l == (a \o b) \o c
            r == a \o (b \o c)
<1>1. l \in Seq(S) /\ r \in Seq(S) /\ Len(l) = Len(r) /\ DOMAIN l = DOMAIN r
  OBVIOUS
<1>2. \A i \in DOMAIN l : l[i] = r[i]
  OBVIOUS
<1>. HIDE DEF l, r
<1>3. l = [i \in 1..Len(l) |-> l[i]] /\ r = [i \in 1..Len(r) |-> r[i]]
  BY <1>1
<1>4. l = r
  BY <1>1, <1>2, <1>3
<1>. QED
  BY <1>4 DEF l, r, Cat

\* What joins sequences is a sequence, and the empty one adds nothing.
LEMMA CatFacts ==
  ASSUME NEW S, NEW a \in Seq(S), NEW b \in Seq(S)
  PROVE  /\ Cat(a, b) \in Seq(S)
         /\ Cat(a, << >>) = a /\ Cat(<< >>, a) = a
BY DEF Cat

\* The sequences are joined one after the other.
LEMMA FlattenUnrolled ==
  ASSUME NEW S, NEW seqs \in Seq(Seq(S))
  PROVE  \E f \in [0..Len(seqs) -> Seq(S)] :
           /\ f[0] = << >>
           /\ \A i \in 1..Len(seqs) : f[i] = Cat(f[i - 1], seqs[i])
           /\ FlattenSeq(seqs) = f[Len(seqs)]
<1>. DEFINE n == Len(seqs)
            f == CHOOSE g : Flattens(g, seqs, n)
<1>1. n \in Nat /\ DOMAIN seqs = 1..n /\ \A i \in 1..n : seqs[i] \in Seq(S)
  OBVIOUS
<1>2. Flattens(f, seqs, n)
  BY <1>1, FlattenExists
<1>3. FlattenSeq(seqs) = IF n = 0 THEN << >> ELSE f[n]
  <2>1. n = 0 => seqs = << >>
    OBVIOUS
  <2>. QED
    BY <2>1 DEF FlattenSeq, Flattens
<1>. HIDE DEF n, f
<1>4. \A i \in 1..n : f[i] = IF i = 1 THEN seqs[i] ELSE f[i - 1] \o seqs[i]
  BY <1>1, <1>2 DEF Flattens
<1>. DEFINE r == [i \in 0..n |-> IF i = 0 THEN << >> ELSE f[i]]
            T == {i \in 0..n : r[i] \in Seq(S)}
<1>5. ASSUME NEW k \in 1..n, r[k - 1] \in Seq(S)
      PROVE  r[k] = Cat(r[k - 1], seqs[k]) /\ r[k] \in Seq(S)
  <2>1. seqs[k] \in Seq(S) /\ k \in 0..n /\ k - 1 \in 0..n
    BY <1>1
  <2>2. CASE k = 1
    <3>1. r[k] = seqs[k] /\ r[k - 1] = << >>
      BY <1>1, <1>4, <2>1, <2>2
    <3>. HIDE DEF r
    <3>2. Cat(<< >>, seqs[k]) = seqs[k]
      BY <2>1, CatFacts
    <3>. QED
      BY <2>1, <3>1, <3>2
  <2>3. CASE k # 1
    <3>1. k - 1 # 0 /\ k # 0
      BY <1>1, <2>3
    <3>2. r[k] = f[k] /\ r[k - 1] = f[k - 1]
      BY <2>1, <3>1
    <3>3. f[k] = Cat(f[k - 1], seqs[k])
      BY <1>4, <2>3 DEF Cat
    <3>. HIDE DEF r
    <3>4. r[k] = Cat(r[k - 1], seqs[k])
      BY <3>2, <3>3
    <3>. QED
      BY <1>5, <2>1, <3>4, CatFacts
  <2>. QED
    BY <2>2, <2>3
<1>6. r[0] = << >>
  BY <1>1
<1>7. FlattenSeq(seqs) = r[n]
  BY <1>1, <1>3
<1>8. DOMAIN r = 0..n /\ r = [i \in 0..n |-> r[i]]
  OBVIOUS
<1>. HIDE DEF r
<1>9. ASSUME NEW k \in 0..n PROVE r[k] \in Seq(S)
  <2>1. k \in Nat
    BY <1>1
  <2>2. 0 \in T
    <3>1. << >> \in Seq(S) /\ 0 \in 0..n
      BY <1>1
    <3>. QED
      BY <1>6, <3>1
  <2>3. \A j \in 1..k : j - 1 \in T => j \in T
    BY <1>1, <1>5
  <2>. HIDE DEF T
  <2>4. k \in T
    BY ONLY <2>1, <2>2, <2>3, StepByStep
  <2>. QED
    BY <2>4 DEF T
<1>10. \A k \in 1..n : r[k] = Cat(r[k - 1], seqs[k])
  <2>1. \A k \in 1..n : k - 1 \in 0..n
    BY <1>1
  <2>. QED
    BY <1>5, <1>9, <2>1
<1>11. r \in [0..n -> Seq(S)]
  BY <1>8, <1>9
<1>. QED
  BY <1>6, <1>7, <1>10, <1>11 DEF n

\* Nothing gets between what two sequences of sequences hold.
LEMMA FlattenConcat ==
  ASSUME NEW S, NEW a \in Seq(Seq(S)), NEW b \in Seq(Seq(S))
  PROVE  FlattenSeq(Cat(a, b)) = Cat(FlattenSeq(a), FlattenSeq(b))
<1>. DEFINE c == Cat(a, b)
            m == Len(a)
            n == Len(b)
<1>1. /\ c \in Seq(Seq(S)) /\ Len(c) = m + n /\ m \in Nat /\ n \in Nat
      /\ \A i \in 1..m : c[i] = a[i]
      /\ \A i \in 1..n : c[m + i] = b[i] /\ b[i] \in Seq(S)
  BY DEF Cat
<1>. HIDE DEF c, m, n
<1>2. PICK f \in [0..m -> Seq(S)] :
        f[0] = << >> /\ (\A i \in 1..m : f[i] = Cat(f[i - 1], a[i])) /\ FlattenSeq(a) = f[m]
  BY FlattenUnrolled DEF m
<1>3. PICK g \in [0..n -> Seq(S)] :
        g[0] = << >> /\ (\A i \in 1..n : g[i] = Cat(g[i - 1], b[i])) /\ FlattenSeq(b) = g[n]
  BY FlattenUnrolled DEF n
<1>4. PICK h \in [0..Len(c) -> Seq(S)] :
        h[0] = << >> /\ (\A i \in 1..Len(c) : h[i] = Cat(h[i - 1], c[i])) /\ FlattenSeq(c) = h[Len(c)]
  BY <1>1, FlattenUnrolled
<1>5. h[m] = f[m]
  <2>. DEFINE T == {i \in 0..m : h[i] = f[i]}
  <2>1. 0 \in T
    BY <1>1, <1>2, <1>4
  <2>2. \A k \in 1..m : k - 1 \in T => k \in T
    <3>1. \A k \in 1..m : k \in 1..Len(c) /\ k \in 0..m /\ k - 1 \in 0..m
      BY <1>1
    <3>. QED
      BY <1>1, <1>2, <1>4, <3>1
  <2>. HIDE DEF T
  <2>3. m \in T
    BY ONLY <1>1, <2>1, <2>2, StepByStep
  <2>. QED
    BY <2>3 DEF T
<1>6. h[m + n] = Cat(f[m], g[n])
  <2>. DEFINE T == {i \in 0..n : h[m + i] = Cat(f[m], g[i])}
  <2>0. f[m] \in Seq(S) /\ \A i \in 0..n : g[i] \in Seq(S)
    BY <1>1, <1>2, <1>3
  <2>1. 0 \in T
    <3>1. Cat(f[m], << >>) = f[m]
      BY <2>0, CatFacts
    <3>. QED
      BY <1>1, <1>3, <1>5, <3>1
  <2>2. ASSUME NEW k \in 1..n, k - 1 \in T PROVE k \in T
    <3>1. m + k \in 1..Len(c) /\ k \in 0..n /\ k - 1 \in 0..n /\ (m + k) - 1 = m + (k - 1)
      BY <1>1
    <3>2. h[m + k] = Cat(h[m + (k - 1)], b[k])
      BY <1>1, <1>4, <3>1
    <3>3. h[m + (k - 1)] = Cat(f[m], g[k - 1])
      BY <2>2
    <3>6. f[m] \in Seq(S) /\ g[k - 1] \in Seq(S) /\ b[k] \in Seq(S)
      BY <1>1, <2>0, <3>1
    <3>4. Cat(Cat(f[m], g[k - 1]), b[k]) = Cat(f[m], Cat(g[k - 1], b[k]))
      BY <3>6, CatAssociates
    <3>5. g[k] = Cat(g[k - 1], b[k])
      BY <1>3
    <3>. QED
      BY <3>1, <3>2, <3>3, <3>4, <3>5
  <2>. HIDE DEF T
  <2>3. n \in T
    BY ONLY <1>1, <2>1, <2>2, StepByStep
  <2>. QED
    BY <2>3 DEF T
<1>. QED
  BY <1>1, <1>2, <1>3, <1>4, <1>6 DEF c

\* A single sequence, or none.
LEMMA FlattenFew ==
  ASSUME NEW S, NEW s \in Seq(S)
  PROVE  FlattenSeq(<<s>>) = s /\ FlattenSeq(<< >>) = << >>
<1>1. <<s>> \in Seq(Seq(S)) /\ Len(<<s>>) = 1 /\ <<s>>[1] = s
  OBVIOUS
<1>2. PICK f \in [0..1 -> Seq(S)] :
        f[0] = << >> /\ (\A i \in 1..1 : f[i] = Cat(f[i - 1], <<s>>[i])) /\ FlattenSeq(<<s>>) = f[1]
  BY <1>1, FlattenUnrolled
<1>3. f[1] = Cat(f[0], s)
  BY <1>1, <1>2
<1>4. f[1] = s
  BY <1>2, <1>3, CatFacts
<1>5. FlattenSeq(<< >>) = << >>
  BY DEF FlattenSeq
<1>. QED
  BY <1>2, <1>4, <1>5

\* One more sequence.
LEMMA FlattenAppend ==
  ASSUME NEW S, NEW seqs \in Seq(Seq(S)), NEW s \in Seq(S)
  PROVE  FlattenSeq(Append(seqs, s)) = Cat(FlattenSeq(seqs), s)
<1>1. Append(seqs, s) = Cat(seqs, <<s>>) /\ <<s>> \in Seq(Seq(S))
  BY DEF Cat
<1>2. FlattenSeq(Cat(seqs, <<s>>)) = Cat(FlattenSeq(seqs), FlattenSeq(<<s>>))
  BY <1>1, FlattenConcat
<1>3. FlattenSeq(<<s>>) = s
  BY FlattenFew
<1>. QED
  BY <1>1, <1>2, <1>3

\* What is joined to the end of a sequence is a suffix.
LEMMA ConcatSuffix ==
  ASSUME NEW S, NEW a \in Seq(S), NEW b \in Seq(S)
  PROVE  IsSuffix(b, Cat(a, b))
<1>. DEFINE c == a \o b
            m == Len(a)
            n == Len(b)
            x == Reverse(b)
            y == Reverse(c)
<1>1. /\ c \in Seq(S) /\ Len(c) = m + n /\ m \in Nat /\ n \in Nat
      /\ \A i \in 1..n : c[m + i] = b[i] /\ b[i] \in S
      /\ \A i \in 1..(m + n) : c[i] \in S
  OBVIOUS
<1>2. DOMAIN x = 1..n /\ \A i \in 1..n : x[i] = b[(n - i) + 1]
  BY DEF Reverse
<1>3. x \in Seq(S)
  BY ReverseFacts
<1>. HIDE DEF c, m, n, x
<1>4. DOMAIN y = 1..(m + n) /\ \A i \in 1..(m + n) : y[i] = c[((m + n) - i) + 1]
  BY <1>1 DEF Reverse
<1>5. y \in Seq(S)
  BY <1>1, ReverseFacts
<1>. HIDE DEF y
<1>6. Len(x) = n /\ Len(y) = m + n
  BY <1>1, <1>2, <1>3, <1>4, <1>5
<1>7. \A i \in 1..n : y[i] = x[i]
  <2>. SUFFICES ASSUME NEW i \in 1..n PROVE y[i] = x[i]
    OBVIOUS
  <2>1. /\ i \in 1..(m + n) /\ (n - i) + 1 \in 1..n
        /\ ((m + n) - i) + 1 = m + ((n - i) + 1)
    BY <1>1
  <2>. QED
    BY <1>1, <1>2, <1>4, <2>1
<1>8. SubSeq(x, 1, n) = [i \in 1..n |-> x[i]] /\ SubSeq(y, 1, n) = [i \in 1..n |-> y[i]]
  BY <1>1, <1>3, <1>5, <1>6
<1>9. SubSeq(x, 1, n) = SubSeq(y, 1, n)
  BY <1>7, <1>8
<1>. QED
  BY <1>1, <1>6, <1>9 DEF IsSuffix, IsPrefix, Cat, c, x, y

\* Sequences with the same elements are the same.
LEMMA SameSequence ==
  ASSUME NEW S, NEW a \in Seq(S), NEW b \in Seq(S), Len(a) = Len(b),
         \A i \in 1..Len(a) : a[i] = b[i]
  PROVE  a = b
<1>1. a = [i \in 1..Len(a) |-> a[i]] /\ b = [i \in 1..Len(b) |-> b[i]]
  OBVIOUS
<1>. QED
  BY <1>1

\* The elements of one sequence after those of another.
LEMMA CatValues ==
  ASSUME NEW S, NEW a \in Seq(S), NEW b \in Seq(S)
  PROVE  /\ Cat(a, b) \in Seq(S) /\ Len(Cat(a, b)) = Len(a) + Len(b)
         /\ \A i \in 1..(Len(a) + Len(b)) :
              Cat(a, b)[i] = IF i <= Len(a) THEN a[i] ELSE b[i - Len(a)]
<1>. DEFINE c == a \o b
<1>1. /\ c \in Seq(S) /\ Len(c) = Len(a) + Len(b) /\ Len(a) \in Nat /\ Len(b) \in Nat
      /\ \A i \in 1..Len(a) : c[i] = a[i]
      /\ \A i \in (Len(a) + 1)..(Len(a) + Len(b)) : c[i] = b[i - Len(a)]
  OBVIOUS
<1>. HIDE DEF c
<1>2. \A i \in 1..(Len(a) + Len(b)) :
        IF i <= Len(a) THEN i \in 1..Len(a) ELSE i \in (Len(a) + 1)..(Len(a) + Len(b))
  BY <1>1
<1>3. \A i \in 1..(Len(a) + Len(b)) : c[i] = IF i <= Len(a) THEN a[i] ELSE b[i - Len(a)]
  BY <1>1, <1>2
<1>. QED
  BY <1>1, <1>3 DEF Cat, c

\* The first k elements and the rest.
LEMMA SplitFacts ==
  ASSUME NEW S, NEW s \in Seq(S), NEW k \in 0..Len(s)
  PROVE  /\ SubSeq(s, 1, k) \in Seq(S) /\ SubSeq(s, k + 1, Len(s)) \in Seq(S)
         /\ Len(SubSeq(s, 1, k)) = k /\ Len(SubSeq(s, k + 1, Len(s))) = Len(s) - k
         /\ \A i \in 1..k : SubSeq(s, 1, k)[i] = s[i]
         /\ \A i \in 1..(Len(s) - k) : SubSeq(s, k + 1, Len(s))[i] = s[k + i]
         /\ s = Cat(SubSeq(s, 1, k), SubSeq(s, k + 1, Len(s)))
<1>. DEFINE n == Len(s)
            a == SubSeq(s, 1, k)
            b == SubSeq(s, k + 1, n)
            c == Cat(a, b)
<1>1. n \in Nat /\ k \in 0..n /\ k \in Nat /\ s = [i \in 1..n |-> s[i]]
  OBVIOUS
<1>2. a \in Seq(S) /\ Len(a) = k /\ \A i \in 1..k : a[i] = s[i]
  OBVIOUS
<1>3. b \in Seq(S) /\ Len(b) = n - k /\ \A i \in 1..(n - k) : b[i] = s[k + i]
  OBVIOUS
<1>. HIDE DEF n, a, b
<1>4. /\ c \in Seq(S) /\ Len(c) = k + (n - k)
      /\ \A i \in 1..(k + (n - k)) : c[i] = IF i <= k THEN a[i] ELSE b[i - k]
  <2>1. a \in Seq(S) /\ b \in Seq(S)
    BY <1>2, <1>3
  <2>2. /\ c \in Seq(S) /\ Len(c) = Len(a) + Len(b)
        /\ \A i \in 1..(Len(a) + Len(b)) : c[i] = IF i <= Len(a) THEN a[i] ELSE b[i - Len(a)]
    BY <2>1, CatValues
  <2>. HIDE DEF c
  <2>. QED
    BY <1>2, <1>3, <2>2
<1>. HIDE DEF c
<1>5. \A i \in 1..n : s[i] = c[i]
  <2>. SUFFICES ASSUME NEW i \in 1..n PROVE s[i] = c[i]
    OBVIOUS
  <2>0. i \in 1..(k + (n - k))
    BY <1>1
  <2>1. CASE i <= k
    <3>1. i \in 1..k
      BY <1>1, <2>1
    <3>. QED
      BY <1>2, <1>4, <2>0, <2>1, <3>1
  <2>2. CASE ~ (i <= k)
    <3>1. i - k \in 1..(n - k) /\ k + (i - k) = i
      BY <1>1, <2>2
    <3>. QED
      BY <1>3, <1>4, <2>0, <2>2, <3>1
  <2>. QED
    BY <2>1, <2>2
<1>6. s = c
  <2>1. Len(s) = n /\ Len(c) = n
    BY <1>1, <1>4 DEF n
  <2>. QED
    BY <1>4, <1>5, <2>1, SameSequence
<1>. QED
  BY <1>2, <1>3, <1>6 DEF n, a, b, c

\* An element among others, and what is there when it is replaced.
LEMMA Replaced ==
  ASSUME NEW S, NEW s \in Seq(S), NEW k \in 1..Len(s)
  PROVE  \E a, b \in Seq(S) :
           /\ \A e \in S : [s EXCEPT ![k] = e] = Cat(Cat(a, <<e>>), b)
           /\ s = Cat(Cat(a, <<s[k]>>), b)
<1>. DEFINE n == Len(s)
            a == SubSeq(s, 1, k - 1)
            b == SubSeq(s, k + 1, n)
<1>1. n \in Nat /\ k \in 1..n /\ k \in Nat /\ k - 1 \in 0..n /\ k \in 0..n /\ s[k] \in S
  OBVIOUS
<1>2. a \in Seq(S) /\ Len(a) = k - 1 /\ \A i \in 1..(k - 1) : a[i] = s[i]
  BY <1>1, SplitFacts
<1>3. b \in Seq(S) /\ Len(b) = n - k /\ \A i \in 1..(n - k) : b[i] = s[k + i]
  BY <1>1, SplitFacts
<1>. HIDE DEF a, b
<1>4. ASSUME NEW e \in S PROVE [s EXCEPT ![k] = e] = Cat(Cat(a, <<e>>), b)
  <2>. DEFINE r == [s EXCEPT ![k] = e]
              c == Cat(a, <<e>>)
              d == Cat(c, b)
  <2>1. r \in Seq(S) /\ Len(r) = n /\ \A i \in 1..n : r[i] = IF i = k THEN e ELSE s[i]
    OBVIOUS
  <2>2. <<e>> \in Seq(S) /\ Len(<<e>>) = 1 /\ <<e>>[1] = e
    OBVIOUS
  <2>3. /\ c \in Seq(S) /\ Len(c) = k
        /\ \A i \in 1..k : c[i] = IF i <= k - 1 THEN a[i] ELSE <<e>>[i - (k - 1)]
    <3>1. /\ Cat(a, <<e>>) \in Seq(S) /\ Len(Cat(a, <<e>>)) = Len(a) + Len(<<e>>)
          /\ \A i \in 1..(Len(a) + Len(<<e>>)) :
               Cat(a, <<e>>)[i] = IF i <= Len(a) THEN a[i] ELSE <<e>>[i - Len(a)]
      BY <1>2, <2>2, CatValues
    <3>2. Len(a) + Len(<<e>>) = k
      BY <1>1, <1>2, <2>2
    <3>. QED
      BY <1>2, <3>1, <3>2
  <2>. HIDE DEF c
  <2>4. /\ d \in Seq(S) /\ Len(d) = n
        /\ \A i \in 1..n : d[i] = IF i <= k THEN c[i] ELSE b[i - k]
    <3>1. /\ d \in Seq(S) /\ Len(d) = Len(c) + Len(b)
          /\ \A i \in 1..(Len(c) + Len(b)) : d[i] = IF i <= Len(c) THEN c[i] ELSE b[i - Len(c)]
      BY <1>3, <2>3, CatValues
    <3>2. Len(c) + Len(b) = n
      BY <1>1, <1>3, <2>3
    <3>. HIDE DEF d
    <3>. QED
      BY <2>3, <3>1, <3>2
  <2>. HIDE DEF d, r
  <2>5. ASSUME NEW i \in 1..n PROVE r[i] = d[i]
    <3>1. CASE i <= k - 1
      <4>1. i \in 1..k /\ i \in 1..(k - 1) /\ i # k /\ i <= k
        BY <1>1, <3>1
      <4>. QED
        BY <1>2, <2>1, <2>3, <2>4, <3>1, <4>1
    <3>2. CASE i = k
      <4>1. i \in 1..k /\ i <= k /\ ~ (i <= k - 1) /\ i - (k - 1) = 1
        BY <1>1, <3>2
      <4>2. c[i] = e
        BY <2>2, <2>3, <4>1
      <4>. QED
        BY <2>1, <2>4, <3>2, <4>1, <4>2
    <3>3. CASE i > k
      <4>1. ~ (i <= k) /\ i - k \in 1..(n - k) /\ k + (i - k) = i /\ i # k
        BY <1>1, <3>3
      <4>. QED
        BY <1>3, <2>1, <2>4, <4>1
    <3>. QED
      BY <1>1, <3>1, <3>2, <3>3
  <2>6. r = d
    BY <2>1, <2>4, <2>5, SameSequence
  <2>. QED
    BY <2>6 DEF r, d, c
<1>5. [s EXCEPT ![k] = s[k]] = s
  OBVIOUS
<1>6. s = Cat(Cat(a, <<s[k]>>), b)
  BY <1>1, <1>4, <1>5
<1>. QED
  BY <1>2, <1>3, <1>4, <1>6

\* What comes before three sequences comes before the first of them.
LEMMA CatInside ==
  ASSUME NEW S, NEW t \in Seq(S), NEW a \in Seq(S), NEW s \in Seq(S), NEW b \in Seq(S)
  PROVE  Cat(t, Cat(Cat(a, s), b)) = Cat(Cat(Cat(t, a), s), b)
<1>. DEFINE x == Cat(a, s)
<1>1. Cat(t, x) = Cat(Cat(t, a), s)
  BY CatAssociates
<1>2. x \in Seq(S)
  BY CatFacts
<1>. HIDE DEF x
<1>3. Cat(t, Cat(x, b)) = Cat(Cat(t, x), b)
  BY <1>2, CatAssociates
<1>. QED
  BY <1>1, <1>3 DEF x

\* The elements of two sequences one after the other.
Both(d, a, b) ==
  /\ Len(d) = Len(a) + Len(b)
  /\ \A i \in 1..Len(a) : d[i] = a[i]
  /\ \A i \in 1..Len(b) : d[Len(a) + i] = b[i]

\* They are the parts of the two joined.
LEMMA TwoParts ==
  ASSUME NEW S, NEW a \in Seq(S), NEW b \in Seq(S)
  PROVE  Cat(a, b) \in Seq(S) /\ Both(Cat(a, b), a, b)
<1>. DEFINE c == a \o b
<1>1. /\ c \in Seq(S) /\ Len(c) = Len(a) + Len(b) /\ Len(a) \in Nat /\ Len(b) \in Nat
      /\ \A i \in 1..Len(a) : c[i] = a[i]
      /\ \A i \in 1..Len(b) : c[Len(a) + i] = b[i]
  OBVIOUS
<1>. QED
  BY <1>1 DEF Both, Cat

\* The elements of three sequences one after the other.
Parts(d, a, b, c) ==
  /\ Len(d) = Len(a) + Len(b) + Len(c)
  /\ Len(a) \in Nat /\ Len(b) \in Nat /\ Len(c) \in Nat
  /\ \A i \in 1..Len(a) : d[i] = a[i]
  /\ \A i \in 1..Len(b) : d[Len(a) + i] = b[i]
  /\ \A i \in 1..Len(c) : d[Len(a) + Len(b) + i] = c[i]

\* They are the parts of the three joined.
LEMMA ThreeParts ==
  ASSUME NEW S, NEW a \in Seq(S), NEW b \in Seq(S), NEW c \in Seq(S)
  PROVE  Cat(Cat(a, b), c) \in Seq(S) /\ Parts(Cat(Cat(a, b), c), a, b, c)
<1>. DEFINE x == Cat(a, b)
            d == Cat(x, c)
<1>0. Len(a) \in Nat /\ Len(b) \in Nat /\ Len(c) \in Nat
  OBVIOUS
<1>1. /\ x \in Seq(S) /\ Len(x) = Len(a) + Len(b)
      /\ \A i \in 1..(Len(a) + Len(b)) : x[i] = IF i <= Len(a) THEN a[i] ELSE b[i - Len(a)]
  BY CatValues
<1>. HIDE DEF x
<1>2. /\ d \in Seq(S) /\ Len(d) = Len(x) + Len(c)
      /\ \A i \in 1..(Len(x) + Len(c)) : d[i] = IF i <= Len(x) THEN x[i] ELSE c[i - Len(x)]
  <2>1. x \in Seq(S) /\ c \in Seq(S)
    BY <1>1
  <2>. HIDE DEF d
  <2>2. d = Cat(x, c)
    BY DEF d
  <2>. QED
    BY ONLY <2>1, <2>2, CatValues
<1>. HIDE DEF d
<1>3. ASSUME NEW i \in 1..Len(a) PROVE d[i] = a[i]
  <2>0. i \in 1..Len(a)
    OBVIOUS
  <2>1. /\ i \in 1..(Len(x) + Len(c)) /\ i <= Len(x) /\ i <= Len(a)
        /\ i \in 1..(Len(a) + Len(b))
    BY <1>0, <1>1
  <2>. QED
    BY <1>1, <1>2, <2>1
<1>4. ASSUME NEW i \in 1..Len(b) PROVE d[Len(a) + i] = b[i]
  <2>. DEFINE k == Len(a) + i
  <2>1. /\ k \in 1..(Len(x) + Len(c)) /\ k <= Len(x) /\ ~ (k <= Len(a))
        /\ k \in 1..(Len(a) + Len(b)) /\ k - Len(a) = i
    BY <1>0, <1>1
  <2>. HIDE DEF k
  <2>2. d[k] = b[i]
    BY <1>1, <1>2, <2>1
  <2>. QED
    BY <2>2 DEF k
<1>5. ASSUME NEW i \in 1..Len(c) PROVE d[Len(a) + Len(b) + i] = c[i]
  <2>. DEFINE k == Len(a) + Len(b) + i
  <2>1. k \in 1..(Len(x) + Len(c)) /\ ~ (k <= Len(x)) /\ k - Len(x) = i
    BY <1>0, <1>1
  <2>. HIDE DEF k
  <2>2. d[k] = c[i]
    BY <1>2, <2>1
  <2>. QED
    BY <2>2 DEF k
<1>6. Len(d) = Len(a) + Len(b) + Len(c)
  BY <1>0, <1>1, <1>2
<1>7. Parts(d, a, b, c)
  BY <1>0, <1>3, <1>4, <1>5, <1>6 DEF Parts
<1>. QED
  BY <1>2, <1>7 DEF d, x

-----------------------------------------------------------------------------
(* Least, greatest, and the folds of the community modules *)

\* Largest and smallest of a bounded set of numbers.
LEMMA GreatestNumber ==
  ASSUME NEW n \in Nat, NEW T, T \subseteq 0..n, T # {}
  PROVE  Max(T) \in T /\ \A m \in T : m <= Max(T)
<1>. DEFINE U == {n - m : m \in T}
<1>1. U \subseteq Nat /\ U # {}
  <2>1. \A m \in T : n - m \in Nat
    OBVIOUS
  <2>. QED
    BY <2>1
<1>. HIDE DEF U
<1>2. PICK k \in U : \A m \in U : k <= m
  BY <1>1, LeastNumber
<1>3. PICK m \in T : k = n - m
  BY <1>2 DEF U
<1>4. \A j \in T : n - m <= n - j
  BY <1>2, <1>3 DEF U
<1>5. \A j \in T : m >= j
  BY <1>4
<1>6. Max(T) \in T /\ \A j \in T : Max(T) >= j
  BY <1>5 DEF Max
<1>. QED
  BY <1>6

LEMMA SmallestNumber ==
  ASSUME NEW T, T \subseteq Nat, T # {}
  PROVE  Min(T) \in T /\ \A m \in T : Min(T) <= m
BY LeastNumber DEF Min

\* The folds of the community modules are recursive functions on sets: f takes a
\* set of the first n steps to what they make of a, one step after the other.
FoldsTo(f, X, a, step, n) ==
  /\ f \in [SUBSET (1..n) -> X]
  /\ \A S \in SUBSET (1..n) :
       f[S] = IF S = {} THEN a ELSE step[Max(S)][f[S \ {Max(S)}]]

LEMMA FoldExists ==
  ASSUME NEW n \in Nat, NEW X, NEW a \in X, NEW step \in [1..n -> [X -> X]]
  PROVE  \E f : FoldsTo(f, X, a, step, n)
<1>. DEFINE T == {k \in 0..n : ~ \E f : FoldsTo(f, X, a, step, k)}
<1>0. T \subseteq Nat /\ T \subseteq 0..n
  <2>1. \A k \in T : k \in 0..n
    OBVIOUS
  <2>. HIDE DEF T
  <2>. QED
    BY <2>1
<1>. SUFFICES ASSUME n \in T PROVE FALSE
  <2>1. n \in 0..n
    OBVIOUS
  <2>. QED
    BY <2>1
<1>. HIDE DEF T
<1>1. PICK k \in T : \A m \in T : k <= m
  BY <1>0, LeastNumber
<1>2. k # 0
  <2>. DEFINE e == [S \in SUBSET (1..0) |-> a]
  <2>1. FoldsTo(e, X, a, step, 0)
    BY DEF FoldsTo
  <2>. HIDE DEF e
  <2>2. 0 \notin T
    BY <2>1 DEF T
  <2>. QED
    BY <1>1, <2>2
<1>3. k \in 1..n /\ k - 1 \in 0..n /\ k - 1 \notin T
  BY <1>0, <1>1, <1>2
<1>4. PICK f : FoldsTo(f, X, a, step, k - 1)
  BY <1>3 DEF T
<1>. DEFINE g == [S \in SUBSET (1..k) |-> IF k \in S THEN step[k][f[S \ {k}]] ELSE f[S]]
<1>5. /\ f \in [SUBSET (1..(k - 1)) -> X]
      /\ \A S \in SUBSET (1..(k - 1)) :
           f[S] = IF S = {} THEN a ELSE step[Max(S)][f[S \ {Max(S)}]]
  BY <1>4 DEF FoldsTo
<1>6. \A S \in SUBSET (1..k) : S \ {k} \in SUBSET (1..(k - 1)) /\ (k \notin S => S \in SUBSET (1..(k - 1)))
  BY <1>3
<1>7. step[k] \in [X -> X]
  BY <1>3
<1>8. g \in [SUBSET (1..k) -> X]
  BY <1>5, <1>6, <1>7
<1>9. \A S \in SUBSET (1..k) : g[S] = IF k \in S THEN step[k][f[S \ {k}]] ELSE f[S]
  OBVIOUS
<1>. HIDE DEF g
<1>10. ASSUME NEW S \in SUBSET (1..k)
       PROVE  g[S] = IF S = {} THEN a ELSE step[Max(S)][g[S \ {Max(S)}]]
  <2>1. CASE k \in S
    <3>1. Max(S) \in S /\ \A m \in S : m <= Max(S)
      <4>1. S \subseteq 0..k /\ k \in Nat
        BY <1>3
      <4>. QED
        BY <2>1, <4>1, GreatestNumber
    <3>2. Max(S) = k
      <4>1. Max(S) \in 1..k /\ k <= Max(S)
        BY <2>1, <3>1
      <4>. QED
        BY <1>3, <4>1
    <3>3. S \ {k} \in SUBSET (1..k) /\ g[S \ {k}] = f[S \ {k}]
      BY <1>6, <1>9
    <3>. QED
      BY <1>9, <2>1, <3>2, <3>3
  <2>2. CASE k \notin S
    <3>1. S \in SUBSET (1..(k - 1)) /\ g[S] = f[S]
      BY <1>6, <1>9, <2>2
    <3>2. S \ {Max(S)} \in SUBSET (1..k) /\ k \notin S \ {Max(S)}
      BY <2>2
    <3>3. g[S \ {Max(S)}] = f[S \ {Max(S)}]
      BY <1>9, <3>2
    <3>. QED
      BY <1>5, <3>1, <3>3
  <2>. QED
    BY <2>1, <2>2
<1>11. FoldsTo(g, X, a, step, k)
  BY <1>8, <1>10 DEF FoldsTo
<1>. QED
  BY <1>1, <1>11 DEF T

\* What every step keeps, the fold has.
LEMMA FoldKeeps ==
  ASSUME NEW n \in Nat, NEW X, NEW f, f[{}] \in X,
         \A k \in 1..n : f[1..(k - 1)] \in X => f[1..k] \in X
  PROVE  f[1..n] \in X
<1>. DEFINE T == {k \in 0..n : f[1..k] \notin X}
<1>1. T \subseteq Nat /\ T \subseteq 0..n
  OBVIOUS
<1>2. T = {}
  <2>. SUFFICES ASSUME T # {} PROVE FALSE
    OBVIOUS
  <2>. HIDE DEF T
  <2>1. PICK k \in T : \A m \in T : k <= m
    BY <1>1, LeastNumber
  <2>2. CASE k = 0
    <3>1. 1..0 = {}
      OBVIOUS
    <3>. QED
      BY <2>1, <2>2, <3>1 DEF T
  <2>3. CASE k # 0
    <3>1. k \in 1..n /\ k - 1 \in 0..n /\ k - 1 \notin T
      BY <1>1, <2>1, <2>3
    <3>. QED
      BY <2>1, <3>1 DEF T
  <2>. QED
    BY <2>2, <2>3
<1>. QED
  BY <1>2

\* The last step of a fold.
LEMMA LastOfMany ==
  ASSUME NEW k \in Nat \ {0}
  PROVE  1..k # {} /\ Max(1..k) = k /\ (1..k) \ {k} = 1..(k - 1)
<1>1. Max(1..k) \in 1..k /\ \A m \in 1..k : m <= Max(1..k)
  <2>1. 1..k \subseteq 0..k /\ 1..k # {}
    OBVIOUS
  <2>. QED
    BY <2>1, GreatestNumber
<1>. QED
  BY <1>1

\* The same of an f whose values are not known to be in X.
FoldsOn(f, X, a, step, n) ==
  /\ a \in X /\ f[{}] = a /\ step \in [1..n -> [X -> X]]
  /\ \A S \in SUBSET (1..n) :
       S # {} /\ f[S \ {Max(S)}] \in X => f[S] = step[Max(S)][f[S \ {Max(S)}]]

\* What such a fold makes of a, said of the first k steps.
LEMMA FoldUnrolled ==
  ASSUME NEW n \in Nat, NEW X, NEW a, NEW step, NEW f, FoldsOn(f, X, a, step, n)
  PROVE  \E r \in [0..n -> X] :
           r[0] = a /\ (\A k \in 1..n : r[k] = step[k][r[k - 1]]) /\ f[1..n] = r[n]
<1>. DEFINE r == [k \in 0..n |-> f[1..k]]
            B == {k \in 0..n : f[1..k] \notin X}
<1>0. a \in X /\ f[{}] = a /\ step \in [1..n -> [X -> X]]
  BY DEF FoldsOn
<1>1. ASSUME NEW k \in 1..n, f[1..(k - 1)] \in X
      PROVE  f[1..k] = step[k][f[1..(k - 1)]] /\ f[1..k] \in X
  <2>1. k \in Nat \ {0} /\ 1..k \in SUBSET (1..n)
    OBVIOUS
  <2>2. 1..k # {} /\ Max(1..k) = k /\ (1..k) \ {k} = 1..(k - 1)
    BY <2>1, LastOfMany
  <2>3. f[1..k] = step[k][f[1..(k - 1)]]
    BY <1>1, <2>1, <2>2 DEF FoldsOn
  <2>. QED
    BY <1>0, <1>1, <2>3
<1>2. 1..0 = {} /\ 0 \in 0..n /\ n \in 0..n
  OBVIOUS
<1>3. B \subseteq Nat
  OBVIOUS
<1>4. B = {}
  <2>. SUFFICES ASSUME B # {} PROVE FALSE
    OBVIOUS
  <2>. HIDE DEF B
  <2>1. PICK k \in B : \A m \in B : k <= m
    BY <1>3, LeastNumber
  <2>2. k \in 0..n /\ f[1..k] \notin X
    BY <2>1 DEF B
  <2>3. k # 0
    BY <1>0, <1>2, <2>2
  <2>4. k - 1 \in 0..n /\ k \in 1..n /\ ~ (k <= k - 1)
    BY <2>2, <2>3
  <2>5. f[1..(k - 1)] \in X
    BY <2>1, <2>4 DEF B
  <2>. QED
    BY <1>1, <2>2, <2>4, <2>5
<1>5. \A k \in 0..n : f[1..k] \in X
  BY <1>4
<1>. HIDE DEF B
<1>6. r \in [0..n -> X] /\ r[0] = a /\ r[n] = f[1..n]
  BY <1>0, <1>2, <1>5
<1>7. ASSUME NEW k \in 1..n PROVE r[k] = step[k][r[k - 1]]
  <2>1. k \in 0..n /\ k - 1 \in 0..n
    OBVIOUS
  <2>2. f[1..k] = step[k][f[1..(k - 1)]]
    BY <1>1, <1>5, <2>1
  <2>. QED
    BY <2>1, <2>2
<1>. HIDE DEF r
<1>. QED
  BY <1>6, <1>7

\* Of two numbers.
LEMMA TwoNumbers ==
  ASSUME NEW a \in Int, NEW b \in Int
  PROVE  /\ Min({a, b}) = IF a <= b THEN a ELSE b
         /\ Max({a, b}) = IF a >= b THEN a ELSE b
<1>. DEFINE lo == IF a <= b THEN a ELSE b
            hi == IF a >= b THEN a ELSE b
<1>1. lo \in {a, b} /\ \A y \in {a, b} : lo <= y
  OBVIOUS
<1>2. \A x \in {a, b} : (\A y \in {a, b} : x <= y) => x = lo
  OBVIOUS
<1>3. hi \in {a, b} /\ \A y \in {a, b} : hi >= y
  OBVIOUS
<1>4. \A x \in {a, b} : (\A y \in {a, b} : x >= y) => x = hi
  OBVIOUS
<1>. HIDE DEF lo, hi
<1>5. Min({a, b}) = lo
  BY <1>1, <1>2 DEF Min
<1>6. Max({a, b}) = hi
  BY <1>3, <1>4 DEF Max
<1>. QED
  BY <1>5, <1>6 DEF lo, hi
=============================================================================
