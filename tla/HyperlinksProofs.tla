-------------------------- MODULE HyperlinksProofs --------------------------
(***************************************************************************)
(* Proofs about Hyperlinks, for every size of the screen and the history   *)
(* and whatever is printed: the references to a special object, counted    *)
(* by hand at each assignment of a cell or a pointer, are all counted. The *)
(* invariant Good is stated of what an operator returns, so that each step *)
(* of a handler has a lemma; the sums are those of the cells of the        *)
(* history, the screen and the other screen that have the object, and of   *)
(* three pointers. Then what links show: the matcher has read the text     *)
(* before the cursor, and a link that was found has cells with characters  *)
(* of its address. What is assumed is that there is an address for a new   *)
(* object (EnoughObjects), as there is for new in the code.                *)
(***************************************************************************)
EXTENDS Hyperlinks, SequenceLemmas, FiniteSetTheorems, TLAPS

-----------------------------------------------------------------------------
(* Cells and rows: how many have an object. *)

\* A pointer to a special object, or to none.
Pointers == Objects \cup {NoObject}

\* The characters there are, and a cell.
Characters == {" "} \cup UNION {Range(word) : word \in Words}

Cells == [c : Characters, so : Pointers]

\* How many references a pointer is.
One(p, o) == IF p = o THEN 1 ELSE 0

\* How many of the first n cells of a row, and of all of them, have the object o.
Upto(row, n, o) == Cardinality({k \in 1..n : row[k].so = o})
InRow(row, o) == Upto(row, Len(row), o)

\* How many cells of the first n rows have the object o.
InRows(R, n, o) == Cardinality({p \in (1..n) \X (1..Width) : R[p[1]][p[2]].so = o})

\* How many cells that is, at least and at most.
LEMMA UptoNat ==
  ASSUME NEW row, NEW n \in Nat, NEW o
  PROVE  /\ Upto(row, n, o) \in Nat
         /\ Upto(row, 0, o) = 0
         /\ \A m \in 0..n : Upto(row, m, o) \in Nat /\ Upto(row, m, o) <= Upto(row, n, o)
         /\ (\E k \in 1..n : row[k].so = o) => Upto(row, n, o) > 0
         /\ (\A k \in 1..n : row[k].so # o) => Upto(row, n, o) = 0
<1>. DEFINE S(m) == {k \in 1..m : row[k].so = o}
<1>1. \A m \in 0..n : S(m) \in SUBSET (1..n) /\ S(m) \in SUBSET S(n)
  OBVIOUS
<1>2. IsFiniteSet(1..n)
  BY FS_Interval
<1>3. \A m \in 0..n : IsFiniteSet(S(m)) /\ Cardinality(S(m)) \in Nat
  BY <1>1, <1>2, FS_Subset, FS_CardinalityType
<1>4. n \in 0..n
  OBVIOUS
<1>5. \A m \in 0..n : Cardinality(S(m)) <= Cardinality(S(n))
  BY <1>1, <1>3, <1>4, FS_Subset
<1>6. S(0) = {}
  OBVIOUS
<1>7. Cardinality(S(n)) = 0 <=> S(n) = {}
  BY <1>3, <1>4, FS_EmptySet
<1>. QED
  BY <1>3, <1>4, <1>5, <1>6, <1>7, FS_EmptySet DEF Upto

\* One cell more.
LEMMA UptoNext ==
  ASSUME NEW row, NEW n \in Nat \ {0}, NEW o
  PROVE  Upto(row, n, o) = Upto(row, n - 1, o) + One(row[n].so, o)
<1>. DEFINE S == {k \in 1..(n - 1) : row[k].so = o}
            T == {k \in 1..n : row[k].so = o}
<1>1. IsFiniteSet(S) /\ Cardinality(S) \in Nat
  <2>1. IsFiniteSet(1..(n - 1)) /\ S \in SUBSET (1..(n - 1))
    BY FS_Interval
  <2>. QED
    BY <2>1, FS_Subset, FS_CardinalityType
<1>2. n \notin S
  OBVIOUS
<1>3. CASE row[n].so = o
  <2>1. T = S \cup {n}
    <3>1. \A k \in 1..n : k = n \/ k \in 1..(n - 1)
      OBVIOUS
    <3>2. n \in T /\ S \subseteq T
      BY <1>3
    <3>3. T \subseteq S \cup {n}
      BY <3>1
    <3>. QED
      BY <3>2, <3>3
  <2>. HIDE DEF S, T
  <2>2. Cardinality(T) = Cardinality(S) + 1
    BY <1>1, <1>2, <2>1, FS_AddElement
  <2>. QED
    BY <1>3, <2>2 DEF Upto, One, S, T
<1>4. CASE row[n].so # o
  <2>1. T = S
    <3>1. \A k \in 1..n : k = n \/ k \in 1..(n - 1)
      OBVIOUS
    <3>. QED
      BY <1>4, <3>1
  <2>2. One(row[n].so, o) = 0
    BY <1>4 DEF One
  <2>3. Upto(row, n - 1, o) = Cardinality(S) /\ Upto(row, n, o) = Cardinality(T)
    BY DEF Upto
  <2>. HIDE DEF S, T
  <2>. QED
    BY <1>1, <2>1, <2>2, <2>3
<1>. QED
  BY <1>3, <1>4

\* Rows with the same cells count the same.
LEMMA UptoSame ==
  ASSUME NEW row, NEW other, NEW n \in Nat, NEW o, \A k \in 1..n : row[k].so = other[k].so
  PROVE  Upto(row, n, o) = Upto(other, n, o)
<1>1. {k \in 1..n : row[k].so = o} = {k \in 1..n : other[k].so = o}
  OBVIOUS
<1>. QED
  BY <1>1 DEF Upto

\* How many cells of rows that is.
LEMMA InRowsNat ==
  ASSUME NEW R, NEW n \in Nat, NEW o, Width \in Nat
  PROVE  /\ InRows(R, n, o) \in Nat
         /\ InRows(R, 0, o) = 0
         /\ (\E j \in 1..n, i \in 1..Width : R[j][i].so = o) => InRows(R, n, o) > 0
         /\ (\A j \in 1..n, i \in 1..Width : R[j][i].so # o) => InRows(R, n, o) = 0
<1>. DEFINE S == {p \in (1..n) \X (1..Width) : R[p[1]][p[2]].so = o}
<1>1. IsFiniteSet(1..n) /\ IsFiniteSet(1..Width)
  BY FS_Interval
<1>2. IsFiniteSet((1..n) \X (1..Width)) /\ S \in SUBSET ((1..n) \X (1..Width))
  BY <1>1, FS_Product
<1>3. IsFiniteSet(S) /\ Cardinality(S) \in Nat
  BY <1>2, FS_Subset, FS_CardinalityType
<1>4. Cardinality(S) = 0 <=> S = {}
  BY <1>3, FS_EmptySet
<1>5. ASSUME NEW j \in 1..n, NEW i \in 1..Width, R[j][i].so = o PROVE S # {}
  <2>1. <<j, i>> \in S
    BY <1>5
  <2>. QED
    BY <2>1
<1>6. ASSUME \A j \in 1..n, i \in 1..Width : R[j][i].so # o PROVE S = {}
  BY <1>6
<1>7. {p \in (1..0) \X (1..Width) : R[p[1]][p[2]].so = o} = {}
  OBVIOUS
<1>. QED
  BY <1>3, <1>4, <1>5, <1>6, <1>7, FS_EmptySet DEF InRows

\* One row more.
LEMMA InRowsNext ==
  ASSUME NEW R, NEW n \in Nat \ {0}, NEW o, Width \in Nat
  PROVE  InRows(R, n, o) = InRows(R, n - 1, o) + Upto(R[n], Width, o)
<1>. DEFINE S == {p \in (1..(n - 1)) \X (1..Width) : R[p[1]][p[2]].so = o}
            T == {p \in (1..n) \X (1..Width) : R[p[1]][p[2]].so = o}
            Q == {k \in 1..Width : R[n][k].so = o}
            U == {n} \X Q
<1>1. IsFiniteSet(1..(n - 1)) /\ IsFiniteSet(1..Width) /\ Q \in SUBSET (1..Width)
  BY FS_Interval
<1>2. IsFiniteSet((1..(n - 1)) \X (1..Width)) /\ S \in SUBSET ((1..(n - 1)) \X (1..Width))
  BY <1>1, FS_Product
<1>3. IsFiniteSet(S) /\ Cardinality(S) \in Nat /\ IsFiniteSet(Q) /\ Cardinality(Q) \in Nat
  BY <1>1, <1>2, FS_Subset, FS_CardinalityType
<1>4. IsFiniteSet({n}) /\ Cardinality({n}) = 1
  BY FS_Singleton
<1>5. IsFiniteSet(U) /\ Cardinality(U) = Cardinality({n}) * Cardinality(Q)
  BY <1>3, <1>4, FS_Product
<1>6. S \cap U = {}
  OBVIOUS
<1>7. T = S \cup U
  <2>1. ASSUME NEW p \in T PROVE p \in S \/ p \in U
    <3>1. p[1] \in 1..n /\ p[2] \in 1..Width /\ p = <<p[1], p[2]>> /\ R[p[1]][p[2]].so = o
      BY <2>1
    <3>2. CASE p[1] = n
      BY <3>1, <3>2
    <3>3. CASE p[1] # n
      <4>1. p[1] \in 1..(n - 1)
        BY <3>1, <3>3
      <4>. QED
        BY <3>1, <4>1
    <3>. QED
      BY <3>2, <3>3
  <2>2. S \subseteq T
    OBVIOUS
  <2>3. ASSUME NEW p \in U PROVE p \in T
    <3>1. p[1] = n /\ p[2] \in Q /\ p = <<n, p[2]>>
      BY <2>3
    <3>2. n \in 1..n /\ p[2] \in 1..Width /\ R[n][p[2]].so = o
      BY <3>1
    <3>. QED
      BY <3>1, <3>2
  <2>. QED
    BY <2>1, <2>2, <2>3
<1>. HIDE DEF S, T, U, Q
<1>8. Cardinality(T) = Cardinality(S) + Cardinality(U) - Cardinality({})
  BY <1>3, <1>5, <1>6, <1>7, FS_Union
<1>9. Cardinality({}) = 0
  BY FS_EmptySet
<1>10. Cardinality(T) = Cardinality(S) + Cardinality(Q)
  BY <1>3, <1>4, <1>5, <1>8, <1>9
<1>. QED
  BY <1>10 DEF InRows, Upto, S, T, Q

\* Rows with the same objects.
LEMMA InRowsSame ==
  ASSUME NEW R, NEW Q, NEW n \in Nat, NEW o,
         \A j \in 1..n : \A i \in 1..Width : R[j][i].so = Q[j][i].so
  PROVE  InRows(R, n, o) = InRows(Q, n, o)
<1>1. \A p \in (1..n) \X (1..Width) : R[p[1]][p[2]].so = Q[p[1]][p[2]].so
  OBVIOUS
<1>2. {p \in (1..n) \X (1..Width) : R[p[1]][p[2]].so = o}
        = {p \in (1..n) \X (1..Width) : Q[p[1]][p[2]].so = o}
  BY <1>1
<1>. QED
  BY <1>2 DEF InRows

\* A row of the screen.
Rows == [1..Width -> Cells]

\* FlattenSeq() joins the rows one by one.
LEMMA FlattenSteps ==
  ASSUME NEW S, NEW seqs \in Seq(Seq(S)), seqs # << >>
  PROVE  \E f : /\ FlattenSeq(seqs) = f[Len(seqs)]
                /\ \A i \in 1..Len(seqs) : f[i] = IF i = 1 THEN seqs[i] ELSE f[i - 1] \o seqs[i]
<1>. DEFINE n == Len(seqs)
            f == CHOOSE g : Flattens(g, seqs, n)
<1>1. n \in Nat /\ n # 0
  OBVIOUS
<1>2. Flattens(f, seqs, n)
  BY <1>1, FlattenExists
<1>3. FlattenSeq(seqs) = f[n]
  BY <1>1 DEF FlattenSeq, Flattens
<1>. HIDE DEF n, f
<1>4. \A i \in 1..n : f[i] = IF i = 1 THEN seqs[i] ELSE f[i - 1] \o seqs[i]
  BY <1>1, <1>2 DEF Flattens
<1>. QED
  BY <1>3, <1>4 DEF n

\* The cells of a row that is made of two.
LEMMA ConcatCount ==
  ASSUME NEW a \in Seq(Cells), NEW b \in Seq(Cells), NEW o
  PROVE  InRow(a \o b, o) = InRow(a, o) + InRow(b, o)
<1>. DEFINE m == Len(a)
            n == Len(b)
            s == a \o b
            T == {k \in 0..n : Upto(s, m + k, o) # Upto(a, m, o) + Upto(b, k, o)}
<1>1. m \in Nat /\ n \in Nat /\ Len(s) = m + n
      /\ (\A i \in 1..m : s[i] = a[i])
      /\ \A i \in (m + 1)..(m + n) : i - m \in 1..n /\ s[i] = b[i - m]
  BY ConcatFacts
<1>. HIDE DEF m, n, s
<1>2. \A k \in 0..n : Upto(b, k, o) \in Nat /\ Upto(s, m + k, o) \in Nat /\ Upto(a, m, o) \in Nat
  <2>. SUFFICES ASSUME NEW k \in 0..n
                PROVE Upto(b, k, o) \in Nat /\ Upto(s, m + k, o) \in Nat /\ Upto(a, m, o) \in Nat
    OBVIOUS
  <2>1. k \in Nat /\ m + k \in Nat
    BY <1>1
  <2>. QED
    BY <1>1, <2>1, UptoNat
<1>3. T = {}
  <2>. SUFFICES ASSUME T # {} PROVE FALSE
    OBVIOUS
  <2>0. T \subseteq Nat /\ T \subseteq 0..n
    BY <1>1
  <2>. HIDE DEF T
  <2>1. PICK k \in T : \A j \in T : k <= j
    BY <2>0, LeastNumber
  <2>2. CASE k = 0
    <3>1. Upto(s, m, o) = Upto(a, m, o)
      <4>1. \A i \in 1..m : s[i].so = a[i].so
        BY <1>1
      <4>. QED
        BY <1>1, <4>1, UptoSame
    <3>2. Upto(b, 0, o) = 0 /\ m + 0 = m
      BY <1>1, UptoNat
    <3>3. 0 \in 0..n
      BY <1>1
    <3>4. Upto(s, m + k, o) = Upto(a, m, o) + Upto(b, k, o)
      BY <1>2, <2>2, <3>1, <3>2, <3>3
    <3>. QED
      BY <2>1, <3>4 DEF T
  <2>3. CASE k # 0
    <3>1. k \in 1..n /\ k - 1 \in 0..n /\ k - 1 \notin T /\ k \in Nat \ {0} /\ m + k \in Nat \ {0}
      BY <1>1, <2>0, <2>1, <2>3
    <3>2. Upto(s, m + (k - 1), o) = Upto(a, m, o) + Upto(b, k - 1, o)
      BY <3>1 DEF T
    <3>3. Upto(s, m + k, o) = Upto(s, (m + k) - 1, o) + One(s[m + k].so, o)
      BY <3>1, UptoNext
    <3>4. Upto(b, k, o) = Upto(b, k - 1, o) + One(b[k].so, o)
      BY <3>1, UptoNext
    <3>5. s[m + k] = b[k] /\ (m + k) - 1 = m + (k - 1)
      <4>1. m + k \in (m + 1)..(m + n) /\ (m + k) - m = k
        BY <1>1, <3>1
      <4>. QED
        BY <1>1, <3>1, <4>1
    <3>6. One(b[k].so, o) \in Nat
      BY DEF One
    <3>7. Upto(s, m + k, o) = Upto(a, m, o) + Upto(b, k, o)
      BY <1>2, <3>1, <3>2, <3>3, <3>4, <3>5, <3>6
    <3>. QED
      BY <2>1, <3>7 DEF T
  <2>. QED
    BY <2>2, <2>3
<1>4. n \in 0..n /\ n \notin T
  BY <1>1, <1>3
<1>. QED
  BY <1>1, <1>4 DEF InRow, m, n, s

\* The same of rows.
LEMMA ConcatRows ==
  ASSUME NEW R \in Seq(Rows), NEW Q \in Seq(Rows), NEW o, Width \in Nat
  PROVE  /\ InRows(R \o Q, Len(R \o Q), o) = InRows(R, Len(R), o) + InRows(Q, Len(Q), o)
         /\ R \o Q \in Seq(Rows)
<1>. DEFINE m == Len(R)
            n == Len(Q)
            s == R \o Q
            T == {k \in 0..n : InRows(s, m + k, o) # InRows(R, m, o) + InRows(Q, k, o)}
<1>1. m \in Nat /\ n \in Nat /\ Len(s) = m + n /\ s \in Seq(Rows)
      /\ (\A i \in 1..m : s[i] = R[i])
      /\ \A i \in (m + 1)..(m + n) : i - m \in 1..n /\ s[i] = Q[i - m]
  BY ConcatFacts
<1>. HIDE DEF m, n, s
<1>2. \A k \in 0..n : InRows(Q, k, o) \in Nat /\ InRows(s, m + k, o) \in Nat /\ InRows(R, m, o) \in Nat
  <2>. SUFFICES ASSUME NEW k \in 0..n
                PROVE InRows(Q, k, o) \in Nat /\ InRows(s, m + k, o) \in Nat /\ InRows(R, m, o) \in Nat
    OBVIOUS
  <2>1. k \in Nat /\ m + k \in Nat
    BY <1>1
  <2>. QED
    BY <1>1, <2>1, InRowsNat
<1>3. T = {}
  <2>. SUFFICES ASSUME T # {} PROVE FALSE
    OBVIOUS
  <2>0. T \subseteq Nat /\ T \subseteq 0..n
    BY <1>1
  <2>. HIDE DEF T
  <2>1. PICK k \in T : \A j \in T : k <= j
    BY <2>0, LeastNumber
  <2>2. CASE k = 0
    <3>1. InRows(s, m, o) = InRows(R, m, o)
      <4>1. \A j \in 1..m : \A i \in 1..Width : s[j][i].so = R[j][i].so
        BY <1>1
      <4>. QED
        BY <1>1, <4>1, InRowsSame
    <3>2. InRows(Q, 0, o) = 0 /\ m + 0 = m
      BY <1>1, InRowsNat
    <3>3. 0 \in 0..n
      BY <1>1
    <3>4. InRows(s, m + k, o) = InRows(R, m, o) + InRows(Q, k, o)
      BY <1>2, <2>2, <3>1, <3>2, <3>3
    <3>. QED
      BY <2>1, <3>4 DEF T
  <2>3. CASE k # 0
    <3>1. k \in 1..n /\ k - 1 \in 0..n /\ k - 1 \notin T /\ k \in Nat \ {0} /\ m + k \in Nat \ {0}
      BY <1>1, <2>0, <2>1, <2>3
    <3>2. InRows(s, m + (k - 1), o) = InRows(R, m, o) + InRows(Q, k - 1, o)
      BY <3>1 DEF T
    <3>3. InRows(s, m + k, o) = InRows(s, (m + k) - 1, o) + Upto(s[m + k], Width, o)
      BY <3>1, InRowsNext
    <3>4. InRows(Q, k, o) = InRows(Q, k - 1, o) + Upto(Q[k], Width, o)
      BY <3>1, InRowsNext
    <3>5. s[m + k] = Q[k] /\ (m + k) - 1 = m + (k - 1)
      <4>1. m + k \in (m + 1)..(m + n) /\ (m + k) - m = k
        BY <1>1, <3>1
      <4>. QED
        BY <1>1, <3>1, <4>1
    <3>6. Upto(Q[k], Width, o) \in Nat
      BY UptoNat
    <3>7. InRows(s, m + k, o) = InRows(R, m, o) + InRows(Q, k, o)
      BY <1>2, <3>1, <3>2, <3>3, <3>4, <3>5, <3>6
    <3>. QED
      BY <2>1, <3>7 DEF T
  <2>. QED
    BY <2>2, <2>3
<1>4. n \in 0..n /\ n \notin T
  BY <1>1, <1>3
<1>. QED
  BY <1>1, <1>4 DEF m, n, s

\* A row as a sequence of cells.
LEMMA RowFacts ==
  ASSUME NEW row \in Rows, Width \in Nat
  PROVE  /\ row \in Seq(Cells) /\ Len(row) = Width /\ DOMAIN row = 1..Width
         /\ \A o : InRow(row, o) = Upto(row, Width, o) /\ InRow(row, o) \in Nat
<1>1. row \in Seq(Cells) /\ Len(row) = Width /\ DOMAIN row = 1..Width
  BY DEF Rows
<1>. QED
  BY <1>1, UptoNat DEF InRow

\* One row alone.
LEMMA OneRow ==
  ASSUME NEW row \in Rows, NEW o, Width \in Nat
  PROVE  InRows(<<row>>, 1, o) = InRow(row, o)
<1>1. InRows(<<row>>, 1, o) = InRows(<<row>>, 0, o) + Upto(<<row>>[1], Width, o)
  BY InRowsNext
<1>2. InRows(<<row>>, 0, o) = 0 /\ Upto(row, Width, o) \in Nat
  BY InRowsNat, UptoNat
<1>. QED
  BY <1>1, <1>2, RowFacts

\* Rows that come at the end and go from the beginning.
LEMMA ScrollCount ==
  ASSUME NEW R \in Seq(Rows), NEW row \in Rows, NEW o, Width \in Nat
  PROVE  /\ Append(R, row) \in Seq(Rows) /\ Len(Append(R, row)) = Len(R) + 1
         /\ InRows(Append(R, row), Len(R) + 1, o) = InRows(R, Len(R), o) + InRow(row, o)
         /\ R # << >> => /\ Head(R) \in Rows /\ Tail(R) \in Seq(Rows) /\ Len(Tail(R)) = Len(R) - 1
                         /\ InRows(R, Len(R), o) = InRow(Head(R), o) + InRows(Tail(R), Len(R) - 1, o)
<1>1. /\ <<row>> \in Seq(Rows) /\ Len(<<row>>) = 1 /\ Append(R, row) = R \o <<row>>
      /\ Append(R, row) \in Seq(Rows) /\ Len(Append(R, row)) = Len(R) + 1
  OBVIOUS
<1>2. InRows(Append(R, row), Len(R) + 1, o) = InRows(R, Len(R), o) + InRow(row, o)
  <2>. DEFINE one == <<row>>
  <2>1. InRows(one, 1, o) = InRow(row, o)
    BY OneRow
  <2>2. one \in Seq(Rows) /\ Len(one) = 1 /\ Append(R, row) = R \o one
    BY <1>1
  <2>. HIDE DEF one
  <2>3. InRows(R \o one, Len(R \o one), o) = InRows(R, Len(R), o) + InRows(one, Len(one), o)
    BY <2>2, ConcatRows
  <2>. QED
    BY <1>1, <2>1, <2>2, <2>3
<1>3. ASSUME R # << >>
      PROVE  /\ Head(R) \in Rows /\ Tail(R) \in Seq(Rows) /\ Len(Tail(R)) = Len(R) - 1
             /\ InRows(R, Len(R), o) = InRow(Head(R), o) + InRows(Tail(R), Len(R) - 1, o)
  <2>1. Head(R) \in Rows /\ Tail(R) \in Seq(Rows) /\ Len(Tail(R)) = Len(R) - 1
    BY <1>3
  <2>2. <<Head(R)>> \in Seq(Rows) /\ Len(<<Head(R)>>) = 1 /\ <<Head(R)>> \o Tail(R) = R
    BY <1>3
  <2>. DEFINE one == <<Head(R)>>
              rest == Tail(R)
  <2>3. InRows(one, 1, o) = InRow(Head(R), o)
    BY <2>1, OneRow
  <2>0. one \in Seq(Rows) /\ rest \in Seq(Rows) /\ Width \in Nat
    BY <2>1, <2>2
  <2>4. Len(one) = 1 /\ one \o rest = R /\ Len(rest) = Len(R) - 1
    BY <2>1, <2>2
  <2>. HIDE DEF one, rest
  <2>5. InRows(one \o rest, Len(one \o rest), o) = InRows(one, Len(one), o) + InRows(rest, Len(rest), o)
    BY ONLY <2>0, ConcatRows
  <2>6. InRows(R, Len(R), o) = InRow(Head(R), o) + InRows(rest, Len(R) - 1, o)
    <3>1. InRows(R, Len(R), o) = InRows(one, Len(one), o) + InRows(rest, Len(rest), o)
      BY <2>4, <2>5, Zenon
    <3>. QED
      BY ONLY <2>3, <2>4, <3>1, Zenon
  <2>7. rest = Tail(R)
    BY DEF rest
  <2>. QED
    BY ONLY <2>1, <2>6, <2>7
<1>. QED
  BY <1>1, <1>2, <1>3

\* All cells of rows, one after the other.
LEMMA FlattenCount ==
  ASSUME NEW R \in Seq(Rows), NEW o, Width \in Nat, R # << >>
  PROVE  /\ FlattenSeq(R) \in Seq(Cells)
         /\ InRow(FlattenSeq(R), o) = InRows(R, Len(R), o)
<1>. DEFINE n == Len(R)
<1>1. n \in Nat /\ n # 0 /\ R \in Seq(Seq(Cells)) /\ \A i \in 1..n : R[i] \in Rows
  <2>1. n \in Nat /\ n # 0 /\ \A i \in 1..n : R[i] \in Rows
    OBVIOUS
  <2>2. Rows \subseteq Seq(Cells)
    BY RowFacts
  <2>. QED
    BY <2>1, <2>2
<1>2. PICK f : /\ FlattenSeq(R) = f[n]
               /\ \A i \in 1..n : f[i] = IF i = 1 THEN R[i] ELSE f[i - 1] \o R[i]
  BY <1>1, FlattenSteps
<1>. HIDE DEF n
<1>. DEFINE T == {i \in 1..n : ~ (f[i] \in Seq(Cells) /\ InRow(f[i], o) = InRows(R, i, o))}
<1>3. T \subseteq 1..n /\ T \subseteq Nat
  BY <1>1
<1>4. T = {}
  <2>. SUFFICES ASSUME T # {} PROVE FALSE
    OBVIOUS
  <2>. HIDE DEF T
  <2>1. PICK k \in T : \A m \in T : k <= m
    BY <1>3, LeastNumber
  <2>2. k \in 1..n /\ k \in Nat \ {0} /\ R[k] \in Rows
    BY <1>1, <1>3, <2>1
  <2>3. InRows(R, k, o) = InRows(R, k - 1, o) + InRow(R[k], o) /\ R[k] \in Seq(Cells)
    BY <2>2, InRowsNext, RowFacts
  <2>4. CASE k = 1
    <3>1. InRows(R, 0, o) = 0 /\ InRow(R[k], o) \in Nat
      BY <2>2, InRowsNat, RowFacts
    <3>2. f[k] = R[k] /\ InRows(R, k, o) = InRow(R[k], o)
      BY <1>2, <2>2, <2>3, <2>4, <3>1
    <3>. QED
      BY <2>1, <2>3, <3>2 DEF T
  <2>5. CASE k # 1
    <3>1. k - 1 \in 1..n /\ k - 1 \notin T
      BY <1>1, <2>1, <2>2, <2>5
    <3>2. f[k - 1] \in Seq(Cells) /\ InRow(f[k - 1], o) = InRows(R, k - 1, o)
      BY <3>1 DEF T
    <3>3. f[k] = f[k - 1] \o R[k]
      BY <1>2, <2>2, <2>5
    <3>4. f[k] \in Seq(Cells)
      BY <2>3, <3>2, <3>3
    <3>5. InRow(f[k], o) = InRows(R, k, o)
      BY <2>3, <3>2, <3>3, ConcatCount
    <3>. QED
      BY <2>1, <3>4, <3>5 DEF T
  <2>. QED
    BY <2>4, <2>5
<1>5. n \in 1..n /\ n \notin T
  BY <1>1, <1>4
<1>. QED
  BY <1>2, <1>5 DEF n

\* One cell of the rows refers to another object.
WithObject(R, j, i, o) == [R EXCEPT ![j][i].so = o]

\* What is referred to after it changes by one cell: in its row,
LEMMA CellChange ==
  ASSUME NEW n \in Nat, NEW R \in [1..n -> Rows], NEW j \in 1..n, NEW i \in 1..Width, NEW o \in Pointers
  PROVE  LET Q == WithObject(R, j, i, o) IN
         /\ Q \in [1..n -> Rows]
         /\ Q[j][i].so = o
         /\ \A l \in 1..n : \A m \in 1..Width : (l = j /\ m = i) \/ Q[l][m] = R[l][m]
<1>. DEFINE Q == WithObject(R, j, i, o)
            cell == [R[j][i] EXCEPT !.so = o]
            row == [R[j] EXCEPT ![i] = cell]
<1>1. R[j] \in [1..Width -> Cells] /\ R[j][i] \in Cells
  BY DEF Rows
<1>2. cell \in Cells /\ cell.so = o
  BY <1>1 DEF Cells
<1>3. Q = [R EXCEPT ![j] = row]
  BY <1>1 DEF WithObject
<1>. HIDE DEF cell
<1>4. row \in Rows /\ row[i] = cell /\ \A m \in 1..Width : m # i => row[m] = R[j][m]
  BY <1>1, <1>2 DEF Rows
<1>. HIDE DEF row
<1>5. Q \in [1..n -> Rows] /\ Q[j] = row /\ \A l \in 1..n : l # j => Q[l] = R[l]
  BY <1>3, <1>4
<1>. HIDE DEF Q
<1>6. \A l \in 1..n : \A m \in 1..Width : (l = j /\ m = i) \/ Q[l][m] = R[l][m]
  BY <1>4, <1>5
<1>. QED
  BY <1>2, <1>4, <1>5, <1>6 DEF Q

\* and on the screen.
LEMMA CellCount ==
  ASSUME NEW n \in Nat, NEW R \in [1..n -> Rows], NEW Q \in [1..n -> Rows],
         NEW j \in 1..n, NEW i \in 1..Width, NEW x, Width \in Nat,
         \A l \in 1..n : \A m \in 1..Width : (l = j /\ m = i) \/ Q[l][m] = R[l][m]
  PROVE  /\ InRows(R, n, x) \in Nat /\ InRows(Q, n, x) \in Nat
         /\ InRows(Q, n, x) + One(R[j][i].so, x) = InRows(R, n, x) + One(Q[j][i].so, x)
<1>. DEFINE P == (1..n) \X (1..Width)
            S == {p \in P : R[p[1]][p[2]].so = x}
            T == {p \in P : Q[p[1]][p[2]].so = x}
            q == <<j, i>>
            o == Q[j][i].so
<1>2. \A p \in P : p # q => Q[p[1]][p[2]] = R[p[1]][p[2]]
  <2>1. \A p \in P : p = <<p[1], p[2]>> /\ p[1] \in 1..n /\ p[2] \in 1..Width
    OBVIOUS
  <2>. QED
    BY <2>1
<1>3. q \in P /\ q[1] = j /\ q[2] = i
  OBVIOUS
<1>4. InRows(R, n, x) = Cardinality(S) /\ InRows(Q, n, x) = Cardinality(T)
  BY DEF InRows
<1>5. InRows(R, n, x) \in Nat /\ InRows(Q, n, x) \in Nat
  BY InRowsNat
<1>6. IsFiniteSet(S)
  <2>1. IsFiniteSet(1..n) /\ IsFiniteSet(1..Width)
    BY FS_Interval
  <2>2. IsFiniteSet(P) /\ S \in SUBSET P
    BY <2>1, FS_Product
  <2>. QED
    BY <2>2, FS_Subset
<1>7. q \in S <=> R[j][i].so = x
  BY <1>3
<1>8. q \in T <=> o = x
  BY <1>3
<1>9. T \ {q} = S \ {q}
  BY <1>2
<1>. HIDE DEF S, T, P, q, o
<1>10. IsFiniteSet(S \ {q}) /\ Cardinality(S \ {q}) = Cardinality(S) - One(R[j][i].so, x)
  <2>1. IsFiniteSet(S \ {q}) /\ Cardinality(S \ {q}) = IF q \in S THEN Cardinality(S) - 1 ELSE Cardinality(S)
    BY <1>6, FS_RemoveElement
  <2>. QED
    BY <1>4, <1>5, <1>7, <2>1 DEF One
<1>11. Cardinality(T) = Cardinality(S \ {q}) + One(o, x)
  <2>1. Cardinality(S \ {q}) \in Nat
    BY <1>10, FS_CardinalityType
  <2>2. CASE o = x
    <3>1. T = (S \ {q}) \cup {q} /\ q \notin S \ {q}
      BY <1>8, <1>9, <2>2
    <3>2. Cardinality(T) = Cardinality(S \ {q}) + 1
      BY <1>10, <3>1, FS_AddElement
    <3>. QED
      BY <2>2, <3>2 DEF One
  <2>3. CASE o # x
    <3>1. T = S \ {q}
      BY <1>8, <1>9, <2>3
    <3>. QED
      BY <2>1, <2>3, <3>1 DEF One
  <2>. QED
    BY <2>2, <2>3
<1>12. One(R[j][i].so, x) \in Nat /\ One(o, x) \in Nat
  BY DEF One
<1>. QED
  BY <1>4, <1>5, <1>10, <1>11, <1>12 DEF o

-----------------------------------------------------------------------------
(* Objects: each operator of SpecialObjects changes a count by one. *)

\* The addresses a link may lead to, the special objects, and how many
\* references each has.
Texts == Seq(Characters) \cup Urls \cup {None}

Heaps == [Objects -> [live : BOOLEAN, refs : Int, url : Texts, active : BOOLEAN]]

Counts == [Objects -> Nat]

\* In the heap h each object o has f[o] references, and is live exactly while it
\* has one; a is the one that is highlighted, and its address is u.
Sound(h, f, a, u) ==
  /\ h \in Heaps /\ f \in Counts
  /\ \A o \in Objects : /\ h[o].refs = f[o]
                        /\ h[o].live = (f[o] > 0)
                        /\ h[o].active = (o = a)
  /\ a \in Objects => f[a] > 0 /\ h[a].url = u

\* One reference more, of an object that has some.
LEMMA AttachSound ==
  ASSUME NEW h, NEW f, NEW a, NEW u, Sound(h, f, a, u),
         NEW o \in Pointers, o \in Objects => f[o] > 0,
         NEW g \in Counts, \A x \in Objects : g[x] = f[x] + One(o, x)
  PROVE  Sound(Attach(h, o), g, a, u)
<1>. DEFINE k == Attach(h, o)
<1>1. h \in Heaps /\ f \in Counts
  BY DEF Sound
<1>2. CASE o = NoObject
  <2>1. k = h /\ \A x \in Objects : g[x] = f[x]
    BY <1>1, <1>2, ObjectsAssumption DEF Attach, One, Counts
  <2>2. f = g
    BY <1>1, <2>1 DEF Counts
  <2>. QED
    BY <2>1, <2>2
<1>3. CASE o \in Objects
  <2>1. k = [h EXCEPT ![o].refs = @ + 1]
    BY <1>3, ObjectsAssumption DEF Attach
  <2>2. k = [h EXCEPT ![o] = [h[o] EXCEPT !.refs = h[o].refs + 1]]
    BY <1>1, <1>3, <2>1 DEF Heaps
  <2>3. h[o] \in [live : BOOLEAN, refs : Int, url : Texts, active : BOOLEAN] /\ h[o].refs + 1 \in Int
    BY <1>1, <1>3 DEF Heaps
  <2>. DEFINE r == [h[o] EXCEPT !.refs = h[o].refs + 1]
  <2>4. /\ r \in [live : BOOLEAN, refs : Int, url : Texts, active : BOOLEAN]
        /\ r.refs = h[o].refs + 1 /\ r.live = h[o].live /\ r.url = h[o].url /\ r.active = h[o].active
    BY <2>3
  <2>. HIDE DEF r
  <2>5. k \in Heaps /\ k[o] = r /\ \A x \in Objects : x # o => k[x] = h[x]
    BY <1>1, <1>3, <2>2, <2>4 DEF Heaps, r
  <2>. HIDE DEF k
  <2>6. g[o] = f[o] + 1 /\ \A x \in Objects : x # o => g[x] = f[x]
    BY <1>1, <1>3 DEF One, Counts
  <2>7. ASSUME NEW x \in Objects
        PROVE  k[x].refs = g[x] /\ k[x].live = (g[x] > 0) /\ k[x].active = (x = a) /\ k[x].url = h[x].url
               /\ (f[x] > 0 => g[x] > 0)
    <3>1. f[x] \in Nat /\ h[x].refs = f[x] /\ h[x].live = (f[x] > 0) /\ h[x].active = (x = a)
      BY <1>1 DEF Sound, Counts
    <3>2. CASE x = o
      <4>1. f[o] > 0 /\ g[o] > 0
        BY <1>3, <2>6, <3>1, <3>2
      <4>. QED
        BY <2>4, <2>5, <2>6, <3>1, <3>2, <4>1
    <3>3. CASE x # o
      BY <2>5, <2>6, <3>1, <3>3
    <3>. QED
      BY <3>2, <3>3
  <2>. QED
    BY <2>5, <2>7 DEF Sound, k
<1>. QED
  BY <1>2, <1>3 DEF Pointers

\* One reference less: the last deletes the object, which is not highlighted.
LEMMA DetachSound ==
  ASSUME NEW h, NEW f, NEW a, NEW u, Sound(h, f, a, u),
         NEW o \in Pointers, NEW g \in Counts, \A x \in Objects : f[x] = g[x] + One(o, x),
         a \in Objects => g[a] > 0
  PROVE  Sound(Detach(h, o), g, a, u)
<1>. DEFINE k == Detach(h, o)
<1>1. h \in Heaps /\ f \in Counts
  BY DEF Sound
<1>2. CASE o = NoObject
  <2>1. k = h /\ \A x \in Objects : g[x] = f[x]
    BY <1>1, <1>2, ObjectsAssumption DEF Detach, One, Counts
  <2>2. f = g
    BY <1>1, <2>1 DEF Counts
  <2>. QED
    BY <2>1, <2>2
<1>3. CASE o \in Objects
  <2>3. h[o] \in [live : BOOLEAN, refs : Int, url : Texts, active : BOOLEAN] /\ h[o].refs - 1 \in Int
    BY <1>1, <1>3 DEF Heaps
  <2>. DEFINE r == IF h[o].refs = 1 THEN Free ELSE [h[o] EXCEPT !.refs = h[o].refs - 1]
  <2>1. k = [h EXCEPT ![o] = r]
    <3>1. o # NoObject
      BY <1>3, ObjectsAssumption
    <3>2. CASE h[o].refs = 1
      BY <3>1, <3>2 DEF Detach
    <3>3. CASE h[o].refs # 1
      <4>1. k = [h EXCEPT ![o].refs = @ - 1]
        BY <3>1, <3>3 DEF Detach
      <4>. QED
        BY <1>1, <1>3, <3>3, <4>1 DEF Heaps
    <3>. QED
      BY <3>2, <3>3
  <2>2. /\ f[o] = g[o] + 1 /\ g[o] \in Nat /\ f[o] \in Nat
        /\ \A x \in Objects : x # o => g[x] = f[x]
    BY <1>1, <1>3 DEF One, Counts
  <2>4. h[o].refs = f[o] /\ h[o].live = (f[o] > 0) /\ h[o].active = (o = a) /\ (o = a => h[o].url = u)
    BY <1>3 DEF Sound
  <2>5. /\ r \in [live : BOOLEAN, refs : Int, url : Texts, active : BOOLEAN]
        /\ r.refs = g[o] /\ r.live = (g[o] > 0) /\ r.active = (o = a) /\ (o = a => r.url = u)
    <3>1. CASE h[o].refs = 1
      <4>1. g[o] = 0 /\ o # a
        BY <1>3, <2>2, <2>4, <3>1
      <4>2. << >> \in Texts
        BY DEF Texts, None
      <4>3. r = [live |-> FALSE, refs |-> 0, url |-> << >>, active |-> FALSE]
        BY <3>1 DEF Free
      <4>. HIDE DEF r
      <4>4. r.refs = 0 /\ r.live = FALSE /\ r.active = FALSE
        BY <4>3
      <4>5. r \in [live : BOOLEAN, refs : Int, url : Texts, active : BOOLEAN]
        <5>1. FALSE \in BOOLEAN /\ 0 \in Int
          OBVIOUS
        <5>. QED
          BY <4>2, <4>3, <5>1, Zenon
      <4>6. (g[o] > 0) = FALSE /\ (o = a) = FALSE
        BY <4>1
      <4>. QED
        BY <4>1, <4>4, <4>5, <4>6
    <3>2. CASE h[o].refs # 1
      <4>1. g[o] > 0 /\ f[o] > 0
        BY <2>2, <2>4, <3>2
      <4>2. r = [h[o] EXCEPT !.refs = h[o].refs - 1]
        BY <3>2
      <4>. HIDE DEF r
      <4>3. /\ r \in [live : BOOLEAN, refs : Int, url : Texts, active : BOOLEAN]
            /\ r.refs = h[o].refs - 1 /\ r.live = h[o].live /\ r.url = h[o].url /\ r.active = h[o].active
        BY <2>3, <4>2
      <4>. QED
        BY <2>2, <2>4, <4>1, <4>3
    <3>. QED
      BY <3>1, <3>2
  <2>. HIDE DEF r
  <2>6. k \in Heaps /\ k[o] = r /\ \A x \in Objects : x # o => k[x] = h[x]
    BY <1>1, <1>3, <2>1, <2>5 DEF Heaps
  <2>. HIDE DEF k
  <2>7. ASSUME NEW x \in Objects
        PROVE  k[x].refs = g[x] /\ k[x].live = (g[x] > 0) /\ k[x].active = (x = a) /\ (x = a => k[x].url = u)
    <3>1. h[x].refs = f[x] /\ h[x].live = (f[x] > 0) /\ h[x].active = (x = a) /\ (x = a => h[x].url = u)
      BY DEF Sound
    <3>2. CASE x = o
      BY <2>5, <2>6, <3>2
    <3>3. CASE x # o
      BY <2>2, <2>6, <3>1, <3>3
    <3>. QED
      BY <3>2, <3>3
  <2>. QED
    BY <2>6, <2>7 DEF Sound, k
<1>. QED
  BY <1>2, <1>3 DEF Pointers

\* A reference to one object becomes one to another.
LEMMA AssignSound ==
  ASSUME NEW h, NEW f, NEW a, NEW u, Sound(h, f, a, u),
         NEW old \in Pointers, NEW new \in Pointers, NEW g \in Counts,
         old \in Objects => f[old] > 0, new \in Objects => f[new] > 0,
         \A x \in Objects : g[x] + One(old, x) = f[x] + One(new, x),
         a \in Objects => g[a] > 0
  PROVE  Sound(Assign(h, old, new), g, a, u)
<1>1. f \in Counts
  BY DEF Sound
<1>2. \A x \in Objects : f[x] \in Nat /\ g[x] \in Nat
  BY <1>1 DEF Counts
<1>3. CASE old = new
  <2>1. \A x \in Objects : One(old, x) \in Nat
    BY DEF One
  <2>2. \A x \in Objects : g[x] = f[x]
    <3>. SUFFICES ASSUME NEW x \in Objects PROVE g[x] = f[x]
      OBVIOUS
    <3>1. g[x] + One(old, x) = f[x] + One(old, x)
      BY <1>3
    <3>. QED
      BY <1>2, <2>1, <3>1
  <2>3. g = f
    BY <1>1, <2>2 DEF Counts
  <2>. QED
    BY <1>3, <2>3 DEF Assign
<1>4. CASE old # new
  <2>. DEFINE e == [x \in Objects |-> IF x = old THEN f[x] - 1 ELSE f[x]]
  <2>1. e \in Counts
    BY <1>2 DEF Counts
  <2>2. \A x \in Objects : f[x] = e[x] + One(old, x)
    BY <1>2 DEF One
  <2>3. \A x \in Objects : g[x] = e[x] + One(new, x)
    BY <1>2, <1>4 DEF One
  <2>4. a \in Objects => e[a] > 0
    <3>1. ASSUME a \in Objects PROVE e[a] > 0
      <4>1. f[a] > 0 /\ g[a] > 0
        BY <3>1 DEF Sound
      <4>2. a = old => One(new, a) = 0
        BY <1>4 DEF One
      <4>. QED
        BY <1>2, <2>3, <3>1, <4>1, <4>2
    <3>. QED
      BY <3>1
  <2>5. new \in Objects => e[new] > 0
    BY <1>4
  <2>. HIDE DEF e
  <2>6. Sound(Detach(h, old), e, a, u)
    BY <2>1, <2>2, <2>4, DetachSound
  <2>7. Sound(Attach(Detach(h, old), new), g, a, u)
    BY <2>3, <2>5, <2>6, AttachSound
  <2>. QED
    BY <1>4, <2>7 DEF Assign
<1>. QED
  BY <1>3, <1>4

\* An address that is not in use is given to a new object.
LEMMA NewSound ==
  ASSUME NEW h, NEW f, NEW a, NEW u, Sound(h, f, a, u),
         NEW o \in Objects, ~ h[o].live, NEW url \in Texts,
         NEW g \in Counts, \A x \in Objects : g[x] = f[x] + One(o, x)
  PROVE  Sound(New(h, o, url), g, a, u) /\ f[o] = 0
<1>. DEFINE k == New(h, o, url)
            r == [Free EXCEPT !.live = TRUE, !.refs = 1, !.url = url]
            R == [live : BOOLEAN, refs : Int, url : Texts, active : BOOLEAN]
<1>1. h \in Heaps /\ f \in Counts
  BY DEF Sound
<1>2. k = [h EXCEPT ![o] = r]
  BY DEF New
<1>8. Free \in R
  <2>1. FALSE \in BOOLEAN /\ 0 \in Int /\ << >> \in Texts
    BY DEF Texts, None
  <2>. QED
    BY <2>1, Zenon DEF Free
<1>3. r \in R
  <2>1. TRUE \in BOOLEAN /\ 1 \in Int
    OBVIOUS
  <2>. QED
    BY <1>8, <2>1
<1>4. r.live = TRUE /\ r.refs = 1 /\ r.active = FALSE
  <2>1. Free.active = FALSE
    BY Zenon DEF Free
  <2>. QED
    BY <1>8, <2>1
<1>. HIDE DEF r
<1>5. k \in Heaps /\ k[o] = r /\ \A x \in Objects : x # o => k[x] = h[x]
  BY <1>1, <1>2, <1>3 DEF Heaps
<1>. HIDE DEF k
<1>6. f[o] = 0 /\ g[o] = 1 /\ o # a /\ \A x \in Objects : x # o => g[x] = f[x]
  <2>1. h[o].live = (f[o] > 0) /\ f[o] \in Nat /\ (o = a => f[o] > 0)
    BY <1>1 DEF Sound, Counts
  <2>5. ~ (f[o] > 0)
    BY <2>1, Zenon
  <2>2. f[o] = 0 /\ o # a
    BY <2>1, <2>5
  <2>3. g[o] = 1
    BY <2>2 DEF One
  <2>4. \A x \in Objects : x # o => g[x] = f[x]
    BY <1>1 DEF One, Counts
  <2>. QED
    BY <2>2, <2>3, <2>4
<1>7. ASSUME NEW x \in Objects
      PROVE  k[x].refs = g[x] /\ k[x].live = (g[x] > 0) /\ k[x].active = (x = a)
             /\ (x = a => k[x].url = u /\ g[x] > 0)
  <2>1. h[x].refs = f[x] /\ h[x].live = (f[x] > 0) /\ h[x].active = (x = a) /\ (x = a => h[x].url = u /\ f[x] > 0)
    BY DEF Sound
  <2>2. CASE x = o
    <3>1. (g[x] > 0) = TRUE /\ (x = a) = FALSE
      BY <1>6, <2>2
    <3>. QED
      BY <1>4, <1>5, <1>6, <2>2, <3>1
  <2>3. CASE x # o
    BY <1>5, <1>6, <2>1, <2>3
  <2>. QED
    BY <2>2, <2>3
<1>. QED
  BY <1>5, <1>6, <1>7 DEF Sound, k

\* A new object gets its address once it is known.
LEMMA UrlSound ==
  ASSUME NEW h, NEW f, NEW a, NEW u, Sound(h, f, a, u),
         NEW o \in Objects, o # a, NEW url \in Texts
  PROVE  Sound([h EXCEPT ![o].url = url], f, a, u)
<1>. DEFINE k == [h EXCEPT ![o].url = url]
            r == [h[o] EXCEPT !.url = url]
<1>1. h \in Heaps /\ f \in Counts
  BY DEF Sound
<1>2. h[o] \in [live : BOOLEAN, refs : Int, url : Texts, active : BOOLEAN]
  BY <1>1 DEF Heaps
<1>3. /\ r \in [live : BOOLEAN, refs : Int, url : Texts, active : BOOLEAN]
      /\ r.refs = h[o].refs /\ r.live = h[o].live /\ r.active = h[o].active
  BY <1>2
<1>4. k = [h EXCEPT ![o] = r]
  BY <1>1 DEF Heaps
<1>. HIDE DEF r
<1>5. k \in Heaps /\ k[o] = r /\ \A x \in Objects : x # o => k[x] = h[x]
  BY <1>1, <1>3, <1>4 DEF Heaps
<1>. HIDE DEF k
<1>6. \A x \in Objects : k[x].refs = f[x] /\ k[x].live = (f[x] > 0) /\ k[x].active = (x = a)
  BY <1>3, <1>5 DEF Sound
<1>7. a \in Objects => f[a] > 0 /\ k[a].url = u
  BY <1>5 DEF Sound
<1>. QED
  BY <1>1, <1>5, <1>6, <1>7 DEF Sound, k

\* Objects stay objects, also while they are counted wrong.
LEMMA HeapSteps ==
  ASSUME NEW h \in Heaps, NEW o \in Pointers
  PROVE  Attach(h, o) \in Heaps /\ Detach(h, o) \in Heaps
<1>. DEFINE R == [live : BOOLEAN, refs : Int, url : Texts, active : BOOLEAN]
<1>1. CASE o = NoObject
  BY <1>1 DEF Attach, Detach
<1>2. CASE o \in Objects
  <2>1. o # NoObject
    BY <1>2, ObjectsAssumption
  <2>2. h[o] \in R /\ h[o].refs + 1 \in Int /\ h[o].refs - 1 \in Int
    BY <1>2 DEF Heaps
  <2>3. Free \in R
    <3>1. FALSE \in BOOLEAN /\ 0 \in Int /\ << >> \in Texts
      BY DEF Texts, None
    <3>. QED
      BY <3>1, Zenon DEF Free
  <2>. DEFINE plus == [h[o] EXCEPT !.refs = h[o].refs + 1]
              minus == [h[o] EXCEPT !.refs = h[o].refs - 1]
  <2>4. plus \in R /\ minus \in R
    BY <2>2
  <2>5. Attach(h, o) = [h EXCEPT ![o] = plus]
    BY <1>2, <2>1 DEF Attach, Heaps
  <2>6. Detach(h, o) = IF h[o].refs = 1 THEN [h EXCEPT ![o] = Free] ELSE [h EXCEPT ![o] = minus]
    BY <1>2, <2>1 DEF Detach, Heaps
  <2>. HIDE DEF plus, minus, R
  <2>7. Heaps = [Objects -> R]
    BY DEF Heaps, R
  <2>. QED
    BY <2>3, <2>4, <2>5, <2>6, <2>7
<1>. QED
  BY <1>1, <1>2 DEF Pointers

\* The objects of the cells of a row are attached one by one.
Attaches(r, h, s, n) ==
  /\ r \in [0..n -> Heaps] /\ r[0] = h
  /\ \A k \in 1..n : r[k] = Attach(r[k - 1], s[k].so)

\* CopyCells() does.
LEMMA CopySteps ==
  ASSUME NEW h \in Heaps, NEW n \in Nat, NEW s, DOMAIN s = 1..n, \A k \in 1..n : s[k].so \in Pointers
  PROVE  \E r : Attaches(r, h, s, n) /\ CopyCells(h, s) = r[n]
<1>. DEFINE X == Heaps
            step == [k \in 1..n |-> [e \in X |-> Attach(e, s[k].so)]]
            Iter(f) == f = [S \in SUBSET (DOMAIN s) |-> IF S = {} THEN h ELSE Attach(f[S \ {Max(S)}], s[Max(S)].so)]
            iter == CHOOSE f : Iter(f)
<1>1. CopyCells(h, s) = iter[DOMAIN s]
  BY DEF CopyCells, FoldLeft, MapThenFoldSet
<1>2. DOMAIN s = 1..n
  OBVIOUS
<1>0. h \in X /\ \A e \in X : \A k \in 1..n : Attach(e, s[k].so) \in X
  BY HeapSteps
<1>. HIDE DEF X
<1>3. step \in [1..n -> [X -> X]]
  BY <1>0
<1>4. PICK f : FoldsTo(f, X, h, step, n)
  BY <1>0, <1>3, FoldExists
<1>5. \A S \in SUBSET (1..n) : S # {} => Max(S) \in 1..n
  <2>. SUFFICES ASSUME NEW S \in SUBSET (1..n), S # {} PROVE Max(S) \in S
    OBVIOUS
  <2>1. S \subseteq 0..n
    OBVIOUS
  <2>. QED
    BY <2>1, GreatestNumber
<1>6. Iter(f)
  <2>1. ASSUME NEW S \in SUBSET (1..n)
        PROVE  f[S] = IF S = {} THEN h ELSE Attach(f[S \ {Max(S)}], s[Max(S)].so)
    <3>1. f[S] = IF S = {} THEN h ELSE step[Max(S)][f[S \ {Max(S)}]]
      BY <1>4 DEF FoldsTo
    <3>2. f[S \ {Max(S)}] \in X
      BY <1>4 DEF FoldsTo
    <3>. QED
      BY <1>2, <1>5, <3>1, <3>2
  <2>2. f = [S \in SUBSET (1..n) |-> f[S]]
    BY <1>4 DEF FoldsTo
  <2>. QED
    BY <1>2, <2>1, <2>2
<1>7. Iter(iter)
  <2>. HIDE DEF Iter
  <2>. QED
    BY <1>6
<1>. HIDE DEF iter
<1>8. \A S \in SUBSET (1..n) : iter[S] = IF S = {} THEN h ELSE Attach(iter[S \ {Max(S)}], s[Max(S)].so)
  BY <1>2, <1>5, <1>7
<1>. HIDE DEF Iter
<1>9. iter[{}] = h
  BY <1>8
<1>10. \A e \in X : \A k \in 1..n : step[k][e] = Attach(e, s[k].so)
  OBVIOUS
<1>. HIDE DEF step
<1>11. \A S \in SUBSET (1..n) : S # {} /\ iter[S \ {Max(S)}] \in X
                                 => iter[S] = step[Max(S)][iter[S \ {Max(S)}]]
  <2>. SUFFICES ASSUME NEW S \in SUBSET (1..n), S # {}, iter[S \ {Max(S)}] \in X
                PROVE  iter[S] = step[Max(S)][iter[S \ {Max(S)}]]
    OBVIOUS
  <2>1. Max(S) \in 1..n
    BY <1>5
  <2>2. iter[S] = Attach(iter[S \ {Max(S)}], s[Max(S)].so)
    BY <1>8
  <2>3. step[Max(S)][iter[S \ {Max(S)}]] = Attach(iter[S \ {Max(S)}], s[Max(S)].so)
    BY <1>2, <1>10, <2>1
  <2>. QED
    BY <2>2, <2>3
<1>14. FoldsOn(iter, X, h, step, n)
  BY <1>0, <1>3, <1>9, <1>11 DEF FoldsOn
<1>12. PICK r \in [0..n -> X] :
         r[0] = h /\ (\A k \in 1..n : r[k] = step[k][r[k - 1]]) /\ iter[1..n] = r[n]
  BY <1>14, FoldUnrolled
<1>13. \A k \in 1..n : r[k] = Attach(r[k - 1], s[k].so)
  <2>1. \A k \in 1..n : k - 1 \in 0..n
    OBVIOUS
  <2>. QED
    BY <1>2, <1>10, <1>12, <2>1
<1>. QED
  BY <1>1, <1>2, <1>12, <1>13 DEF X, Attaches

\* The objects of the cells of a row are detached one by one.
Detaches(r, h, s, n) ==
  /\ r \in [0..n -> Heaps] /\ r[0] = h
  /\ \A k \in 1..n : r[k] = Detach(r[k - 1], s[k].so)

\* FillCells() does.
LEMMA FillSteps ==
  ASSUME NEW h \in Heaps, NEW n \in Nat, NEW s, DOMAIN s = 1..n, \A k \in 1..n : s[k].so \in Pointers
  PROVE  \E r : Detaches(r, h, s, n) /\ FillCells(h, s) = r[n]
<1>. DEFINE X == Heaps
            step == [k \in 1..n |-> [e \in X |-> Detach(e, s[k].so)]]
            Iter(f) == f = [S \in SUBSET (DOMAIN s) |-> IF S = {} THEN h ELSE Detach(f[S \ {Max(S)}], s[Max(S)].so)]
            iter == CHOOSE f : Iter(f)
<1>1. FillCells(h, s) = iter[DOMAIN s]
  BY DEF FillCells, FoldLeft, MapThenFoldSet
<1>2. DOMAIN s = 1..n
  OBVIOUS
<1>0. h \in X /\ \A e \in X : \A k \in 1..n : Detach(e, s[k].so) \in X
  BY HeapSteps
<1>. HIDE DEF X
<1>3. step \in [1..n -> [X -> X]]
  BY <1>0
<1>4. PICK f : FoldsTo(f, X, h, step, n)
  BY <1>0, <1>3, FoldExists
<1>5. \A S \in SUBSET (1..n) : S # {} => Max(S) \in 1..n
  <2>. SUFFICES ASSUME NEW S \in SUBSET (1..n), S # {} PROVE Max(S) \in S
    OBVIOUS
  <2>1. S \subseteq 0..n
    OBVIOUS
  <2>. QED
    BY <2>1, GreatestNumber
<1>6. Iter(f)
  <2>1. ASSUME NEW S \in SUBSET (1..n)
        PROVE  f[S] = IF S = {} THEN h ELSE Detach(f[S \ {Max(S)}], s[Max(S)].so)
    <3>1. f[S] = IF S = {} THEN h ELSE step[Max(S)][f[S \ {Max(S)}]]
      BY <1>4 DEF FoldsTo
    <3>2. f[S \ {Max(S)}] \in X
      BY <1>4 DEF FoldsTo
    <3>. QED
      BY <1>2, <1>5, <3>1, <3>2
  <2>2. f = [S \in SUBSET (1..n) |-> f[S]]
    BY <1>4 DEF FoldsTo
  <2>. QED
    BY <1>2, <2>1, <2>2
<1>7. Iter(iter)
  <2>. HIDE DEF Iter
  <2>. QED
    BY <1>6
<1>. HIDE DEF iter
<1>8. \A S \in SUBSET (1..n) : iter[S] = IF S = {} THEN h ELSE Detach(iter[S \ {Max(S)}], s[Max(S)].so)
  BY <1>2, <1>5, <1>7
<1>. HIDE DEF Iter
<1>9. iter[{}] = h
  BY <1>8
<1>10. \A e \in X : \A k \in 1..n : step[k][e] = Detach(e, s[k].so)
  OBVIOUS
<1>. HIDE DEF step
<1>11. \A S \in SUBSET (1..n) : S # {} /\ iter[S \ {Max(S)}] \in X
                                 => iter[S] = step[Max(S)][iter[S \ {Max(S)}]]
  <2>. SUFFICES ASSUME NEW S \in SUBSET (1..n), S # {}, iter[S \ {Max(S)}] \in X
                PROVE  iter[S] = step[Max(S)][iter[S \ {Max(S)}]]
    OBVIOUS
  <2>1. Max(S) \in 1..n
    BY <1>5
  <2>2. iter[S] = Detach(iter[S \ {Max(S)}], s[Max(S)].so)
    BY <1>8
  <2>3. step[Max(S)][iter[S \ {Max(S)}]] = Detach(iter[S \ {Max(S)}], s[Max(S)].so)
    BY <1>2, <1>10, <2>1
  <2>. QED
    BY <2>2, <2>3
<1>14. FoldsOn(iter, X, h, step, n)
  BY <1>0, <1>3, <1>9, <1>11 DEF FoldsOn
<1>12. PICK r \in [0..n -> X] :
         r[0] = h /\ (\A k \in 1..n : r[k] = step[k][r[k - 1]]) /\ iter[1..n] = r[n]
  BY <1>14, FoldUnrolled
<1>13. \A k \in 1..n : r[k] = Detach(r[k - 1], s[k].so)
  <2>1. \A k \in 1..n : k - 1 \in 0..n
    OBVIOUS
  <2>. QED
    BY <1>2, <1>10, <1>12, <2>1
<1>. QED
  BY <1>1, <1>2, <1>12, <1>13 DEF X, Detaches

\* The cells before the cursor of t become a link, as DetectHyperlink() has it.
Linked(t, n, v, o) == FoldLeft(LAMBDA e, k : SetObject(e, Place(t, k), o), v, [k \in 1..n |-> k])

\* A new link is attached to one cell after the other.
LinksIn(X, t, n, o) ==
  \A e \in X : \A k \in 1..n : SetObject(e, Place(t, k), o) \in X

\* What each such step keeps is kept.
LEMMA LinkSteps ==
  ASSUME NEW t, NEW n \in Nat, NEW v, NEW o,
         NEW X, v \in X, LinksIn(X, t, n, o)
  PROVE  Linked(t, n, v, o) \in X
<1>. DEFINE s == [k \in 1..n |-> k]
            step == [k \in 1..n |-> [e \in X |-> SetObject(e, Place(t, k), o)]]
            Iter(f) == f = [S \in SUBSET (DOMAIN s) |-> IF S = {} THEN v ELSE SetObject(f[S \ {Max(S)}], Place(t, s[Max(S)]), o)]
            iter == CHOOSE f : Iter(f)
<1>0. \A e \in X : \A k \in 1..n : SetObject(e, Place(t, k), o) \in X
  BY DEF LinksIn
<1>1. Linked(t, n, v, o) = iter[DOMAIN s]
  BY DEF Linked, FoldLeft, MapThenFoldSet
<1>2. DOMAIN s = 1..n /\ \A k \in 1..n : s[k] = k
  OBVIOUS
<1>. HIDE DEF s
<1>3. step \in [1..n -> [X -> X]]
  BY <1>0
<1>4. PICK f : FoldsTo(f, X, v, step, n)
  BY <1>3, FoldExists
<1>5. \A S \in SUBSET (1..n) : S # {} => Max(S) \in 1..n
  <2>. SUFFICES ASSUME NEW S \in SUBSET (1..n), S # {} PROVE Max(S) \in S
    OBVIOUS
  <2>1. S \subseteq 0..n
    OBVIOUS
  <2>. QED
    BY <2>1, GreatestNumber
<1>6. Iter(f)
  <2>1. ASSUME NEW S \in SUBSET (1..n)
        PROVE  f[S] = IF S = {} THEN v ELSE SetObject(f[S \ {Max(S)}], Place(t, s[Max(S)]), o)
    <3>1. f[S] = IF S = {} THEN v ELSE step[Max(S)][f[S \ {Max(S)}]]
      BY <1>4 DEF FoldsTo
    <3>2. f[S \ {Max(S)}] \in X
      BY <1>4 DEF FoldsTo
    <3>. QED
      BY <1>2, <1>5, <3>1, <3>2
  <2>2. f = [S \in SUBSET (1..n) |-> f[S]]
    BY <1>4 DEF FoldsTo
  <2>. QED
    BY <1>2, <2>1, <2>2
<1>7. Iter(iter)
  <2>. HIDE DEF Iter
  <2>. QED
    BY <1>6
<1>. HIDE DEF iter
<1>8. \A S \in SUBSET (1..n) : iter[S] = IF S = {} THEN v ELSE SetObject(iter[S \ {Max(S)}], Place(t, Max(S)), o)
  BY <1>2, <1>5, <1>7
<1>. HIDE DEF Iter
<1>9. iter[{}] = v
  BY <1>8
<1>10. \A e \in X : \A k \in 1..n : step[k][e] = SetObject(e, Place(t, k), o)
  OBVIOUS
<1>. HIDE DEF step
<1>11. \A S \in SUBSET (1..n) : S # {} /\ iter[S \ {Max(S)}] \in X
                                 => iter[S] = step[Max(S)][iter[S \ {Max(S)}]]
  <2>. SUFFICES ASSUME NEW S \in SUBSET (1..n), S # {}, iter[S \ {Max(S)}] \in X
                PROVE  iter[S] = step[Max(S)][iter[S \ {Max(S)}]]
    OBVIOUS
  <2>1. Max(S) \in 1..n
    BY <1>5
  <2>2. iter[S] = SetObject(iter[S \ {Max(S)}], Place(t, Max(S)), o)
    BY <1>8
  <2>3. step[Max(S)][iter[S \ {Max(S)}]] = SetObject(iter[S \ {Max(S)}], Place(t, Max(S)), o)
    BY <1>2, <1>10, <2>1
  <2>. QED
    BY <2>2, <2>3
<1>14. FoldsOn(iter, X, v, step, n)
  BY <1>3, <1>9, <1>11 DEF FoldsOn
<1>12. PICK r \in [0..n -> X] :
         r[0] = v /\ (\A k \in 1..n : r[k] = step[k][r[k - 1]]) /\ iter[1..n] = r[n]
  BY <1>14, FoldUnrolled
<1>13. n \in 0..n
  OBVIOUS
<1>. QED
  BY <1>1, <1>2, <1>12, <1>13

\* What Receive() makes of the terminal t.
Received(t, s, half) ==
  FoldLeft(LAMBDA e, c : IF e.status = "running" THEN ParseCodepoint(e, c, half) ELSE e, t, s)

\* A piece of text is received character by character.
TextIn(X, s, n, half) ==
  \A e \in X : \A k \in 1..n : (IF e.status = "running" THEN ParseCodepoint(e, s[k], half) ELSE e) \in X

\* What each character keeps is kept.
LEMMA TextSteps ==
  ASSUME NEW t, NEW s, NEW n \in Nat, DOMAIN s = 1..n, NEW half,
         NEW X, t \in X, TextIn(X, s, n, half)
  PROVE  Received(t, s, half) \in X
<1>. DEFINE step == [k \in 1..n |-> [e \in X |-> (IF e.status = "running" THEN ParseCodepoint(e, s[k], half) ELSE e)]]
            Iter(f) == f = [S \in SUBSET (DOMAIN s) |-> IF S = {} THEN t ELSE (IF f[S \ {Max(S)}].status = "running" THEN ParseCodepoint(f[S \ {Max(S)}], s[Max(S)], half) ELSE f[S \ {Max(S)}])]
            iter == CHOOSE f : Iter(f)
<1>0. \A e \in X : \A k \in 1..n : (IF e.status = "running" THEN ParseCodepoint(e, s[k], half) ELSE e) \in X
  BY DEF TextIn
<1>1. Received(t, s, half) = iter[DOMAIN s]
  BY DEF Received, FoldLeft, MapThenFoldSet
<1>2. DOMAIN s = 1..n
  OBVIOUS
<1>3. step \in [1..n -> [X -> X]]
  BY <1>0
<1>4. PICK f : FoldsTo(f, X, t, step, n)
  BY <1>3, FoldExists
<1>5. \A S \in SUBSET (1..n) : S # {} => Max(S) \in 1..n
  <2>. SUFFICES ASSUME NEW S \in SUBSET (1..n), S # {} PROVE Max(S) \in S
    OBVIOUS
  <2>1. S \subseteq 0..n
    OBVIOUS
  <2>. QED
    BY <2>1, GreatestNumber
<1>6. Iter(f)
  <2>1. ASSUME NEW S \in SUBSET (1..n)
        PROVE  f[S] = IF S = {} THEN t ELSE (IF f[S \ {Max(S)}].status = "running" THEN ParseCodepoint(f[S \ {Max(S)}], s[Max(S)], half) ELSE f[S \ {Max(S)}])
    <3>1. f[S] = IF S = {} THEN t ELSE step[Max(S)][f[S \ {Max(S)}]]
      BY <1>4 DEF FoldsTo
    <3>2. f[S \ {Max(S)}] \in X
      BY <1>4 DEF FoldsTo
    <3>. QED
      BY <1>2, <1>5, <3>1, <3>2
  <2>2. f = [S \in SUBSET (1..n) |-> f[S]]
    BY <1>4 DEF FoldsTo
  <2>. QED
    BY <1>2, <2>1, <2>2
<1>7. Iter(iter)
  <2>. HIDE DEF Iter
  <2>. QED
    BY <1>6
<1>. HIDE DEF iter
<1>8. \A S \in SUBSET (1..n) : iter[S] = IF S = {} THEN t ELSE (IF iter[S \ {Max(S)}].status = "running" THEN ParseCodepoint(iter[S \ {Max(S)}], s[Max(S)], half) ELSE iter[S \ {Max(S)}])
  BY <1>2, <1>5, <1>7
<1>. HIDE DEF Iter
<1>9. iter[{}] = t
  BY <1>8
<1>10. \A e \in X : \A k \in 1..n : step[k][e] = (IF e.status = "running" THEN ParseCodepoint(e, s[k], half) ELSE e)
  OBVIOUS
<1>. HIDE DEF step
<1>11. \A S \in SUBSET (1..n) : S # {} /\ iter[S \ {Max(S)}] \in X
                                 => iter[S] = step[Max(S)][iter[S \ {Max(S)}]]
  <2>. SUFFICES ASSUME NEW S \in SUBSET (1..n), S # {}, iter[S \ {Max(S)}] \in X
                PROVE  iter[S] = step[Max(S)][iter[S \ {Max(S)}]]
    OBVIOUS
  <2>1. Max(S) \in 1..n
    BY <1>5
  <2>2. iter[S] = (IF iter[S \ {Max(S)}].status = "running" THEN ParseCodepoint(iter[S \ {Max(S)}], s[Max(S)], half) ELSE iter[S \ {Max(S)}])
    BY <1>8
  <2>3. step[Max(S)][iter[S \ {Max(S)}]] = (IF iter[S \ {Max(S)}].status = "running" THEN ParseCodepoint(iter[S \ {Max(S)}], s[Max(S)], half) ELSE iter[S \ {Max(S)}])
    BY <1>2, <1>10, <2>1
  <2>. QED
    BY <2>2, <2>3
<1>14. FoldsOn(iter, X, t, step, n)
  BY <1>3, <1>9, <1>11 DEF FoldsOn
<1>12. PICK r \in [0..n -> X] :
         r[0] = t /\ (\A k \in 1..n : r[k] = step[k][r[k - 1]]) /\ iter[1..n] = r[n]
  BY <1>14, FoldUnrolled
<1>13. n \in 0..n
  OBVIOUS
<1>. QED
  BY <1>1, <1>2, <1>12, <1>13

\* The cells of a row are copied: each is one reference more.
LEMMA CopySound ==
  ASSUME NEW h, NEW f, NEW a, NEW u, Sound(h, f, a, u), NEW s \in Seq(Cells), NEW g \in Counts,
         \A x \in Objects : g[x] = f[x] + InRow(s, x),
         \A k \in 1..Len(s) : s[k].so \in Objects => f[s[k].so] > 0
  PROVE  Sound(CopyCells(h, s), g, a, u)
<1>. DEFINE n == Len(s)
            F(k) == [x \in Objects |-> f[x] + Upto(s, k, x)]
<1>1. n \in Nat /\ DOMAIN s = 1..n /\ h \in Heaps /\ f \in Counts
  BY DEF Sound
<1>2. \A k \in 1..n : s[k].so \in Pointers
  <2>1. \A k \in 1..n : s[k] \in Cells
    OBVIOUS
  <2>. HIDE DEF n
  <2>. QED
    BY <2>1 DEF Cells
<1>. HIDE DEF n
<1>3. PICK r : Attaches(r, h, s, n) /\ CopyCells(h, s) = r[n]
  BY <1>1, <1>2, CopySteps
<1>4. r[0] = h /\ (\A k \in 1..n : r[k] = Attach(r[k - 1], s[k].so)) /\ CopyCells(h, s) = r[n]
  BY <1>3 DEF Attaches
<1>5. \A x \in Objects : /\ f[x] \in Nat /\ Upto(s, 0, x) = 0
                         /\ \A k \in 0..n : Upto(s, k, x) \in Nat
                         /\ \A k \in 1..n : Upto(s, k, x) = Upto(s, k - 1, x) + One(s[k].so, x)
  <2>1. \A x \in Objects : f[x] \in Nat
    BY <1>1 DEF Counts
  <2>2. \A x : Upto(s, 0, x) = 0 /\ \A k \in 0..n : Upto(s, k, x) \in Nat
    BY <1>1, UptoNat
  <2>3. \A x : \A k \in 1..n : Upto(s, k, x) = Upto(s, k - 1, x) + One(s[k].so, x)
    <3>1. \A k \in 1..n : k \in Nat \ {0}
      OBVIOUS
    <3>. QED
      BY <3>1, UptoNext
  <2>. QED
    BY <2>1, <2>2, <2>3
<1>. DEFINE P == {k \in 0..n : Sound(r[k], F(k), a, u)}
<1>6. 0 \in P
  <2>1. F(0) = f
    BY <1>1, <1>5 DEF Counts
  <2>2. Sound(r[0], F(0), a, u)
    BY <1>4, <2>1
  <2>. HIDE DEF F
  <2>. QED
    BY <1>1, <2>2
<1>7. ASSUME NEW k \in 1..n, k - 1 \in P PROVE k \in P
  <2>1. k \in 0..n /\ k - 1 \in 0..n
    BY <1>1
  <2>2. Sound(r[k - 1], F(k - 1), a, u)
    <3>. HIDE DEF F
    <3>. QED
      BY <1>7, <2>1
  <2>3. F(k) \in Counts
    <3>1. \A x \in Objects : f[x] + Upto(s, k, x) \in Nat
      BY <1>5, <2>1
    <3>. QED
      BY <3>1 DEF Counts
  <2>6. \A x \in Objects : F(k)[x] = F(k - 1)[x] + One(s[k].so, x)
    BY <1>5, <2>1 DEF One
  <2>4. s[k].so \in Pointers /\ (s[k].so \in Objects => F(k - 1)[s[k].so] > 0)
    BY <1>1, <1>2, <1>5, <2>1 DEF n
  <2>. HIDE DEF F
  <2>5. Sound(Attach(r[k - 1], s[k].so), F(k), a, u)
    BY <2>2, <2>3, <2>4, <2>6, AttachSound
  <2>. QED
    BY <1>4, <2>1, <2>5
<1>8. n \in P
  <2>. HIDE DEF P
  <2>. QED
    BY <1>1, <1>6, <1>7, StepByStep
<1>9. Sound(r[n], F(n), a, u)
  <2>. HIDE DEF F
  <2>. QED
    BY <1>1, <1>8
<1>10. F(n) = g
  BY <1>1 DEF Counts, InRow, n
<1>. HIDE DEF F
<1>12. Sound(r[n], g, a, u)
  BY <1>9, <1>10
<1>. QED
  BY <1>4, <1>12

\* The cells of a row are overwritten or deleted: each is one reference less.
LEMMA FillSound ==
  ASSUME NEW h, NEW f, NEW a, NEW u, Sound(h, f, a, u), NEW s \in Seq(Cells), NEW g \in Counts,
         \A x \in Objects : f[x] = g[x] + InRow(s, x),
         a \in Objects => g[a] > 0
  PROVE  Sound(FillCells(h, s), g, a, u) /\ DeleteCells(h, s) = FillCells(h, s)
<1>. DEFINE n == Len(s)
            F(k) == [x \in Objects |-> f[x] - Upto(s, k, x)]
<1>1. n \in Nat /\ DOMAIN s = 1..n /\ h \in Heaps /\ f \in Counts
  BY DEF Sound
<1>2. \A k \in 1..n : s[k].so \in Pointers
  <2>1. \A k \in 1..n : s[k] \in Cells
    OBVIOUS
  <2>. HIDE DEF n
  <2>. QED
    BY <2>1 DEF Cells
<1>0. \A x \in Objects : f[x] = g[x] + Upto(s, n, x)
  BY DEF InRow
<1>. HIDE DEF n
<1>3. PICK r : Detaches(r, h, s, n) /\ FillCells(h, s) = r[n]
  BY <1>1, <1>2, FillSteps
<1>4. r[0] = h /\ (\A k \in 1..n : r[k] = Detach(r[k - 1], s[k].so)) /\ FillCells(h, s) = r[n]
  BY <1>3 DEF Detaches
<1>5. \A x \in Objects : /\ f[x] \in Nat /\ g[x] \in Nat /\ Upto(s, 0, x) = 0
                         /\ \A k \in 0..n : Upto(s, k, x) \in Nat /\ Upto(s, k, x) <= Upto(s, n, x)
                         /\ \A k \in 1..n : Upto(s, k, x) = Upto(s, k - 1, x) + One(s[k].so, x)
  <2>1. \A x \in Objects : f[x] \in Nat /\ g[x] \in Nat
    BY <1>1 DEF Counts
  <2>2. \A x : Upto(s, 0, x) = 0 /\ \A k \in 0..n : Upto(s, k, x) \in Nat /\ Upto(s, k, x) <= Upto(s, n, x)
    BY <1>1, UptoNat
  <2>3. \A x : \A k \in 1..n : Upto(s, k, x) = Upto(s, k - 1, x) + One(s[k].so, x)
    <3>1. \A k \in 1..n : k \in Nat \ {0}
      OBVIOUS
    <3>. QED
      BY <3>1, UptoNext
  <2>. QED
    BY <2>1, <2>2, <2>3
<1>. DEFINE P == {k \in 0..n : Sound(r[k], F(k), a, u)}
<1>6. 0 \in P
  <2>1. F(0) = f
    BY <1>1, <1>5 DEF Counts
  <2>2. Sound(r[0], F(0), a, u)
    BY <1>4, <2>1
  <2>. HIDE DEF F
  <2>. QED
    BY <1>1, <2>2
<1>7. ASSUME NEW k \in 1..n, k - 1 \in P PROVE k \in P
  <2>1. k \in 0..n /\ k - 1 \in 0..n
    BY <1>1
  <2>2. Sound(r[k - 1], F(k - 1), a, u)
    <3>. HIDE DEF F
    <3>. QED
      BY <1>7, <2>1
  <2>3. F(k) \in Counts
    <3>1. \A x \in Objects : f[x] - Upto(s, k, x) \in Nat
      <4>. SUFFICES ASSUME NEW x \in Objects PROVE f[x] - Upto(s, k, x) \in Nat
        OBVIOUS
      <4>1. /\ f[x] = g[x] + Upto(s, n, x) /\ g[x] \in Nat /\ Upto(s, n, x) \in Nat
            /\ Upto(s, k, x) \in Nat /\ Upto(s, k, x) <= Upto(s, n, x)
        BY <1>0, <1>1, <1>5, <2>1
      <4>. QED
        BY <4>1
    <3>. QED
      BY <3>1 DEF Counts
  <2>4. \A x \in Objects : F(k - 1)[x] = F(k)[x] + One(s[k].so, x)
    BY <1>5, <2>1 DEF One
  <2>5. s[k].so \in Pointers
    BY <1>2
  <2>6. a \in Objects => F(k)[a] > 0
    <3>1. ASSUME a \in Objects PROVE F(k)[a] > 0
      <4>1. /\ f[a] = g[a] + Upto(s, n, a) /\ g[a] \in Nat /\ g[a] > 0 /\ Upto(s, n, a) \in Nat
            /\ Upto(s, k, a) \in Nat /\ Upto(s, k, a) <= Upto(s, n, a)
        BY <1>0, <1>1, <1>5, <2>1, <3>1
      <4>. QED
        BY <3>1, <4>1
    <3>. QED
      BY <3>1
  <2>. HIDE DEF F
  <2>7. Sound(Detach(r[k - 1], s[k].so), F(k), a, u)
    BY <2>2, <2>3, <2>4, <2>5, <2>6, DetachSound
  <2>. QED
    BY <1>4, <2>1, <2>7
<1>8. n \in P
  <2>. HIDE DEF P
  <2>. QED
    BY <1>1, <1>6, <1>7, StepByStep
<1>9. Sound(r[n], F(n), a, u)
  <2>. HIDE DEF F
  <2>. QED
    BY <1>1, <1>8
<1>10. F(n) = g
  <2>1. \A x \in Objects : f[x] - Upto(s, n, x) = g[x]
    BY <1>0, <1>1, <1>5
  <2>. QED
    BY <2>1 DEF Counts
<1>11. DeleteCells(h, s) = FillCells(h, s)
  BY DEF DeleteCells, FillCells
<1>. HIDE DEF F
<1>12. Sound(r[n], g, a, u)
  BY <1>9, <1>10
<1>. QED
  BY <1>4, <1>12, <1>11

-----------------------------------------------------------------------------
(* The terminal: what the operators of Hyperlinks do to the count. *)

\* The types of what the reader changes.
Screens == [1..Height -> Rows]

States == {t[3] : t \in Transitions} \cup {"ready", "invalid"}

Matchers == [state : States, size : Nat]

Terminals ==
  [rows : Screens,
   backup : [rows : Screens, x : 0..Width, y : 0..(Height - 1)],
   alternate : BOOLEAN, history : Seq(Rows), x : 0..Width, y : 0..(Height - 1),
   matcher : Matchers, heap : Heaps, link : Pointers, status : {"running", "undefined"},
   cut : BOOLEAN, mixed : SUBSET Objects]

\* The references to an object: from all that is kept, from the pointers of the
\* terminal t, and from two more, p and a.
Refs(t, p, a) ==
  [o \in Objects |->
     InRows(t.history, Len(t.history), o) + InRows(t.rows, Height, o)
       + InRows(t.backup.rows, Height, o) + One(t.link, o) + One(p, o) + One(a, o)]

\* Every reference is counted: of the terminal t, of one more pointer p that is
\* held by the code that runs, and of the link a the mouse is on, whose address
\* is u.
Good(t, p, a, u) ==
  /\ t \in Terminals /\ Len(t.history) <= MaxHistoryRows
  /\ p \in Pointers /\ a \in Pointers
  /\ Sound(t.heap, Refs(t, p, a), a, u)

\* The sizes of the screen.
LEMMA Sizes ==
  /\ Width \in Nat /\ Width > 0 /\ Height \in Nat /\ Height > 0 /\ MaxHistoryRows \in Nat
  /\ Width \in 1..Width /\ 1 \in 1..Height /\ Height - 1 \in Nat
BY ScreenAssumption

\* A place is a cell of the screen.
LEMMA PlaceFacts ==
  ASSUME NEW place \in Places
  PROVE  RowOf(place) \in 1..Height /\ ColumnOf(place) \in 1..Width
<1>. DEFINE q == place \div Width
            r == place % Width
<1>1. place \in Nat /\ place < Width * Height
  BY Sizes DEF Places
<1>2. q \in Nat /\ r \in 0..(Width - 1) /\ place = Width * q + r
  BY <1>1, Sizes
<1>. HIDE DEF q, r
<1>3. q < Height
  <2>. SUFFICES ASSUME q >= Height PROVE FALSE
    BY <1>2, Sizes
  <2>1. Width * q >= Width * Height
    BY <1>2, Sizes
  <2>2. Width * q \in Nat /\ Width * Height \in Nat
    BY <1>2, Sizes
  <2>. QED
    BY <1>1, <1>2, <2>1, <2>2
<1>. QED
  BY <1>2, <1>3, Sizes DEF RowOf, ColumnOf, q, r

\* The cells before the cursor are places, and the one at it, unless it is
\* behind a full line.
LEMMA Places1 ==
  ASSUME NEW t, t.x \in 0..Width, t.y \in 0..(Height - 1)
  PROVE  /\ Place(t, 0) \in Nat
         /\ t.x < Width => Place(t, 0) \in Places
         /\ \A k \in 1..Place(t, 0) : Place(t, k) \in Places
<1>1. t.y * Width \in Nat /\ t.y * Width <= (Height - 1) * Width
  BY Sizes
<1>2. (Height - 1) * Width = Width * Height - Width /\ Width * Height \in Nat
  BY Sizes
<1>. DEFINE m == t.y * Width
            n == Width * Height
<1>3. m \in Nat /\ m <= n - Width /\ n \in Nat
  BY <1>1, <1>2
<1>4. Place(t, 0) = m + t.x /\ \A k \in Nat : Place(t, k) = m + t.x - k
  BY <1>1, Sizes DEF Place
<1>5. Places = 0..(n - 1)
  BY DEF Places
<1>. HIDE DEF m, n
<1>6. t.x \in Nat /\ t.x <= Width /\ Width \in Nat
  BY Sizes
<1>7. Place(t, 0) \in Nat /\ Place(t, 0) <= n
  BY <1>3, <1>4, <1>6
<1>8. t.x < Width => Place(t, 0) \in Places
  BY <1>3, <1>4, <1>5, <1>6
<1>9. ASSUME NEW k \in 1..Place(t, 0) PROVE Place(t, k) \in Places
  <2>1. k \in Nat /\ k >= 1 /\ k <= Place(t, 0)
    BY <1>7
  <2>2. Place(t, k) = Place(t, 0) - k
    BY <1>3, <1>4, <1>6, <2>1
  <2>. QED
    BY <1>3, <1>5, <1>7, <2>1, <2>2
<1>. QED
  BY <1>7, <1>8, <1>9

\* A screen as a sequence of rows.
LEMMA RowsCount ==
  ASSUME NEW R \in Screens, NEW o
  PROVE  /\ InRows(R, Height, o) \in Nat
         /\ \A j \in 1..Height, i \in 1..Width : R[j][i].so = o => InRows(R, Height, o) > 0
         /\ R \in Seq(Rows) /\ Len(R) = Height /\ R # << >>
<1>1. InRows(R, Height, o) \in Nat
      /\ ((\E j \in 1..Height, i \in 1..Width : R[j][i].so = o) => InRows(R, Height, o) > 0)
  BY Sizes, InRowsNat
<1>2. R \in Seq(Rows) /\ Len(R) = Height /\ R # << >>
  BY Sizes DEF Screens
<1>. QED
  BY <1>1, <1>2

\* Whatever a cell or a pointer refers to has a reference.
LEMMA RefsNat ==
  ASSUME NEW t \in Terminals, NEW p, NEW a
  PROVE  /\ Refs(t, p, a) \in Counts
         /\ p \in Objects => Refs(t, p, a)[p] > 0
         /\ a \in Objects => Refs(t, p, a)[a] > 0
         /\ t.link \in Objects => Refs(t, p, a)[t.link] > 0
         /\ \A o \in Objects : \A j \in 1..Height, i \in 1..Width :
              t.rows[j][i].so = o => Refs(t, p, a)[o] > 0
<1>. DEFINE H(o) == InRows(t.history, Len(t.history), o)
            R(o) == InRows(t.rows, Height, o)
            B(o) == InRows(t.backup.rows, Height, o)
<1>1. t.history \in Seq(Rows) /\ Len(t.history) \in Nat /\ t.rows \in Screens /\ t.backup.rows \in Screens
  BY DEF Terminals
<1>2. \A o : H(o) \in Nat
  BY <1>1, Sizes, InRowsNat
<1>3. \A o : R(o) \in Nat /\ \A j \in 1..Height, i \in 1..Width : t.rows[j][i].so = o => R(o) > 0
  BY <1>1, RowsCount
<1>4. \A o : B(o) \in Nat
  BY <1>1, RowsCount
<1>5. \A o \in Objects : Refs(t, p, a)[o] = H(o) + R(o) + B(o) + One(t.link, o) + One(p, o) + One(a, o)
  BY DEF Refs
<1>6. \A x, o : One(x, o) \in Nat /\ One(o, o) = 1
  BY DEF One
<1>. HIDE DEF H, R, B
<1>7. \A o \in Objects : Refs(t, p, a)[o] \in Nat
  BY <1>2, <1>3, <1>4, <1>5, <1>6
<1>8. Refs(t, p, a) \in Counts
  BY <1>7 DEF Counts, Refs
<1>9. \A o \in Objects : /\ Refs(t, p, a)[o] >= One(t.link, o) /\ Refs(t, p, a)[o] >= One(p, o)
                         /\ Refs(t, p, a)[o] >= One(a, o) /\ Refs(t, p, a)[o] >= R(o)
  BY <1>2, <1>3, <1>4, <1>5, <1>6
<1>10. p \in Objects => Refs(t, p, a)[p] > 0
  BY <1>6, <1>7, <1>9
<1>11. a \in Objects => Refs(t, p, a)[a] > 0
  BY <1>6, <1>7, <1>9
<1>12. t.link \in Objects => Refs(t, p, a)[t.link] > 0
  BY <1>6, <1>7, <1>9
<1>13. \A o \in Objects : \A j \in 1..Height, i \in 1..Width :
         t.rows[j][i].so = o => Refs(t, p, a)[o] > 0
  BY <1>3, <1>7, <1>9
<1>. QED
  BY <1>8, <1>10, <1>11, <1>12, <1>13

\* The cell at a place.
LEMMA CellFacts ==
  ASSUME NEW t \in Terminals, NEW place \in Places, NEW p, NEW a
  PROVE  /\ CellAt(t, place) \in Cells
         /\ CellAt(t, place).so \in Pointers /\ CellAt(t, place).c \in Characters
         /\ CellAt(t, place).so \in Objects => Refs(t, p, a)[CellAt(t, place).so] > 0
<1>1. RowOf(place) \in 1..Height /\ ColumnOf(place) \in 1..Width
  BY PlaceFacts
<1>2. t.rows \in [1..Height -> [1..Width -> Cells]]
  BY DEF Terminals, Screens, Rows
<1>3. CellAt(t, place) \in Cells
  BY <1>1, <1>2 DEF CellAt
<1>4. CellAt(t, place).so \in Objects => Refs(t, p, a)[CellAt(t, place).so] > 0
  BY <1>1, RefsNat DEF CellAt
<1>. QED
  BY <1>3, <1>4 DEF Cells

\* A cell gets another object, one that has a reference, or none.
LEMMA SetObjectGood ==
  ASSUME NEW t, NEW p, NEW a, NEW u, Good(t, p, a, u), NEW place \in Places, NEW o \in Pointers,
         o \in Objects => Refs(t, p, a)[o] > 0
  PROVE  LET v == SetObject(t, place, o) IN
         /\ Good(v, p, a, u)
         /\ v.link = t.link /\ v.x = t.x /\ v.y = t.y /\ v.status = t.status
<1>. DEFINE v == SetObject(t, place, o)
            j == RowOf(place)
            i == ColumnOf(place)
            Q == WithObject(t.rows, j, i, o)
            old == t.rows[j][i].so
            k == Assign(t.heap, old, o)
<1>1. t \in Terminals /\ p \in Pointers /\ a \in Pointers /\ Sound(t.heap, Refs(t, p, a), a, u)
      /\ t.rows \in Screens
  BY DEF Good, Terminals
<1>2. j \in 1..Height /\ i \in 1..Width
  BY PlaceFacts
<1>3. old \in Pointers /\ (old \in Objects => Refs(t, p, a)[old] > 0)
  BY <1>1, CellFacts DEF CellAt
<1>4. v = [t EXCEPT !.heap = k, !.rows = Q]
  BY <1>1 DEF SetObject, CellAt, Terminals, WithObject
<1>5. Q \in Screens /\ \A x : /\ InRows(t.rows, Height, x) \in Nat /\ InRows(Q, Height, x) \in Nat
                              /\ InRows(Q, Height, x) + One(old, x) = InRows(t.rows, Height, x) + One(o, x)
  <2>1. t.rows \in [1..Height -> Rows] /\ Height \in Nat /\ Width \in Nat
    BY <1>1, Sizes DEF Screens
  <2>. HIDE DEF j, i
  <2>2. /\ Q \in [1..Height -> Rows] /\ Q[j][i].so = o
        /\ \A l \in 1..Height : \A m \in 1..Width : (l = j /\ m = i) \/ Q[l][m] = t.rows[l][m]
    <3>. DEFINE R == t.rows
    <3>1. /\ R \in [1..Height -> Rows] /\ Height \in Nat /\ o \in Pointers
          /\ j \in 1..Height /\ i \in 1..Width /\ Q = WithObject(R, j, i, o)
      BY <1>2, <2>1
    <3>. HIDE DEF R, Q
    <3>2. LET P == WithObject(R, j, i, o) IN
          /\ P \in [1..Height -> Rows] /\ P[j][i].so = o
          /\ \A l \in 1..Height : \A m \in 1..Width : (l = j /\ m = i) \/ P[l][m] = R[l][m]
      BY ONLY <3>1, CellChange
    <3>. QED
      BY <3>1, <3>2 DEF R
  <2>. HIDE DEF Q
  <2>3. \A x : /\ InRows(t.rows, Height, x) \in Nat /\ InRows(Q, Height, x) \in Nat
               /\ InRows(Q, Height, x) + One(old, x) = InRows(t.rows, Height, x) + One(o, x)
    <3>. TAKE x
    <3>1. /\ InRows(t.rows, Height, x) \in Nat /\ InRows(Q, Height, x) \in Nat
          /\ InRows(Q, Height, x) + One(t.rows[j][i].so, x) = InRows(t.rows, Height, x) + One(Q[j][i].so, x)
      BY <1>2, <2>1, <2>2, CellCount
    <3>. QED
      BY <2>2, <3>1
  <2>. QED
    BY <2>2, <2>3 DEF Screens
<1>. HIDE DEF Q, k, old, j, i
<1>6. k \in Heaps => v \in Terminals
  BY <1>1, <1>4, <1>5 DEF Terminals
<1>7. /\ v.heap = k /\ v.rows = Q /\ v.history = t.history /\ v.backup = t.backup /\ v.link = t.link
      /\ v.x = t.x /\ v.y = t.y /\ v.status = t.status
  BY <1>1, <1>4 DEF Terminals
<1>. HIDE DEF v
<1>. DEFINE f == Refs(t, p, a)
            g == Refs(v, p, a)
<1>8. \A x \in Objects : g[x] + One(old, x) = f[x] + One(o, x)
  <2>. SUFFICES ASSUME NEW x \in Objects PROVE g[x] + One(old, x) = f[x] + One(o, x)
    OBVIOUS
  <2>1. \A y, z : One(y, z) \in Nat
    BY DEF One
  <2>2. /\ InRows(t.history, Len(t.history), x) \in Nat /\ InRows(t.backup.rows, Height, x) \in Nat
    <3>1. t.history \in Seq(Rows) /\ t.backup.rows \in Screens
      BY <1>1 DEF Terminals
    <3>2. Len(t.history) \in Nat
      BY <3>1
    <3>. QED
      BY <3>1, <3>2, Sizes, InRowsNat
  <2>3. g[x] = InRows(t.history, Len(t.history), x) + InRows(Q, Height, x)
                 + InRows(t.backup.rows, Height, x) + One(t.link, x) + One(p, x) + One(a, x)
    BY <1>7 DEF Refs
  <2>4. f[x] = InRows(t.history, Len(t.history), x) + InRows(t.rows, Height, x)
                 + InRows(t.backup.rows, Height, x) + One(t.link, x) + One(p, x) + One(a, x)
    BY DEF Refs
  <2>. HIDE DEF f, g
  <2>5. /\ One(t.link, x) \in Nat /\ One(p, x) \in Nat /\ One(a, x) \in Nat
        /\ One(old, x) \in Nat /\ One(o, x) \in Nat
    BY <2>1
  <2>6. /\ InRows(t.rows, Height, x) \in Nat /\ InRows(Q, Height, x) \in Nat
        /\ InRows(Q, Height, x) + One(old, x) = InRows(t.rows, Height, x) + One(o, x)
    BY <1>5
  <2>. DEFINE H == InRows(t.history, Len(t.history), x)
              B == InRows(t.backup.rows, Height, x)
              R == InRows(t.rows, Height, x)
              S == InRows(Q, Height, x)
              l == One(t.link, x)
              m == One(p, x)
              e == One(a, x)
              c == One(old, x)
              d == One(o, x)
  <2>7. H \in Nat /\ B \in Nat /\ R \in Nat /\ S \in Nat /\ l \in Nat /\ m \in Nat /\ e \in Nat
        /\ c \in Nat /\ d \in Nat /\ S + c = R + d
    BY <2>2, <2>5, <2>6
  <2>8. g[x] = H + S + B + l + m + e /\ f[x] = H + R + B + l + m + e
    BY <2>3, <2>4
  <2>. HIDE DEF H, B, R, S, l, m, e, c, d
  <2>9. g[x] + c = f[x] + d
    BY <2>7, <2>8
  <2>. QED
    BY <2>9 DEF c, d
<1>9. g \in Counts /\ (a \in Objects => g[a] > 0)
  <2>1. t.history \in Seq(Rows) /\ t.backup.rows \in Screens /\ Len(t.history) \in Nat
    BY <1>1 DEF Terminals
  <2>2. \A x : InRows(t.history, Len(t.history), x) \in Nat /\ InRows(t.backup.rows, Height, x) \in Nat
    BY <2>1, Sizes, InRowsNat
  <2>3. \A y, z : One(y, z) \in Nat /\ One(z, z) = 1
    BY DEF One
  <2>4. \A x \in Objects :
          g[x] = InRows(t.history, Len(t.history), x) + InRows(Q, Height, x)
                   + InRows(t.backup.rows, Height, x) + One(t.link, x) + One(p, x) + One(a, x)
    BY <1>7 DEF Refs
  <2>5. g = [x \in Objects |-> g[x]]
    BY DEF Refs
  <2>. HIDE DEF g
  <2>6. \A x \in Objects : g[x] \in Nat /\ g[x] >= One(a, x)
    BY <1>5, <2>2, <2>3, <2>4
  <2>7. a \in Objects => g[a] > 0
    BY <2>3, <2>6
  <2>. QED
    BY <2>5, <2>6, <2>7 DEF Counts
<1>. HIDE DEF f, g
<1>10. Sound(t.heap, f, a, u)
  BY <1>1 DEF f
<1>11. (old \in Objects => f[old] > 0) /\ (o \in Objects => f[o] > 0)
  BY <1>3 DEF f
<1>12. Sound(k, g, a, u)
  BY <1>3, <1>8, <1>9, <1>10, <1>11, AssignSound DEF k
<1>13. k \in Heaps
  BY <1>12 DEF Sound
<1>14. Good(v, p, a, u)
  BY <1>1, <1>6, <1>7, <1>12, <1>13 DEF Good, g
<1>. QED
  BY <1>7, <1>14 DEF v

\* Refs as a sum of natural numbers.
LEMMA RefsSum ==
  ASSUME NEW t, t.history \in Seq(Rows), t.rows \in Screens, t.backup.rows \in Screens,
         NEW p, NEW a
  PROVE  /\ Refs(t, p, a) \in Counts
         /\ a \in Objects => Refs(t, p, a)[a] > 0
         /\ \A o \in Objects :
              /\ InRows(t.history, Len(t.history), o) \in Nat /\ InRows(t.rows, Height, o) \in Nat
              /\ InRows(t.backup.rows, Height, o) \in Nat
              /\ One(t.link, o) \in Nat /\ One(p, o) \in Nat /\ One(a, o) \in Nat
              /\ Refs(t, p, a)[o] = InRows(t.history, Len(t.history), o) + InRows(t.rows, Height, o)
                                      + InRows(t.backup.rows, Height, o)
                                      + One(t.link, o) + One(p, o) + One(a, o)
<1>. DEFINE g == Refs(t, p, a)
<1>1. \A x : InRows(t.history, Len(t.history), x) \in Nat /\ InRows(t.backup.rows, Height, x) \in Nat
             /\ InRows(t.rows, Height, x) \in Nat
  <2>1. Len(t.history) \in Nat
    OBVIOUS
  <2>. QED
    BY <2>1, Sizes, InRowsNat
<1>2. \A y, z : One(y, z) \in Nat /\ One(z, z) = 1
  BY DEF One
<1>3. \A x \in Objects :
        g[x] = InRows(t.history, Len(t.history), x) + InRows(t.rows, Height, x)
                 + InRows(t.backup.rows, Height, x) + One(t.link, x) + One(p, x) + One(a, x)
  BY DEF Refs
<1>4. g = [x \in Objects |-> g[x]]
  BY DEF Refs
<1>. HIDE DEF g
<1>5. \A x \in Objects : g[x] \in Nat /\ g[x] >= One(a, x)
  BY <1>1, <1>2, <1>3
<1>6. a \in Objects => g[a] > 0
  BY <1>2, <1>5
<1>7. g \in Counts
  BY <1>4, <1>5 DEF Counts
<1>. QED
  BY <1>1, <1>2, <1>3, <1>6, <1>7 DEF g

\* Blanks refer to nothing.
LEMMA BlankFacts ==
  /\ BlankRow \in Rows
  /\ \A o \in Objects : InRow(BlankRow, o) = 0
  /\ [j \in 1..Height |-> BlankRow] \in Screens
  /\ \A o \in Objects : InRows([j \in 1..Height |-> BlankRow], Height, o) = 0
<1>1. Cell \in Cells /\ Cell.so = NoObject
  BY DEF Cell, Cells, Characters, Pointers
<1>2. BlankRow \in Rows /\ \A i \in 1..Width : BlankRow[i] = Cell
  BY <1>1 DEF BlankRow, Rows
<1>3. \A o \in Objects : o # NoObject
  BY ObjectsAssumption
<1>4. ASSUME NEW o \in Objects PROVE InRow(BlankRow, o) = 0
  <2>1. \A k \in 1..Width : BlankRow[k].so # o
    BY <1>1, <1>2, <1>3
  <2>2. Upto(BlankRow, Width, o) = 0
    BY <2>1, Sizes, UptoNat
  <2>. QED
    BY <1>2, <2>2, Sizes, RowFacts
<1>. DEFINE R == [j \in 1..Height |-> BlankRow]
<1>5. R \in Screens /\ \A j \in 1..Height : R[j] = BlankRow
  BY <1>2 DEF Screens
<1>6. ASSUME NEW o \in Objects PROVE InRows(R, Height, o) = 0
  <2>. HIDE DEF R
  <2>1. \A j \in 1..Height, i \in 1..Width : R[j][i].so # o
    BY <1>1, <1>2, <1>3, <1>5
  <2>. QED
    BY <2>1, Sizes, InRowsNat
<1>. QED
  BY <1>2, <1>4, <1>5, <1>6

\* The references there are while a row is copied.
AndRow(t, p, a, row) == [x \in Objects |-> Refs(t, p, a)[x] + InRow(row, x)]

\* The row that comes to the history has been counted already.
LEMMA AddHistoryRowGood ==
  ASSUME NEW t \in Terminals, Len(t.history) <= MaxHistoryRows, NEW p \in Pointers, NEW a \in Pointers,
         NEW u, NEW row \in Rows, Sound(t.heap, AndRow(t, p, a, row), a, u)
  PROVE  LET v == AddHistoryRow(t, row) IN
         /\ Good(v, p, a, u)
         /\ v.rows = t.rows /\ v.link = t.link /\ v.x = t.x /\ v.y = t.y /\ v.status = t.status
<1>. DEFINE h == Append(t.history, row)
            v == AddHistoryRow(t, row)
            old == Refs(t, p, a)
            new == Refs(v, p, a)
            f == AndRow(t, p, a, row)
<1>0. Sound(t.heap, f, a, u) /\ \A x \in Objects : f[x] = Refs(t, p, a)[x] + InRow(row, x)
  BY DEF AndRow
<1>. HIDE DEF f
<1>1. t.history \in Seq(Rows) /\ t.rows \in Screens /\ t.backup.rows \in Screens
      /\ Len(t.history) \in Nat /\ t.heap \in Heaps
  BY DEF Terminals
<1>2. h \in Seq(Rows) /\ Len(h) = Len(t.history) + 1 /\ h # << >>
      /\ \A x : InRows(h, Len(h), x) = InRows(t.history, Len(t.history), x) + InRow(row, x)
  <2>1. h \in Seq(Rows) /\ Len(h) = Len(t.history) + 1
    BY <1>1
  <2>2. \A x : InRows(h, Len(t.history) + 1, x) = InRows(t.history, Len(t.history), x) + InRow(row, x)
    BY <1>1, Sizes, ScrollCount
  <2>3. h # << >>
    BY <1>1, <2>1
  <2>. QED
    BY <2>1, <2>2, <2>3
<1>. HIDE DEF h
<1>3. \A x \in Objects :
        /\ InRows(t.history, Len(t.history), x) \in Nat /\ InRows(t.rows, Height, x) \in Nat
        /\ InRows(t.backup.rows, Height, x) \in Nat
        /\ One(t.link, x) \in Nat /\ One(p, x) \in Nat /\ One(a, x) \in Nat
        /\ old[x] = InRows(t.history, Len(t.history), x) + InRows(t.rows, Height, x)
                      + InRows(t.backup.rows, Height, x)
                      + One(t.link, x) + One(p, x) + One(a, x)
  BY ONLY <1>1, RefsSum
<1>4. \A x : InRow(row, x) \in Nat
  BY Sizes, RowFacts
<1>5. CASE Len(h) <= MaxHistoryRows
  <2>1. v = [t EXCEPT !.history = h]
    BY <1>5 DEF AddHistoryRow, h
  <2>2. /\ v \in Terminals /\ v.history = h /\ v.rows = t.rows /\ v.backup = t.backup /\ v.heap = t.heap
        /\ v.link = t.link /\ v.x = t.x /\ v.y = t.y /\ v.status = t.status
    BY <1>2, <2>1 DEF Terminals
  <2>. HIDE DEF v
  <2>3. new \in Counts /\ \A x \in Objects : new[x] = f[x]
    <3>1. new \in Counts
      BY <1>1, <1>2, <2>2, RefsSum
    <3>2. ASSUME NEW x \in Objects PROVE new[x] = f[x]
      <4>1. new[x] = InRows(h, Len(h), x) + InRows(t.rows, Height, x) + InRows(t.backup.rows, Height, x)
                       + One(t.link, x) + One(p, x) + One(a, x)
        BY <2>2 DEF Refs
      <4>. HIDE DEF old, new
      <4>2. f[x] = old[x] + InRow(row, x)
        BY <1>0 DEF old
      <4>3. InRows(h, Len(h), x) = InRows(t.history, Len(t.history), x) + InRow(row, x)
        BY <1>2
      <4>. DEFINE H == InRows(t.history, Len(t.history), x)
                  S == InRows(h, Len(h), x)
                  R == InRows(t.rows, Height, x)
                  B == InRows(t.backup.rows, Height, x)
                  l == One(t.link, x)
                  m == One(p, x)
                  e == One(a, x)
                  w == InRow(row, x)
      <4>4. /\ H \in Nat /\ R \in Nat /\ B \in Nat /\ l \in Nat /\ m \in Nat /\ e \in Nat /\ w \in Nat
            /\ old[x] = H + R + B + l + m + e /\ S = H + w /\ new[x] = S + R + B + l + m + e
            /\ f[x] = old[x] + w
        BY <1>3, <1>4, <4>1, <4>2, <4>3
      <4>. HIDE DEF H, S, R, B, l, m, e, w
      <4>. QED
        BY ONLY <4>4
    <3>. QED
      BY <3>1, <3>2
  <2>4. f \in Counts
    BY <1>0 DEF Sound
  <2>. HIDE DEF new
  <2>5. new = f
    BY <2>3, <2>4 DEF Counts
  <2>6. Good(v, p, a, u)
    BY <1>0, <1>2, <1>5, <2>2, <2>5 DEF Good, new
  <2>. QED
    BY <2>2, <2>6 DEF v
<1>6. CASE ~ (Len(h) <= MaxHistoryRows)
  <2>. DEFINE k == DeleteCells(t.heap, Head(h))
              rest == Tail(h)
  <2>1. v = [t EXCEPT !.history = rest, !.heap = k]
    BY <1>6 DEF AddHistoryRow, h
  <2>2. /\ Head(h) \in Rows /\ rest \in Seq(Rows) /\ Len(rest) = Len(h) - 1
        /\ \A x : InRows(h, Len(h), x) = InRow(Head(h), x) + InRows(rest, Len(rest), x)
    <3>1. Head(h) \in Rows /\ rest \in Seq(Rows) /\ Len(rest) = Len(h) - 1
      BY <1>2
    <3>2. \A x : InRows(h, Len(h), x) = InRow(Head(h), x) + InRows(rest, Len(h) - 1, x)
      BY <1>2, Sizes, ScrollCount
    <3>. QED
      BY <3>1, <3>2
  <2>. HIDE DEF k, rest
  <2>3. /\ v.history = rest /\ v.rows = t.rows /\ v.backup = t.backup /\ v.heap = k
        /\ v.link = t.link /\ v.x = t.x /\ v.y = t.y /\ v.status = t.status
        /\ k \in Heaps => v \in Terminals
    BY <2>1, <2>2 DEF Terminals
  <2>. HIDE DEF v
  <2>4. new \in Counts /\ (a \in Objects => new[a] > 0)
    BY <1>1, <2>2, <2>3, RefsSum
  <2>5. ASSUME NEW x \in Objects PROVE f[x] = new[x] + InRow(Head(h), x)
    <3>1. new[x] = InRows(rest, Len(rest), x) + InRows(t.rows, Height, x) + InRows(t.backup.rows, Height, x)
                     + One(t.link, x) + One(p, x) + One(a, x)
      BY <2>3 DEF Refs
    <3>2. InRow(Head(h), x) \in Nat /\ InRows(rest, Len(rest), x) \in Nat
      <4>1. Len(rest) \in Nat
        BY <2>2
      <4>. QED
        BY <2>2, <4>1, Sizes, RowFacts, InRowsNat
    <3>. HIDE DEF old, new
    <3>3. f[x] = old[x] + InRow(row, x)
      BY <1>0 DEF old
    <3>4. InRow(row, x) + InRows(t.history, Len(t.history), x) = InRow(Head(h), x) + InRows(rest, Len(rest), x)
      BY <1>2, <1>3, <1>4, <2>2
    <3>. DEFINE H == InRows(t.history, Len(t.history), x)
                S == InRows(rest, Len(rest), x)
                R == InRows(t.rows, Height, x)
                B == InRows(t.backup.rows, Height, x)
                l == One(t.link, x)
                m == One(p, x)
                e == One(a, x)
                w == InRow(row, x)
                d == InRow(Head(h), x)
    <3>5. H \in Nat /\ S \in Nat /\ R \in Nat /\ B \in Nat /\ l \in Nat /\ m \in Nat /\ e \in Nat
          /\ w \in Nat /\ d \in Nat /\ w + H = d + S
      BY <1>3, <1>4, <3>2, <3>4
    <3>6. new[x] = S + R + B + l + m + e /\ f[x] = (H + R + B + l + m + e) + w
      BY <1>3, <3>1, <3>3
    <3>. HIDE DEF H, S, R, B, l, m, e, w, d
    <3>7. f[x] = new[x] + d
      BY ONLY <3>5, <3>6
    <3>. QED
      BY <3>7 DEF d
  <2>6. Head(h) \in Seq(Cells)
    BY <2>2, Sizes, RowFacts
  <2>. HIDE DEF new
  <2>7. Sound(k, new, a, u)
    BY <1>0, <2>4, <2>5, <2>6, FillSound DEF k
  <2>8. k \in Heaps
    BY <2>7 DEF Sound
  <2>9. Len(rest) <= MaxHistoryRows
    BY <1>1, <1>2, <2>2, Sizes
  <2>10. Good(v, p, a, u)
    BY <2>3, <2>7, <2>8, <2>9 DEF Good, new
  <2>. QED
    BY <2>3, <2>10 DEF v
<1>. QED
  BY <1>5, <1>6

\* Of a row that is copied every object has a reference already.
LEMMA DeleteLineGood ==
  ASSUME NEW t, NEW p, NEW a, NEW u, Good(t, p, a, u)
  PROVE  LET v == DeleteLine(t) IN
         /\ Good(v, p, a, u)
         /\ v.link = t.link /\ v.x = t.x /\ v.y = t.y /\ v.status = t.status
<1>. DEFINE row == t.rows[1]
            k == CopyCells(t.heap, row)
            t1 == [t EXCEPT !.heap = k]
            w == IF t.alternate THEN t ELSE AddHistoryRow(t1, row)
            v == DeleteLine(t)
            f == Refs(t, p, a)
<1>1. t \in Terminals /\ p \in Pointers /\ a \in Pointers /\ Sound(t.heap, f, a, u)
      /\ Len(t.history) <= MaxHistoryRows
  BY DEF Good
<1>2. t.history \in Seq(Rows) /\ t.rows \in Screens /\ t.backup.rows \in Screens
  BY <1>1 DEF Terminals
<1>3. row \in Rows /\ row = Head(t.rows)
  BY <1>2, Sizes DEF Screens
<1>4. row \in Seq(Cells) /\ Len(row) = Width /\ \A x : InRow(row, x) \in Nat
  BY <1>3, Sizes, RowFacts
<1>. HIDE DEF row
<1>5. v = [w EXCEPT !.heap = FillCells(w.heap, row), !.rows = Append(Tail(w.rows), BlankRow)]
  <2>1. v = [w EXCEPT !.heap = FillCells(@, t.rows[1]), !.rows = Append(Tail(@), BlankRow)]
    BY DEF DeleteLine, row
  <2>. HIDE DEF v, w
  <2>. QED
    BY <2>1, Zenon DEF row
<1>6. /\ Good(w, p, a, u)
      /\ w.rows = t.rows /\ w.link = t.link /\ w.x = t.x /\ w.y = t.y /\ w.status = t.status
  <2>1. CASE t.alternate
    <3>1. w = t
      BY <2>1
    <3>. QED
      BY <3>1
  <2>2. CASE ~ t.alternate
    <3>. DEFINE g == [x \in Objects |-> f[x] + InRow(row, x)]
    <3>1. f \in Counts
      BY <1>1 DEF Sound
    <3>2. g \in Counts /\ \A x \in Objects : g[x] = f[x] + InRow(row, x)
      BY <1>4, <3>1 DEF Counts
    <3>3. \A i \in 1..Len(row) : row[i].so \in Objects => f[row[i].so] > 0
      <4>1. \A i \in 1..Width : t.rows[1][i].so \in Objects => f[t.rows[1][i].so] > 0
        BY <1>1, Sizes, RefsNat
      <4>. QED
        BY <1>4, <4>1 DEF row
    <3>. HIDE DEF f, g
    <3>4. Sound(k, g, a, u)
      BY <1>1, <1>4, <3>2, <3>3, CopySound
    <3>5. k \in Heaps
      BY <3>4 DEF Sound
    <3>. HIDE DEF k
    <3>6. /\ t1 \in Terminals /\ t1.heap = k /\ t1.history = t.history /\ t1.rows = t.rows
          /\ t1.backup = t.backup /\ t1.link = t.link /\ t1.x = t.x /\ t1.y = t.y /\ t1.status = t.status
      BY <1>1, <3>5 DEF Terminals
    <3>. HIDE DEF t1
    <3>7. Refs(t1, p, a) = f
      BY <3>6 DEF Refs, f
    <3>8. LET n == AddHistoryRow(t1, row) IN
          /\ Good(n, p, a, u)
          /\ n.rows = t1.rows /\ n.link = t1.link /\ n.x = t1.x /\ n.y = t1.y /\ n.status = t1.status
      <4>1. AndRow(t1, p, a, row) = g
        BY <3>7 DEF AndRow, g
      <4>. QED
        <5>1. t1 \in Terminals /\ Len(t1.history) <= MaxHistoryRows /\ row \in Rows
              /\ Sound(t1.heap, AndRow(t1, p, a, row), a, u)
          BY <1>1, <1>3, <3>4, <3>6, <4>1
        <5>. QED
          BY ONLY <1>1, <5>1, AddHistoryRowGood
    <3>9. w = AddHistoryRow(t1, row)
      BY <2>2
    <3>. HIDE DEF w
    <3>. QED
      BY <3>6, <3>8, <3>9
  <2>. QED
    BY <2>1, <2>2
<1>. HIDE DEF w, v, k, t1
<1>. DEFINE R == Append(Tail(w.rows), BlankRow)
            j == FillCells(w.heap, row)
            old == Refs(w, p, a)
            new == Refs(v, p, a)
<1>7. w \in Terminals /\ Sound(w.heap, old, a, u) /\ w.history \in Seq(Rows) /\ w.backup.rows \in Screens
      /\ Len(w.history) <= MaxHistoryRows
  BY <1>6 DEF Good, Terminals
<1>8. R \in Screens /\ \A x \in Objects : InRows(t.rows, Height, x) = InRow(row, x) + InRows(R, Height, x)
  <2>1. t.rows \in Seq(Rows) /\ Len(t.rows) = Height /\ t.rows # << >>
    BY <1>2, RowsCount
  <2>. DEFINE rest == Tail(t.rows)
  <2>2. Head(t.rows) \in Rows /\ rest \in Seq(Rows) /\ Len(rest) = Height - 1
    BY <2>1
  <2>3. \A x : InRows(t.rows, Height, x) = InRow(Head(t.rows), x) + InRows(rest, Height - 1, x)
    <3>. TAKE x
    <3>1. InRows(t.rows, Len(t.rows), x) = InRow(Head(t.rows), x) + InRows(rest, Len(t.rows) - 1, x)
      BY <2>1, <2>2, Sizes, ScrollCount
    <3>. QED
      BY <2>1, <3>1
  <2>4. R = Append(rest, BlankRow)
    BY <1>6
  <2>. HIDE DEF rest, R
  <2>5. R \in Seq(Rows) /\ Len(R) = Height
    <3>1. R \in Seq(Rows) /\ Len(R) = Len(rest) + 1
      BY <2>2, <2>4, BlankFacts
    <3>. QED
      BY <2>2, <3>1, Sizes
  <2>6. R \in Screens
    BY <2>5 DEF Screens
  <2>7. ASSUME NEW x \in Objects PROVE InRows(R, Height, x) = InRows(rest, Height - 1, x)
    <3>1. InRows(Append(rest, BlankRow), Len(rest) + 1, x) = InRows(rest, Len(rest), x) + InRow(BlankRow, x)
      BY <2>2, Sizes, BlankFacts, ScrollCount
    <3>2. InRow(BlankRow, x) = 0 /\ InRows(rest, Height - 1, x) \in Nat /\ (Height - 1) + 1 = Height
      BY <2>2, Sizes, BlankFacts, InRowsNat
    <3>. QED
      BY <2>2, <2>4, <3>1, <3>2
  <2>. QED
    BY <1>3, <2>3, <2>6, <2>7
<1>. HIDE DEF R, j
<1>9. /\ v.rows = R /\ v.heap = j /\ v.history = w.history /\ v.backup = w.backup /\ v.link = w.link
      /\ v.x = w.x /\ v.y = w.y /\ v.status = w.status
      /\ j \in Heaps => v \in Terminals
  BY <1>5, <1>7, <1>8 DEF Terminals, R, j
<1>10. new \in Counts /\ (a \in Objects => new[a] > 0)
  BY <1>7, <1>8, <1>9, RefsSum
<1>11. ASSUME NEW x \in Objects PROVE old[x] = new[x] + InRow(row, x)
  <2>. DEFINE H == InRows(w.history, Len(w.history), x)
              S == InRows(R, Height, x)
              T == InRows(t.rows, Height, x)
              B == InRows(w.backup.rows, Height, x)
              l == One(w.link, x)
              m == One(p, x)
              e == One(a, x)
              d == InRow(row, x)
  <2>1. H \in Nat /\ B \in Nat /\ l \in Nat /\ m \in Nat /\ e \in Nat /\ old[x] = H + T + B + l + m + e
    BY <1>2, <1>6, <1>7, RefsSum
  <2>2. new[x] = H + S + B + l + m + e
    BY <1>9 DEF Refs
  <2>3. S \in Nat /\ T \in Nat /\ d \in Nat /\ T = d + S
    BY <1>2, <1>4, <1>8, RowsCount
  <2>. HIDE DEF H, S, T, B, l, m, e, d, old, new
  <2>4. old[x] = new[x] + d
    BY <2>1, <2>2, <2>3
  <2>. QED
    BY <2>4 DEF d
<1>. HIDE DEF new, old
<1>12. Sound(j, new, a, u)
  BY <1>4, <1>7, <1>10, <1>11, FillSound DEF j
<1>13. j \in Heaps
  BY <1>12 DEF Sound
<1>14. Good(v, p, a, u)
  BY <1>1, <1>7, <1>9, <1>12, <1>13 DEF Good, new
<1>. QED
  BY <1>6, <1>9, <1>14 DEF v

\* All that is kept of the terminal t.
AllOf(t) == t.history \o t.rows \o t.backup.rows

\* Its cells are those of the history and of the two screens.
LEMMA AllCount ==
  ASSUME NEW t, t.history \in Seq(Rows), t.rows \in Screens, t.backup.rows \in Screens
  PROVE  /\ AllOf(t) \in Seq(Rows) /\ Len(AllOf(t)) = Len(t.history) + Height + Height
         /\ \A o : InRows(AllOf(t), Len(AllOf(t)), o)
                     = InRows(t.history, Len(t.history), o) + InRows(t.rows, Height, o)
                         + InRows(t.backup.rows, Height, o)
<1>. DEFINE b == t.history \o t.rows
<1>1. /\ t.rows \in Seq(Rows) /\ Len(t.rows) = Height
      /\ t.backup.rows \in Seq(Rows) /\ Len(t.backup.rows) = Height
  BY RowsCount
<1>2. b \in Seq(Rows) /\ Len(b) = Len(t.history) + Height
  <2>1. b \in Seq(Rows) /\ Len(b) = Len(t.history) + Len(t.rows)
    BY <1>1, ConcatFacts
  <2>. HIDE DEF b
  <2>. QED
    BY <1>1, <2>1
<1>3. \A o : InRows(b, Len(b), o) = InRows(t.history, Len(t.history), o) + InRows(t.rows, Height, o)
  <2>. TAKE o
  <2>1. InRows(b, Len(b), o) = InRows(t.history, Len(t.history), o) + InRows(t.rows, Len(t.rows), o)
    BY <1>1, Sizes, ConcatRows
  <2>. QED
    BY <1>1, <2>1
<1>4. AllOf(t) = b \o t.backup.rows
  BY DEF AllOf
<1>. HIDE DEF b
<1>5. AllOf(t) \in Seq(Rows) /\ Len(AllOf(t)) = Len(t.history) + Height + Height
  <2>1. AllOf(t) \in Seq(Rows) /\ Len(AllOf(t)) = Len(b) + Len(t.backup.rows)
    <3>. DEFINE c == t.backup.rows
    <3>1. b \in Seq(Rows) /\ c \in Seq(Rows)
      BY <1>1, <1>2
    <3>. HIDE DEF c
    <3>2. b \o c \in Seq(Rows) /\ Len(b \o c) = Len(b) + Len(c)
      BY <3>1, ConcatFacts
    <3>. QED
      BY <1>4, <3>2 DEF c
  <2>. QED
    BY <1>1, <1>2, <2>1
<1>6. \A o : InRows(AllOf(t), Len(AllOf(t)), o) = InRows(b, Len(b), o) + InRows(t.backup.rows, Height, o)
  <2>. TAKE o
  <2>1. InRows(b \o t.backup.rows, Len(b \o t.backup.rows), o)
          = InRows(b, Len(b), o) + InRows(t.backup.rows, Len(t.backup.rows), o)
    BY <1>1, <1>2, Sizes, ConcatRows
  <2>. QED
    BY <1>1, <1>4, <2>1
<1>. QED
  BY <1>3, <1>5, <1>6

\* More addresses than there can be objects.
EnoughObjects ==
  IsFiniteSet(Objects) => Cardinality(Objects) > (MaxHistoryRows + Height + Height) * Width + 2

\* An address is free: each object that is live has a reference, and there are
\* fewer cells and pointers than addresses.
LEMMA FreeAddress ==
  ASSUME EnoughObjects, NEW t, NEW a, NEW u, Good(t, NoObject, a, u)
  PROVE  NewAddress(t.heap) \in Objects /\ ~ t.heap[NewAddress(t.heap)].live
<1>. DEFINE R == AllOf(t)
            n == Len(R)
            S == (1..n) \X (1..Width)
            f == [q \in S |-> R[q[1]][q[2]].so]
            T == {f[q] : q \in S}
            f0 == Refs(t, NoObject, a)
<1>1. /\ t \in Terminals /\ t.history \in Seq(Rows) /\ t.rows \in Screens /\ t.backup.rows \in Screens
      /\ Len(t.history) \in Nat /\ Len(t.history) <= MaxHistoryRows /\ Sound(t.heap, f0, a, u)
  BY DEF Good, Terminals
<1>2. n \in Nat /\ n <= MaxHistoryRows + Height + Height
  BY <1>1, Sizes, AllCount
<1>3. \A o : InRows(R, n, o) = InRows(t.history, Len(t.history), o) + InRows(t.rows, Height, o)
                                 + InRows(t.backup.rows, Height, o)
  BY <1>1, AllCount
<1>. HIDE DEF R, n
<1>4. IsFiniteSet(S) /\ Cardinality(S) = n * Width
  <2>1. IsFiniteSet(1..n) /\ Cardinality(1..n) = n /\ IsFiniteSet(1..Width) /\ Cardinality(1..Width) = Width
    BY <1>2, Sizes, FS_Interval
  <2>2. IsFiniteSet(S) /\ Cardinality(S) = Cardinality(1..n) * Cardinality(1..Width)
    BY <2>1, FS_Product
  <2>. HIDE DEF S
  <2>. QED
    BY ONLY <2>1, <2>2
<1>. HIDE DEF S
<1>5. f \in Surjection(S, T)
  BY DEF Surjection
<1>. HIDE DEF f
<1>6. IsFiniteSet(T) /\ Cardinality(T) <= Cardinality(S) /\ Cardinality(T) \in Nat
  BY <1>4, <1>5, FS_Surjection, FS_CardinalityType
<1>. DEFINE U == (T \cup {t.link}) \cup {a}
<1>. HIDE DEF T
<1>7. IsFiniteSet(U) /\ Cardinality(U) \in Nat /\ Cardinality(U) <= Cardinality(T) + 2
  <2>1. IsFiniteSet(T \cup {t.link}) /\ Cardinality(T \cup {t.link}) \in Nat
        /\ Cardinality(T \cup {t.link}) <= Cardinality(T) + 1
    <3>1. /\ IsFiniteSet(T \cup {t.link})
          /\ Cardinality(T \cup {t.link}) = IF t.link \in T THEN Cardinality(T) ELSE Cardinality(T) + 1
      BY <1>6, FS_AddElement
    <3>. QED
      BY <1>6, <3>1
  <2>. DEFINE V == T \cup {t.link}
  <2>. HIDE DEF V
  <2>2. IsFiniteSet(V) /\ Cardinality(V) \in Nat /\ Cardinality(V) <= Cardinality(T) + 1
    BY <2>1 DEF V
  <2>3. /\ IsFiniteSet(V \cup {a})
        /\ Cardinality(V \cup {a}) = IF a \in V THEN Cardinality(V) ELSE Cardinality(V) + 1
    BY <2>2, FS_AddElement
  <2>4. U = V \cup {a}
    BY DEF V
  <2>. HIDE DEF U
  <2>5. IsFiniteSet(U) /\ Cardinality(U) = IF a \in V THEN Cardinality(V) ELSE Cardinality(V) + 1
    BY <2>3, <2>4
  <2>. QED
    BY ONLY <1>6, <2>2, <2>5
<1>. HIDE DEF U
<1>8. Cardinality(U) <= (MaxHistoryRows + Height + Height) * Width + 2
  <2>1. n * Width <= (MaxHistoryRows + Height + Height) * Width
        /\ n * Width \in Nat /\ (MaxHistoryRows + Height + Height) * Width \in Nat
    BY <1>2, Sizes
  <2>. QED
    BY <1>4, <1>6, <1>7, <2>1
<1>9. ~ (Objects \subseteq U)
  <2>. SUFFICES ASSUME Objects \subseteq U PROVE FALSE
    OBVIOUS
  <2>1. IsFiniteSet(Objects) /\ Cardinality(Objects) <= Cardinality(U) /\ Cardinality(Objects) \in Nat
    BY <1>7, FS_Subset, FS_CardinalityType
  <2>2. (MaxHistoryRows + Height + Height) * Width + 2 \in Nat
    BY Sizes
  <2>. QED
    BY <1>7, <1>8, <2>1, <2>2 DEF EnoughObjects
<1>10. PICK o \in Objects : o \notin U
  BY <1>9
<1>11. f0[o] = 0
  <2>1. InRows(R, n, o) = 0
    <3>1. \A j \in 1..n : \A i \in 1..Width : R[j][i].so # o
      <4>. SUFFICES ASSUME NEW j \in 1..n, NEW i \in 1..Width, R[j][i].so = o PROVE FALSE
        OBVIOUS
      <4>1. <<j, i>> \in S /\ <<j, i>>[1] = j /\ <<j, i>>[2] = i
        BY DEF S
      <4>2. f[<<j, i>>] = R[j][i].so
        BY <4>1 DEF f
      <4>3. o \in T
        BY <4>1, <4>2 DEF T
      <4>. QED
        BY <1>10, <4>3 DEF U
    <3>. QED
      BY <1>2, <3>1, Sizes, InRowsNat
  <2>2. o # t.link /\ o # a /\ o # NoObject
    BY <1>10, ObjectsAssumption DEF U
  <2>3. One(t.link, o) = 0 /\ One(a, o) = 0 /\ One(NoObject, o) = 0
    BY <2>2 DEF One
  <2>4. f0[o] = InRows(t.history, Len(t.history), o) + InRows(t.rows, Height, o)
                  + InRows(t.backup.rows, Height, o) + 0 + 0 + 0
    BY <2>3 DEF Refs
  <2>5. InRows(t.history, Len(t.history), o) \in Nat /\ InRows(t.rows, Height, o) \in Nat
        /\ InRows(t.backup.rows, Height, o) \in Nat
    BY <1>1, RefsSum
  <2>. HIDE DEF f0
  <2>. QED
    BY <1>3, <2>1, <2>4, <2>5
<1>12. t.heap[o].live = FALSE
  <2>1. t.heap[o].live = (f0[o] > 0)
    BY <1>1 DEF Sound
  <2>2. (f0[o] > 0) = FALSE
    BY <1>11
  <2>. QED
    BY <2>1, <2>2
<1>13. \E x \in Objects : ~ t.heap[x].live
  BY <1>12
<1>. QED
  BY <1>13 DEF NewAddress

\* Nothing that is counted changes.
LEMMA GoodSame ==
  ASSUME NEW t, NEW p, NEW a, NEW u, Good(t, p, a, u), NEW v \in Terminals,
         v.history = t.history, v.rows = t.rows, v.backup.rows = t.backup.rows,
         v.heap = t.heap, v.link = t.link
  PROVE  Good(v, p, a, u)
<1>1. Refs(v, p, a) = Refs(t, p, a)
  BY DEF Refs
<1>. QED
  BY <1>1 DEF Good

\* A full line is followed by the next, for which the first may scroll out.
LEMMA UpdateCursorGood ==
  ASSUME NEW t, NEW p, NEW a, NEW u, Good(t, p, a, u)
  PROVE  LET v == UpdateCursorPosition(t) IN
         /\ Good(v, p, a, u)
         /\ v.x < Width /\ v.link = t.link /\ v.status = t.status
<1>1. t \in Terminals /\ t.x \in 0..Width /\ t.y \in 0..(Height - 1)
  BY DEF Good, Terminals
<1>2. CASE t.x < Width
  BY <1>2 DEF UpdateCursorPosition
<1>3. CASE ~ (t.x < Width)
  <2>. DEFINE y == Min({t.y + 1, Height - 1})
              w == [t EXCEPT !.x = 0, !.y = y]
  <2>1. y \in 0..(Height - 1) /\ 0 \in 0..Width
    <3>1. y = IF t.y + 1 <= Height - 1 THEN t.y + 1 ELSE Height - 1
      BY <1>1, Sizes, TwoNumbers
    <3>. HIDE DEF y
    <3>. QED
      BY <1>1, <3>1, Sizes
  <2>2. UpdateCursorPosition(t) = IF t.y + 1 = Height THEN DeleteLine(w) ELSE w
    BY <1>3 DEF UpdateCursorPosition
  <2>. HIDE DEF y
  <2>3. /\ w \in Terminals /\ w.history = t.history /\ w.rows = t.rows /\ w.backup = t.backup
        /\ w.heap = t.heap /\ w.link = t.link /\ w.status = t.status
    BY <1>1, <2>1 DEF Terminals
  <2>4. w.x = 0
    BY <1>1, <2>1 DEF Terminals
  <2>. HIDE DEF w
  <2>5. Good(w, p, a, u)
    BY <2>3, GoodSame
  <2>6. LET v == DeleteLine(w) IN
        /\ Good(v, p, a, u) /\ v.link = w.link /\ v.x = w.x /\ v.status = w.status
    BY <2>5, DeleteLineGood
  <2>. QED
    BY <2>2, <2>3, <2>4, <2>5, <2>6, Sizes
<1>. QED
  BY <1>2, <1>3

\* The last of two more pointers goes.
LEMMA PointerGone ==
  ASSUME NEW t, NEW p, NEW a, NEW u, Good(t, p, a, u), NEW v, v = [t EXCEPT !.heap = Detach(t.heap, p)]
  PROVE  /\ Good(v, NoObject, a, u)
         /\ v.link = t.link /\ v.x = t.x /\ v.y = t.y /\ v.status = t.status
<1>. DEFINE k == Detach(t.heap, p)
            f == Refs(t, p, a)
            g == Refs(t, NoObject, a)
<1>1. /\ t \in Terminals /\ p \in Pointers /\ a \in Pointers /\ Sound(t.heap, f, a, u)
      /\ t.history \in Seq(Rows) /\ t.rows \in Screens /\ t.backup.rows \in Screens /\ t.heap \in Heaps
      /\ Len(t.history) <= MaxHistoryRows
  BY DEF Good, Terminals
<1>2. g \in Counts /\ (a \in Objects => g[a] > 0)
  BY <1>1, RefsSum
<1>3. ASSUME NEW x \in Objects PROVE f[x] = g[x] + One(p, x)
  <2>1. One(NoObject, x) = 0
    BY ObjectsAssumption DEF One
  <2>. DEFINE H == InRows(t.history, Len(t.history), x) + InRows(t.rows, Height, x)
                     + InRows(t.backup.rows, Height, x) + One(t.link, x)
              e == One(a, x)
              l == One(p, x)
  <2>2. H \in Nat /\ e \in Nat /\ l \in Nat
    BY <1>1, RefsSum
  <2>3. f[x] = H + l + e /\ g[x] = H + 0 + e
    BY <2>1 DEF Refs
  <2>. HIDE DEF H, e, l, f, g
  <2>4. f[x] = g[x] + l
    BY ONLY <2>2, <2>3
  <2>. QED
    BY <2>4 DEF l
<1>. HIDE DEF f, g
<1>4. Sound(k, g, a, u)
  BY <1>1, <1>2, <1>3, DetachSound
<1>5. k \in Heaps
  BY <1>4 DEF Sound
<1>6. v = [t EXCEPT !.heap = k]
  OBVIOUS
<1>. HIDE DEF k
<1>7. /\ v \in Terminals /\ v.history = t.history /\ v.rows = t.rows /\ v.backup = t.backup
      /\ v.heap = k /\ v.link = t.link /\ v.x = t.x /\ v.y = t.y /\ v.status = t.status
  BY <1>1, <1>5, <1>6 DEF Terminals
<1>8. Refs(v, NoObject, a) = g
  BY <1>7 DEF Refs, g
<1>9. Good(v, NoObject, a, u)
  BY <1>1, <1>4, <1>7, <1>8 DEF Good, Pointers
<1>. QED
  BY <1>7, <1>9

\* A new object has one reference, which the code that runs holds.
LEMMA PointerComes ==
  ASSUME NEW t, NEW a, NEW u, Good(t, NoObject, a, u), NEW o \in Objects, ~ t.heap[o].live,
         NEW url \in Texts, NEW v, v = [t EXCEPT !.heap = New(t.heap, o, url)]
  PROVE  /\ Good(v, o, a, u) /\ o # a
         /\ v.link = t.link /\ v.x = t.x /\ v.y = t.y /\ v.status = t.status /\ v.matcher = t.matcher
         /\ v.cut = t.cut
         /\ v.rows = t.rows
<1>. DEFINE k == New(t.heap, o, url)
            g == Refs(t, o, a)
            f == Refs(t, NoObject, a)
<1>1. /\ t \in Terminals /\ a \in Pointers /\ Sound(t.heap, f, a, u)
      /\ t.history \in Seq(Rows) /\ t.rows \in Screens /\ t.backup.rows \in Screens /\ t.heap \in Heaps
      /\ Len(t.history) <= MaxHistoryRows
  BY DEF Good, Terminals
<1>2. g \in Counts
  BY <1>1, RefsSum
<1>3. ASSUME NEW x \in Objects PROVE g[x] = f[x] + One(o, x)
  <2>1. One(NoObject, x) = 0
    BY ObjectsAssumption DEF One
  <2>. DEFINE H == InRows(t.history, Len(t.history), x) + InRows(t.rows, Height, x)
                     + InRows(t.backup.rows, Height, x) + One(t.link, x)
              e == One(a, x)
              l == One(o, x)
  <2>2. H \in Nat /\ e \in Nat /\ l \in Nat
    <3>1. /\ InRows(t.history, Len(t.history), x) \in Nat /\ InRows(t.rows, Height, x) \in Nat
          /\ InRows(t.backup.rows, Height, x) \in Nat
          /\ One(t.link, x) \in Nat /\ One(o, x) \in Nat /\ One(a, x) \in Nat
      BY <1>1, RefsSum
    <3>. QED
      BY ONLY <3>1
  <2>3. g[x] = H + l + e /\ f[x] = H + 0 + e
    BY <2>1 DEF Refs
  <2>. HIDE DEF H, e, l, f, g
  <2>4. g[x] = f[x] + l
    BY ONLY <2>2, <2>3
  <2>. QED
    BY <2>4 DEF l
<1>4. f[o] = 0 /\ (a = o => f[o] > 0)
  <2>1. f[o] \in Nat
    BY <1>1 DEF Sound, Counts
  <2>2. ~ (f[o] > 0)
    <3>1. t.heap[o].live = (f[o] > 0)
      BY <1>1 DEF Sound
    <3>. HIDE DEF f
    <3>. QED
      BY <3>1, Zenon
  <2>3. a = o => f[o] > 0
    BY <1>1 DEF Sound
  <2>. HIDE DEF f
  <2>. QED
    BY <2>1, <2>2, <2>3
<1>. HIDE DEF f, g
<1>5. Sound(k, g, a, u)
  BY <1>1, <1>2, <1>3, NewSound
<1>6. k \in Heaps
  BY <1>5 DEF Sound
<1>7. v = [t EXCEPT !.heap = k]
  OBVIOUS
<1>. HIDE DEF k
<1>8. /\ v \in Terminals /\ v.history = t.history /\ v.rows = t.rows /\ v.backup = t.backup
      /\ v.heap = k /\ v.link = t.link /\ v.x = t.x /\ v.y = t.y /\ v.status = t.status
      /\ v.matcher = t.matcher /\ v.cut = t.cut
  BY <1>1, <1>6, <1>7 DEF Terminals
<1>9. Refs(v, o, a) = g
  BY <1>8 DEF Refs, g
<1>10. Good(v, o, a, u)
  BY <1>1, <1>5, <1>8, <1>9 DEF Good, Pointers
<1>11. o # a
  <2>1. ~ (f[o] > 0)
    BY <1>4
  <2>. QED
    BY <1>4, <2>1
<1>. QED
  BY <1>8, <1>10, <1>11

-----------------------------------------------------------------------------
(* A fold over a set, for detachFromAllCells(). *)

\* The folds over a set: f takes a set of D, whose members are taken in the
\* order pick says, to what they make of a.
Picks(f, X, a, pick, step, D) ==
  /\ f \in [D -> X]
  /\ \A V \in D : f[V] = IF V = {} THEN a ELSE step[pick[V]][f[V \ {pick[V]}]]

\* There is such a fold.
LEMMA PicksExist ==
  ASSUME NEW S, IsFiniteSet(S), NEW X, NEW a \in X, NEW pick,
         \A V \in SUBSET S : V # {} => pick[V] \in V, NEW step \in [S -> [X -> X]]
  PROVE  \E f : Picks(f, X, a, pick, step, SUBSET S)
<1>. DEFINE D(k) == {V \in SUBSET S : Cardinality(V) <= k}
            n == Cardinality(S)
            T == {k \in 0..n : \E f : Picks(f, X, a, pick, step, D(k))}
<1>1. n \in Nat
  BY FS_CardinalityType
<1>2. \A V \in SUBSET S : IsFiniteSet(V) /\ Cardinality(V) \in Nat /\ Cardinality(V) <= n
  BY FS_Subset, FS_CardinalityType
<1>. HIDE DEF n
<1>3. 0 \in T
  <2>. DEFINE f == [V \in D(0) |-> a]
  <2>1. \A V \in D(0) : V = {}
    <3>. SUFFICES ASSUME NEW V \in D(0) PROVE V = {}
      OBVIOUS
    <3>1. IsFiniteSet(V) /\ Cardinality(V) = 0
      BY <1>2
    <3>. QED
      BY <3>1, FS_EmptySet
  <2>2. f \in [D(0) -> X] /\ \A V \in D(0) : f[V] = a
    OBVIOUS
  <2>. HIDE DEF f, D
  <2>3. Picks(f, X, a, pick, step, D(0))
    BY <2>1, <2>2 DEF Picks
  <2>. QED
    BY <1>1, <2>3
<1>4. ASSUME NEW k \in 1..n, k - 1 \in T PROVE k \in T
  <2>1. PICK f : Picks(f, X, a, pick, step, D(k - 1))
    BY <1>4
  <2>. DEFINE g == [V \in D(k) |-> IF V = {} THEN a ELSE step[pick[V]][f[V \ {pick[V]}]]]
  <2>2. ASSUME NEW V \in D(k), V # {}
        PROVE  pick[V] \in S /\ V \ {pick[V]} \in D(k - 1) /\ V \ {pick[V]} \in D(k)
    <3>1. V \in SUBSET S /\ IsFiniteSet(V) /\ Cardinality(V) \in Nat /\ Cardinality(V) <= k /\ pick[V] \in V
      BY <1>2, <2>2
    <3>2. Cardinality(V \ {pick[V]}) = Cardinality(V) - 1
      BY <3>1, FS_RemoveElement
    <3>3. k \in Nat
      BY <1>1
    <3>. QED
      BY <3>1, <3>2, <3>3
  <2>3. D(k - 1) \subseteq D(k) /\ D(k) \subseteq SUBSET S
    <3>1. \A V \in SUBSET S : Cardinality(V) <= k - 1 => Cardinality(V) <= k
      BY <1>1, <1>2
    <3>. QED
      BY <3>1
  <2>. HIDE DEF D
  <2>4. f \in [D(k - 1) -> X]
    BY <2>1 DEF Picks
  <2>5. g \in [D(k) -> X]
    <3>1. \A V \in D(k) : (IF V = {} THEN a ELSE step[pick[V]][f[V \ {pick[V]}]]) \in X
      <4>. SUFFICES ASSUME NEW V \in D(k), V # {} PROVE step[pick[V]][f[V \ {pick[V]}]] \in X
        OBVIOUS
      <4>. QED
        BY <2>2, <2>4
    <3>. QED
      BY <3>1
  <2>6. \A V \in D(k - 1) : g[V] = f[V]
    BY <2>1, <2>3 DEF Picks
  <2>7. \A V \in D(k) : g[V] = IF V = {} THEN a ELSE step[pick[V]][g[V \ {pick[V]}]]
    BY <2>2, <2>6
  <2>. HIDE DEF g
  <2>8. Picks(g, X, a, pick, step, D(k))
    BY <2>5, <2>7 DEF Picks
  <2>. QED
    BY <1>1, <2>8
<1>. HIDE DEF T
<1>5. n \in T
  BY <1>1, <1>3, <1>4, StepByStep
<1>6. D(n) = SUBSET S
  BY <1>2
<1>. HIDE DEF D
<1>7. PICK f : Picks(f, X, a, pick, step, D(n))
  BY <1>5 DEF T
<1>8. Picks(f, X, a, pick, step, SUBSET S)
  BY <1>6, <1>7
<1>. QED
  BY <1>8

\* Such a fold is in X if every step keeps it there.
LEMMA PicksKeep ==
  ASSUME NEW S, IsFiniteSet(S), NEW X, NEW f, f[{}] \in X, NEW pick,
         \A V \in SUBSET S : V # {} => pick[V] \in V,
         \A V \in SUBSET S : V # {} /\ f[V \ {pick[V]}] \in X => f[V] \in X
  PROVE  f[S] \in X
<1>. DEFINE D(k) == {V \in SUBSET S : Cardinality(V) = k}
            n == Cardinality(S)
            T == {k \in 0..n : \A V \in D(k) : f[V] \in X}
<1>1. n \in Nat
  BY FS_CardinalityType
<1>2. \A V \in SUBSET S : IsFiniteSet(V) /\ Cardinality(V) \in Nat
  BY FS_Subset, FS_CardinalityType
<1>. HIDE DEF n
<1>3. 0 \in T
  <2>1. \A V \in D(0) : V = {}
    BY <1>2, FS_EmptySet
  <2>. HIDE DEF D
  <2>. QED
    BY <1>1, <2>1
<1>4. ASSUME NEW k \in 1..n, k - 1 \in T PROVE k \in T
  <2>. SUFFICES ASSUME NEW V \in D(k) PROVE f[V] \in X
    BY <1>1
  <2>1. V \in SUBSET S /\ IsFiniteSet(V) /\ Cardinality(V) = k /\ k \in Nat /\ k # 0
    BY <1>1, <1>2
  <2>2. V # {}
    BY <2>1, FS_EmptySet
  <2>3. pick[V] \in V
    BY <2>1, <2>2
  <2>4. Cardinality(V \ {pick[V]}) = k - 1
    BY <2>1, <2>3, FS_RemoveElement
  <2>5. V \ {pick[V]} \in D(k - 1)
    BY <2>1, <2>4
  <2>. HIDE DEF D
  <2>. QED
    BY <1>4, <2>1, <2>2, <2>5
<1>. HIDE DEF T
<1>5. n \in T
  BY <1>1, <1>3, <1>4, StepByStep
<1>6. S \in D(n)
  BY DEF n
<1>. HIDE DEF D
<1>. QED
  BY <1>5, <1>6 DEF T

\* What SetObject leaves, of the terminal t.
Kept(t, p, a, u) == {e \in Terminals : /\ Good(e, p, a, u)
                                       /\ e.link = t.link /\ e.x = t.x /\ e.y = t.y /\ e.status = t.status}

\* One cell gets the object of the link that is detected, or none.
LEMMA KeptStep ==
  ASSUME NEW t, NEW p, NEW a, NEW u, NEW e \in Kept(t, p, a, u), NEW place \in Places, NEW o \in {NoObject, p}
  PROVE  SetObject(e, place, o) \in Kept(t, p, a, u)
<1>. DEFINE v == SetObject(e, place, o)
<1>1. Good(e, p, a, u) /\ e.link = t.link /\ e.x = t.x /\ e.y = t.y /\ e.status = t.status
      /\ e \in Terminals /\ p \in Pointers
  BY DEF Kept, Good
<1>2. o \in Pointers /\ (o \in Objects => Refs(e, p, a)[o] > 0)
  BY <1>1, RefsNat, ObjectsAssumption DEF Pointers
<1>3. Good(v, p, a, u) /\ v.link = e.link /\ v.x = e.x /\ v.y = e.y /\ v.status = e.status
  BY <1>1, <1>2, SetObjectGood
<1>. HIDE DEF v
<1>4. v \in Terminals
  BY <1>3 DEF Good
<1>5. v \in Kept(t, p, a, u)
  BY <1>1, <1>3, <1>4 DEF Kept
<1>. QED
  BY <1>5 DEF v

\* detachFromAllCells() counts every reference it takes.
LEMMA DetachGood ==
  ASSUME NEW t, NEW p, NEW a, NEW u, Good(t, p, a, u), NEW o, NEW half
  PROVE  LET v == DetachFromAllCells(t, o, half) IN
         Good(v, p, a, u) /\ v.link = t.link /\ v.x = t.x /\ v.y = t.y
<1>. DEFINE cells == {q \in Places : CellAt(t, q).so = o}
            many == Len(Entries(t)) \div 2
            possible(S) == Cardinality(S) <= many /\ Cardinality(cells \ S) <= many
            some == IF possible(cells \cap half) THEN half ELSE CHOOSE S \in SUBSET cells : possible(S)
            s == cells \cap some
            pick == [V \in SUBSET s |-> CHOOSE q \in V : TRUE]
            X == Kept(t, p, a, u)
            step == [q \in s |-> [e \in X |-> SetObject(e, q, NoObject)]]
            Iter(f) == f = [V \in SUBSET s |->
                              IF V = {} THEN t
                              ELSE SetObject(f[V \ {CHOOSE q \in V : TRUE}], CHOOSE q \in V : TRUE, NoObject)]
            iter == CHOOSE f : Iter(f)
            v == DetachFromAllCells(t, o, half)
<1>1. t \in Terminals
  BY DEF Good
<1>2. CASE Len(Entries(t)) % 2 = 1
  <2>1. v = [t EXCEPT !.status = "undefined"]
    BY <1>2 DEF DetachFromAllCells
  <2>2. /\ v \in Terminals /\ v.history = t.history /\ v.rows = t.rows /\ v.backup = t.backup
        /\ v.heap = t.heap /\ v.link = t.link /\ v.x = t.x /\ v.y = t.y
    BY <1>1, <2>1 DEF Terminals
  <2>. HIDE DEF v
  <2>3. Good(v, p, a, u)
    BY <2>2, GoodSame
  <2>. QED
    BY <2>2, <2>3 DEF v
<1>3. CASE ~ (Len(Entries(t)) % 2 = 1)
  <2>1. v = iter[s]
    BY <1>3 DEF DetachFromAllCells, FoldSet, MapThenFoldSet
  <2>. HIDE DEF some
  <2>2. s \in SUBSET Places /\ IsFiniteSet(s)
    <3>1. s \in SUBSET Places
      OBVIOUS
    <3>. HIDE DEF s
    <3>2. IsFiniteSet(Places)
      BY Sizes, FS_Interval DEF Places
    <3>. QED
      BY <3>1, <3>2, FS_Subset
  <2>. HIDE DEF s
  <2>3. \A V \in SUBSET s : V # {} => pick[V] \in V /\ pick[V] = CHOOSE q \in V : TRUE
    OBVIOUS
  <2>4. t \in X /\ \A e \in X : \A q \in s : SetObject(e, q, NoObject) \in X
    <3>1. t \in X
      BY <1>1 DEF Kept
    <3>. QED
      BY <2>2, <3>1, KeptStep
  <2>. HIDE DEF X
  <2>5. step \in [s -> [X -> X]] /\ \A e \in X : \A q \in s : step[q][e] = SetObject(e, q, NoObject)
    BY <2>4
  <2>. HIDE DEF pick, step
  <2>6. PICK f : Picks(f, X, t, pick, step, SUBSET s)
    BY <2>2, <2>3, <2>4, <2>5, PicksExist
  <2>7. f \in [SUBSET s -> X]
    BY <2>6 DEF Picks
  <2>8. \A V \in SUBSET s :
          f[V] = IF V = {} THEN t
                 ELSE SetObject(f[V \ {CHOOSE q \in V : TRUE}], CHOOSE q \in V : TRUE, NoObject)
    <3>. SUFFICES ASSUME NEW V \in SUBSET s, V # {}
                  PROVE  f[V] = SetObject(f[V \ {CHOOSE q \in V : TRUE}], CHOOSE q \in V : TRUE, NoObject)
      BY <2>6 DEF Picks
    <3>1. pick[V] \in s /\ V \ {pick[V]} \in SUBSET s
      BY <2>3
    <3>2. f[V] = step[pick[V]][f[V \ {pick[V]}]]
      BY <2>6 DEF Picks
    <3>3. f[V \ {pick[V]}] \in X
      BY <2>7, <3>1
    <3>4. f[V] = SetObject(f[V \ {pick[V]}], pick[V], NoObject)
      BY <2>5, <3>1, <3>2, <3>3
    <3>5. pick[V] = CHOOSE q \in V : TRUE
      BY <2>3
    <3>. QED
      BY <3>4, <3>5
  <2>9. f = [V \in SUBSET s |-> f[V]]
    BY <2>7
  <2>10. Iter(f)
    BY <2>8, <2>9
  <2>11. Iter(iter)
    <3>. HIDE DEF Iter
    <3>. QED
      BY <2>10
  <2>. HIDE DEF iter
  <2>12. \A V \in SUBSET s :
           iter[V] = IF V = {} THEN t
                     ELSE SetObject(iter[V \ {CHOOSE q \in V : TRUE}], CHOOSE q \in V : TRUE, NoObject)
    BY <2>11
  <2>. HIDE DEF Iter
  <2>13. iter[{}] \in X
    BY <2>4, <2>12
  <2>14. ASSUME NEW V \in SUBSET s, V # {}, iter[V \ {pick[V]}] \in X PROVE iter[V] \in X
    <3>1. pick[V] \in s /\ pick[V] = CHOOSE q \in V : TRUE
      BY <2>3, <2>14
    <3>2. iter[V] = SetObject(iter[V \ {pick[V]}], pick[V], NoObject)
      BY <2>12, <2>14, <3>1
    <3>. QED
      BY <2>4, <2>14, <3>1, <3>2
  <2>15. iter[s] \in X
    BY <2>2, <2>3, <2>13, <2>14, PicksKeep
  <2>. HIDE DEF v
  <2>16. v \in X
    BY <2>1, <2>15
  <2>. QED
    BY <2>16 DEF X, Kept, v
<1>. QED
  BY <1>2, <1>3

\* The types of what the matcher says.
LEMMA MatcherGood ==
  ASSUME NEW m \in Matchers, NEW c
  PROVE  /\ Transition(m, c) \in Matchers /\ MatchSize(m, c) \in Nat
         /\ Transition(m, c).size = 0 => Transition(m, c).state \in {"ready", "invalid"}
<1>. DEFINE to == {t[3] : t \in {q \in Transitions : q[1] = m.state /\ c \in q[2]}}
<1>1. m.size \in Nat /\ m.size + 1 \in Nat
  BY DEF Matchers
<1>2. to \subseteq States
  BY DEF States
<1>3. Transition(m, c) = IF to # {} THEN [state |-> CHOOSE state \in to : TRUE, size |-> m.size + 1]
                         ELSE [state |-> IF c \in Separators THEN "ready" ELSE "invalid", size |-> 0]
  BY DEF Transition
<1>. HIDE DEF to
<1>4. Transition(m, c) \in Matchers
  <2>1. CASE to # {}
    <3>1. (CHOOSE state \in to : TRUE) \in States
      BY <1>2, <2>1
    <3>. QED
      BY <1>1, <1>3, <2>1, <3>1 DEF Matchers
  <2>2. CASE to = {}
    <3>1. (IF c \in Separators THEN "ready" ELSE "invalid") \in States /\ 0 \in Nat
      BY DEF States
    <3>. DEFINE st == IF c \in Separators THEN "ready" ELSE "invalid"
    <3>2. Transition(m, c) = [state |-> st, size |-> 0] /\ st \in States
      BY <1>3, <2>2, <3>1
    <3>. HIDE DEF st
    <3>3. [state |-> st, size |-> 0] \in Matchers
      BY <3>1, <3>2, Zenon DEF Matchers
    <3>. QED
      BY ONLY <3>2, <3>3
  <2>. QED
    BY <2>1, <2>2
<1>5. MatchSize(m, c) \in Nat
  BY <1>1 DEF MatchSize
<1>6. ASSUME Transition(m, c).size = 0 PROVE Transition(m, c).state \in {"ready", "invalid"}
  <2>. DEFINE st == IF c \in Separators THEN "ready" ELSE "invalid"
              next == CHOOSE state \in to : TRUE
  <2>1. Transition(m, c) = IF to # {} THEN [state |-> next, size |-> m.size + 1] ELSE [state |-> st, size |-> 0]
    BY <1>3
  <2>2. st \in {"ready", "invalid"}
    OBVIOUS
  <2>. HIDE DEF st, next
  <2>. QED
    BY <1>1, <1>6, <2>1, <2>2
<1>. QED
  BY <1>4, <1>5, <1>6

\* The cells of an address become a link.
LEMMA LinkedGood ==
  ASSUME NEW t, NEW a, NEW u, NEW o, NEW v, Good(v, o, a, u),
         NEW n \in Nat, \A k \in 1..n : Place(t, k) \in Places
  PROVE  Linked(t, n, v, o) \in Kept(v, o, a, u)
<1>. DEFINE X == Kept(v, o, a, u)
<1>1. v \in X
  BY DEF Kept, Good
<1>2. \A e \in X : \A k \in 1..n : SetObject(e, Place(t, k), o) \in X
  BY KeptStep
<1>. HIDE DEF X
<1>3. LinksIn(X, t, n, o)
  BY <1>2 DEF LinksIn
<1>. QED
  BY <1>1, <1>3, LinkSteps DEF X

\* detectHyperlink(), whether there is a link, none, or one that is given up.
LEMMA DetectGood ==
  ASSUME EnoughObjects, NEW t, NEW a, NEW u, Good(t, NoObject, a, u), NEW c, NEW half
  PROVE  LET v == DetectHyperlink(t, c, half) IN
         Good(v, NoObject, a, u) /\ v.link = t.link /\ v.x = t.x /\ v.y = t.y
<1>. DEFINE v == DetectHyperlink(t, c, half)
            size == MatchSize(t.matcher, c)
            still == t.cut /\ Transition(t.matcher, c).size > 0
            next == [t EXCEPT !.matcher = Transition(t.matcher, c), !.cut = still]
            found == Min({size, Place(t, 0)})
            o == NewAddress(t.heap)
            marks == IF t.cut THEN t.mixed \cup {o} ELSE t.mixed \ {o}
            fresh == [next EXCEPT !.heap = New(t.heap, o, None), !.mixed = marks]
            linked == Linked(t, found, fresh, o)
            url == [i \in 1..size |-> CellAt(t, Place(t, size + 1 - i)).c]
            done == IF found < size THEN DetachFromAllCells(linked, o, half)
                    ELSE [linked EXCEPT !.heap[o].url = url]
<1>0. v = IF t.link # NoObject THEN t ELSE IF size = 0 THEN next
          ELSE [done EXCEPT !.heap = Detach(done.heap, o)]
  BY DEF DetectHyperlink, Linked
<1>. HIDE DEF v
<1>1. t \in Terminals /\ t.matcher \in Matchers /\ t.x \in 0..Width /\ t.y \in 0..(Height - 1)
  BY DEF Good, Terminals
<1>2. size \in Nat /\ Transition(t.matcher, c) \in Matchers /\ still \in BOOLEAN /\ t.mixed \in SUBSET Objects
  BY <1>1, MatcherGood DEF Terminals
<1>. HIDE DEF still
<1>3. /\ next \in Terminals /\ next.history = t.history /\ next.rows = t.rows /\ next.backup = t.backup
      /\ next.heap = t.heap /\ next.link = t.link /\ next.x = t.x /\ next.y = t.y
      /\ next.mixed = t.mixed
  BY <1>1, <1>2 DEF Terminals
<1>. HIDE DEF next, size
<1>4. Good(next, NoObject, a, u)
  BY <1>3, GoodSame
<1>5. Place(t, 0) \in Nat /\ \A k \in 1..Place(t, 0) : Place(t, k) \in Places
  BY <1>1, Places1
<1>6. found = (IF size <= Place(t, 0) THEN size ELSE Place(t, 0)) /\ found \in Nat
      /\ \A k \in 1..found : Place(t, k) \in Places
  <2>1. found = IF size <= Place(t, 0) THEN size ELSE Place(t, 0)
    BY <1>2, <1>5, TwoNumbers
  <2>. HIDE DEF found
  <2>2. found \in Nat /\ 1..found \subseteq 1..Place(t, 0)
    BY <1>2, <1>5, <2>1
  <2>. QED
    BY <1>5, <2>1, <2>2
<1>. HIDE DEF found
<1>7. o \in Objects /\ ~ next.heap[o].live
  BY <1>3, FreeAddress
<1>. HIDE DEF o
<1>8. /\ Good(fresh, o, a, u) /\ o # a
      /\ fresh.link = t.link /\ fresh.x = t.x /\ fresh.y = t.y
  <2>. DEFINE new == [next EXCEPT !.heap = New(next.heap, o, None)]
  <2>1. None \in Texts
    BY DEF Texts
  <2>2. /\ Good(new, o, a, u) /\ o # a /\ new.link = t.link /\ new.x = t.x /\ new.y = t.y
    BY <1>3, <1>4, <1>7, <2>1, PointerComes
  <2>3. fresh = [new EXCEPT !.mixed = marks]
    BY <1>3 DEF Terminals
  <2>4. marks \in SUBSET Objects
    BY <1>2, <1>7
  <2>. HIDE DEF fresh, marks, new
  <2>5. new \in Terminals
    BY <2>2 DEF Good
  <2>6. /\ fresh \in Terminals /\ fresh.history = new.history /\ fresh.rows = new.rows
        /\ fresh.backup = new.backup /\ fresh.heap = new.heap /\ fresh.link = new.link
        /\ fresh.x = new.x /\ fresh.y = new.y
    BY <2>3, <2>4, <2>5 DEF Terminals
  <2>. QED
    BY <2>2, <2>6, GoodSame
<1>. HIDE DEF fresh
<1>9. Good(linked, o, a, u) /\ linked.link = t.link /\ linked.x = t.x /\ linked.y = t.y
  <2>1. linked \in Kept(fresh, o, a, u)
    BY <1>6, <1>8, LinkedGood
  <2>. HIDE DEF linked
  <2>. QED
    BY <1>8, <2>1 DEF Kept
<1>. HIDE DEF linked
<1>10. Good(done, o, a, u) /\ done.link = t.link /\ done.x = t.x /\ done.y = t.y
  <2>1. CASE found < size
    <3>1. done = DetachFromAllCells(linked, o, half)
      BY <2>1
    <3>. HIDE DEF done
    <3>. QED
      BY <1>9, <3>1, DetachGood
  <2>2. CASE ~ (found < size)
    <3>1. url \in Texts
      <4>1. \A i \in 1..size : size + 1 - i \in 1..Place(t, 0)
        BY <1>2, <1>5, <1>6, <2>2
      <4>2. \A i \in 1..size : CellAt(t, Place(t, size + 1 - i)).c \in Characters
        BY <1>1, <1>5, <4>1, CellFacts
      <4>3. url \in Seq(Characters)
        BY <1>2, <4>2
      <4>. HIDE DEF url
      <4>. QED
        BY <4>3 DEF Texts
    <3>. HIDE DEF url
    <3>. DEFINE k == [linked.heap EXCEPT ![o].url = url]
    <3>2. linked \in Terminals /\ Sound(linked.heap, Refs(linked, o, a), a, u)
      BY <1>9 DEF Good
    <3>3. Sound(k, Refs(linked, o, a), a, u)
      BY <1>7, <1>8, <3>1, <3>2, UrlSound
    <3>4. k \in Heaps
      BY <3>3 DEF Sound
    <3>5. done = [linked EXCEPT !.heap = k]
      BY <2>2, <3>2 DEF Terminals
    <3>. HIDE DEF k, done
    <3>6. /\ done \in Terminals /\ done.history = linked.history /\ done.rows = linked.rows
          /\ done.backup = linked.backup /\ done.heap = k /\ done.link = linked.link
          /\ done.x = linked.x /\ done.y = linked.y
      BY <3>2, <3>4, <3>5 DEF Terminals
    <3>7. Refs(done, o, a) = Refs(linked, o, a)
      BY <3>6 DEF Refs
    <3>8. Good(done, o, a, u)
      BY <1>9, <3>3, <3>6, <3>7 DEF Good
    <3>. QED
      BY <1>9, <3>6, <3>8
  <2>. QED
    BY <2>1, <2>2
<1>. HIDE DEF done
<1>11. CASE t.link # NoObject
  BY <1>0, <1>11 DEF v
<1>12. CASE t.link = NoObject /\ size = 0
  BY <1>0, <1>3, <1>4, <1>12 DEF v
<1>13. CASE t.link = NoObject /\ size # 0
  <2>1. v = [done EXCEPT !.heap = Detach(done.heap, o)]
    BY <1>0, <1>13
  <2>2. Good(v, NoObject, a, u) /\ v.link = done.link /\ v.x = done.x /\ v.y = done.y
    BY <1>10, <2>1, PointerGone
  <2>. QED
    BY <1>10, <2>2 DEF v
<1>. QED
  BY <1>11, <1>12, <1>13

\* A cell of a screen gets another character,
WithChar(R, j, i, c) == [R EXCEPT ![j][i].c = c]

\* which leaves the objects.
LEMMA CharChange ==
  ASSUME NEW n \in Nat, NEW R \in [1..n -> Rows], NEW j \in 1..n, NEW i \in 1..Width, NEW c \in Characters
  PROVE  LET Q == WithChar(R, j, i, c) IN
         /\ Q \in [1..n -> Rows]
         /\ \A l \in 1..n : \A m \in 1..Width : Q[l][m].so = R[l][m].so
<1>. DEFINE Q == WithChar(R, j, i, c)
            cell == [R[j][i] EXCEPT !.c = c]
            row == [R[j] EXCEPT ![i] = cell]
<1>1. R[j] \in [1..Width -> Cells] /\ R[j][i] \in Cells
  BY DEF Rows
<1>2. cell \in Cells /\ cell.so = R[j][i].so
  BY <1>1 DEF Cells
<1>3. Q = [R EXCEPT ![j] = row]
  BY <1>1 DEF WithChar
<1>. HIDE DEF cell
<1>4. row \in Rows /\ row[i] = cell /\ \A m \in 1..Width : m # i => row[m] = R[j][m]
  BY <1>1, <1>2 DEF Rows
<1>. HIDE DEF row
<1>5. Q \in [1..n -> Rows] /\ Q[j] = row /\ \A l \in 1..n : l # j => Q[l] = R[l]
  BY <1>3, <1>4
<1>. HIDE DEF Q
<1>6. \A l \in 1..n : \A m \in 1..Width : Q[l][m].so = R[l][m].so
  BY <1>2, <1>4, <1>5
<1>. QED
  BY <1>5, <1>6 DEF Q

\* parseCodepoint() sets a cell at the cursor.
LEMMA ParseCodepointGood ==
  ASSUME EnoughObjects, NEW t, NEW a, NEW u, Good(t, NoObject, a, u), NEW c \in Characters, NEW half
  PROVE  Good(ParseCodepoint(t, c, half), NoObject, a, u)
<1>. DEFINE d == DetectHyperlink(t, c, half)
            w == UpdateCursorPosition(d)
            place == Place(w, 0)
            j == RowOf(place)
            i == ColumnOf(place)
            blank == SetObject(w, place, NoObject)
            cell == IF w.link = NoObject THEN blank ELSE SetObject(blank, place, w.link)
            v == ParseCodepoint(t, c, half)
<1>1. Good(d, NoObject, a, u)
  BY DetectGood
<1>. HIDE DEF d
<1>2. Good(w, NoObject, a, u) /\ w.x < Width
  BY <1>1, UpdateCursorGood
<1>3. v = [cell EXCEPT !.rows[j][i].c = c, !.x = @ + 1]
  BY DEF ParseCodepoint, w, d
<1>. HIDE DEF w, v
<1>4. w \in Terminals /\ w.x \in 0..Width /\ w.y \in 0..(Height - 1) /\ w.link \in Pointers
  BY <1>2 DEF Good, Terminals
<1>5. place \in Places
  BY <1>2, <1>4, Places1
<1>6. j \in 1..Height /\ i \in 1..Width
  BY <1>5, PlaceFacts
<1>. HIDE DEF place
<1>7. Good(blank, NoObject, a, u) /\ blank.link = w.link /\ blank.x = w.x
  BY <1>2, <1>5, SetObjectGood, ObjectsAssumption DEF Pointers
<1>. HIDE DEF blank
<1>8. Good(cell, NoObject, a, u) /\ cell.x = w.x
  <2>1. CASE w.link = NoObject
    BY <1>7, <2>1
  <2>2. CASE w.link # NoObject
    <3>1. w.link \in Objects /\ blank \in Terminals
      BY <1>4, <1>7, <2>2 DEF Pointers, Good
    <3>2. Refs(blank, NoObject, a)[w.link] > 0
      BY <1>7, <3>1, RefsNat
    <3>3. Good(SetObject(blank, place, w.link), NoObject, a, u) /\ SetObject(blank, place, w.link).x = blank.x
      BY <1>4, <1>5, <1>7, <3>2, SetObjectGood
    <3>. QED
      BY <1>7, <2>2, <3>3
  <2>. QED
    BY <2>1, <2>2
<1>. HIDE DEF cell, j, i
<1>. DEFINE Q == WithChar(cell.rows, j, i, c)
<1>9. cell \in Terminals /\ cell.rows \in Screens
  BY <1>8 DEF Good, Terminals
<1>10. Q \in Screens /\ \A l \in 1..Height : \A m \in 1..Width : Q[l][m].so = cell.rows[l][m].so
  BY <1>6, <1>9, Sizes, CharChange DEF Screens
<1>11. v = [cell EXCEPT !.rows = Q, !.x = cell.x + 1]
  BY <1>3, <1>9 DEF WithChar, Terminals
<1>. HIDE DEF Q
<1>12. w.x + 1 \in 0..Width
  BY <1>2, <1>4, Sizes
<1>13. /\ v \in Terminals /\ v.rows = Q /\ v.history = cell.history /\ v.backup = cell.backup
       /\ v.heap = cell.heap /\ v.link = cell.link
  BY <1>8, <1>9, <1>10, <1>11, <1>12 DEF Terminals
<1>14. \A x : InRows(Q, Height, x) = InRows(cell.rows, Height, x)
  <2>. DEFINE R == cell.rows
  <2>1. Height \in Nat /\ \A l \in 1..Height : \A m \in 1..Width : Q[l][m].so = R[l][m].so
    BY <1>10, Sizes
  <2>. HIDE DEF R
  <2>2. \A x : InRows(Q, Height, x) = InRows(R, Height, x)
    BY ONLY <2>1, InRowsSame
  <2>. QED
    BY <2>2 DEF R
<1>15. Refs(v, NoObject, a) = Refs(cell, NoObject, a)
  BY <1>13, <1>14 DEF Refs
<1>16. Good(v, NoObject, a, u)
  BY <1>8, <1>13, <1>15 DEF Good
<1>. QED
  BY <1>16 DEF v

\* received() takes a piece of text character by character.
LEMMA ReceivedGood ==
  ASSUME EnoughObjects, NEW t, NEW a, NEW u, Good(t, NoObject, a, u), NEW word \in Words, NEW half
  PROVE  Good(Received(t, word, half), NoObject, a, u)
<1>. DEFINE X == {e \in Terminals : Good(e, NoObject, a, u)}
            n == Len(word)
<1>1. n \in Nat /\ DOMAIN word = 1..n /\ \A k \in 1..n : word[k] \in Characters
  <2>1. word \in Seq(Range(word))
    BY ScreenAssumption
  <2>2. n \in Nat /\ DOMAIN word = 1..n /\ \A k \in 1..n : word[k] \in Range(word)
    BY <2>1
  <2>3. Range(word) \subseteq Characters
    BY DEF Characters
  <2>. QED
    BY <2>2, <2>3
<1>. HIDE DEF n
<1>2. \A e \in X : \A k \in 1..n : ParseCodepoint(e, word[k], half) \in X
  <2>. SUFFICES ASSUME NEW e \in X, NEW k \in 1..n PROVE ParseCodepoint(e, word[k], half) \in X
    OBVIOUS
  <2>1. Good(ParseCodepoint(e, word[k], half), NoObject, a, u)
    BY <1>1, ParseCodepointGood
  <2>. QED
    BY <2>1 DEF Good
<1>3. t \in X
  BY DEF Good
<1>. HIDE DEF X
<1>4. TextIn(X, word, n, half)
  BY <1>2 DEF TextIn
<1>5. Received(t, word, half) \in X
  BY <1>1, <1>3, <1>4, TextSteps
<1>. QED
  BY <1>5 DEF X

\* The screen is filled with blanks.
LEMMA EraseGood ==
  ASSUME NEW t, NEW p, NEW a, NEW u, Good(t, p, a, u), NEW v,
         v = [t EXCEPT !.heap = FillCells(t.heap, FlattenSeq(t.rows)), !.rows = [j \in 1..Height |-> BlankRow]]
  PROVE  Good(v, p, a, u)
<1>. DEFINE s == FlattenSeq(t.rows)
            k == FillCells(t.heap, s)
            B == [j \in 1..Height |-> BlankRow]
            f == Refs(t, p, a)
            g == Refs(v, p, a)
<1>1. /\ t \in Terminals /\ p \in Pointers /\ a \in Pointers /\ Sound(t.heap, f, a, u)
      /\ t.history \in Seq(Rows) /\ t.rows \in Screens /\ t.backup.rows \in Screens /\ t.heap \in Heaps
      /\ Len(t.history) <= MaxHistoryRows
  BY DEF Good, Terminals
<1>2. B \in Screens /\ \A o \in Objects : InRows(B, Height, o) = 0
  BY BlankFacts
<1>3. s \in Seq(Cells) /\ \A o : InRow(s, o) = InRows(t.rows, Height, o)
  BY <1>1, RowsCount, Sizes, FlattenCount
<1>. HIDE DEF s, B
<1>4. v = [t EXCEPT !.heap = k, !.rows = B]
  BY DEF s, B
<1>5. /\ v.heap = k /\ v.rows = B /\ v.history = t.history /\ v.backup = t.backup /\ v.link = t.link
      /\ v.x = t.x /\ v.y = t.y
  BY <1>1, <1>4 DEF Terminals
<1>6. g \in Counts /\ (a \in Objects => g[a] > 0)
  BY <1>1, <1>2, <1>5, RefsSum
<1>7. ASSUME NEW o \in Objects PROVE f[o] = g[o] + InRow(s, o)
  <2>. DEFINE H == InRows(t.history, Len(t.history), o)
              R == InRows(t.rows, Height, o)
              C == InRows(t.backup.rows, Height, o)
              L == One(t.link, o)
              P == One(p, o)
              A == One(a, o)
  <2>1. H \in Nat /\ R \in Nat /\ C \in Nat /\ L \in Nat /\ P \in Nat /\ A \in Nat
    BY <1>1, RefsSum
  <2>2. f[o] = H + R + C + L + P + A /\ g[o] = H + 0 + C + L + P + A /\ InRow(s, o) = R
    BY <1>2, <1>3, <1>5 DEF Refs
  <2>. HIDE DEF H, R, C, L, P, A, f, g
  <2>. QED
    BY ONLY <2>1, <2>2
<1>. HIDE DEF f, g
<1>8. Sound(k, g, a, u)
  BY <1>1, <1>3, <1>6, <1>7, FillSound
<1>9. k \in Heaps
  BY <1>8 DEF Sound
<1>. HIDE DEF k
<1>10. v \in Terminals
  BY <1>1, <1>2, <1>4, <1>9 DEF Terminals
<1>. QED
  BY <1>1, <1>5, <1>8, <1>10 DEF Good, g

\* The two screens are swapped.
LEMMA SwapGood ==
  ASSUME NEW t, NEW p, NEW a, NEW u, Good(t, p, a, u), NEW v \in Terminals,
         v.rows = t.backup.rows, v.backup.rows = t.rows, v.history = t.history,
         v.heap = t.heap, v.link = t.link
  PROVE  Good(v, p, a, u)
<1>. DEFINE f == Refs(t, p, a)
            g == Refs(v, p, a)
<1>1. /\ t \in Terminals /\ p \in Pointers /\ a \in Pointers /\ Sound(t.heap, f, a, u)
      /\ t.history \in Seq(Rows) /\ t.rows \in Screens /\ t.backup.rows \in Screens
      /\ Len(t.history) <= MaxHistoryRows
  BY DEF Good, Terminals
<1>2. ASSUME NEW o \in Objects PROVE f[o] = g[o]
  <2>. DEFINE H == InRows(t.history, Len(t.history), o)
              R == InRows(t.rows, Height, o)
              C == InRows(t.backup.rows, Height, o)
              L == One(t.link, o)
              P == One(p, o)
              A == One(a, o)
  <2>1. H \in Nat /\ R \in Nat /\ C \in Nat /\ L \in Nat /\ P \in Nat /\ A \in Nat
    BY <1>1, RefsSum
  <2>2. f[o] = H + R + C + L + P + A /\ g[o] = H + C + R + L + P + A
    BY DEF Refs
  <2>. HIDE DEF H, R, C, L, P, A, f, g
  <2>. QED
    BY ONLY <2>1, <2>2
<1>3. f = g
  BY <1>2 DEF Refs
<1>. QED
  BY <1>1, <1>3 DEF Good

\* The link in progress is ended.
LEMMA LinkEnds ==
  ASSUME NEW t, NEW p, NEW a, NEW u, Good(t, p, a, u), NEW v,
         v = [t EXCEPT !.heap = Assign(t.heap, t.link, NoObject), !.link = NoObject]
  PROVE  /\ Good(v, p, a, u)
         /\ v.rows = t.rows /\ v.backup = t.backup /\ v.history = t.history /\ v.x = t.x /\ v.y = t.y
<1>. DEFINE k == Assign(t.heap, t.link, NoObject)
            f == Refs(t, p, a)
            g == Refs(v, p, a)
<1>1. /\ t \in Terminals /\ p \in Pointers /\ a \in Pointers /\ Sound(t.heap, f, a, u)
      /\ t.history \in Seq(Rows) /\ t.rows \in Screens /\ t.backup.rows \in Screens /\ t.heap \in Heaps
      /\ Len(t.history) <= MaxHistoryRows /\ t.link \in Pointers
  BY DEF Good, Terminals
<1>2. NoObject \in Pointers /\ NoObject \notin Objects
  BY ObjectsAssumption DEF Pointers
<1>3. /\ v.heap = k /\ v.rows = t.rows /\ v.history = t.history /\ v.backup = t.backup
      /\ v.link = NoObject /\ v.x = t.x /\ v.y = t.y
  BY <1>1 DEF Terminals
<1>4. g \in Counts /\ (a \in Objects => g[a] > 0)
  BY <1>1, <1>3, RefsSum
<1>5. ASSUME NEW o \in Objects PROVE g[o] + One(t.link, o) = f[o] + One(NoObject, o)
  <2>. DEFINE H == InRows(t.history, Len(t.history), o)
              R == InRows(t.rows, Height, o)
              C == InRows(t.backup.rows, Height, o)
              L == One(t.link, o)
              P == One(p, o)
              A == One(a, o)
              N == One(NoObject, o)
  <2>1. H \in Nat /\ R \in Nat /\ C \in Nat /\ L \in Nat /\ P \in Nat /\ A \in Nat /\ N \in Nat
    BY <1>1, RefsSum DEF One
  <2>2. f[o] = H + R + C + L + P + A /\ g[o] = H + R + C + N + P + A
    BY <1>3 DEF Refs
  <2>. HIDE DEF H, R, C, L, P, A, N, f, g
  <2>3. g[o] + L = f[o] + N
    BY ONLY <2>1, <2>2
  <2>. QED
    BY <2>3 DEF L, N
<1>6. t.link \in Objects => f[t.link] > 0
  BY <1>1, RefsNat
<1>. HIDE DEF f, g
<1>7. Sound(k, g, a, u)
  BY <1>1, <1>2, <1>4, <1>5, <1>6, AssignSound
<1>8. k \in Heaps
  BY <1>7 DEF Sound
<1>9. v = [t EXCEPT !.heap = k, !.link = NoObject]
  OBVIOUS
<1>. HIDE DEF k
<1>10. v \in Terminals
  BY <1>1, <1>2, <1>8, <1>9 DEF Terminals
<1>. QED
  BY <1>1, <1>3, <1>7, <1>10 DEF Good, g

\* A link that the application names begins, and the one in progress, if there
\* is one, is given up.
LEMMA LinkBegins ==
  ASSUME EnoughObjects, NEW t, NEW a, NEW u, Good(t, NoObject, a, u), NEW url \in Texts, NEW v, NEW o,
         NEW b \in BOOLEAN, o = NewAddress(t.heap),
         v = [t EXCEPT !.heap = Detach(New(t.heap, o, url), t.link), !.link = o, !.cut = b]
  PROVE  Good(v, NoObject, a, u)
<1>. DEFINE w == [t EXCEPT !.heap = New(t.heap, o, url)]
            k == Detach(w.heap, t.link)
            f == Refs(w, o, a)
            g == Refs(v, NoObject, a)
<1>1. o \in Objects /\ ~ t.heap[o].live
  BY FreeAddress
<1>2. Good(w, o, a, u) /\ w.link = t.link /\ w.x = t.x /\ w.y = t.y /\ w.rows = t.rows
  BY <1>1, PointerComes
<1>3. /\ t \in Terminals /\ w \in Terminals /\ o \in Pointers /\ a \in Pointers /\ Sound(w.heap, f, a, u)
      /\ w.heap \in Heaps /\ w.heap = New(t.heap, o, url)
      /\ t.history \in Seq(Rows) /\ t.rows \in Screens /\ t.backup.rows \in Screens
      /\ Len(t.history) <= MaxHistoryRows /\ t.link \in Pointers /\ NoObject \in Pointers
      /\ w.history = t.history /\ w.rows = t.rows /\ w.backup = t.backup
  BY <1>2 DEF Good, Terminals, Pointers
<1>4. v = [t EXCEPT !.heap = k, !.link = o, !.cut = b]
  BY <1>3
<1>5. /\ v.heap = k /\ v.rows = t.rows /\ v.history = t.history /\ v.backup = t.backup
      /\ v.link = o
  BY <1>3, <1>4 DEF Terminals
<1>6. g \in Counts /\ (a \in Objects => g[a] > 0)
  BY <1>3, <1>5, RefsSum
<1>7. ASSUME NEW x \in Objects PROVE f[x] = g[x] + One(t.link, x)
  <2>. DEFINE H == InRows(t.history, Len(t.history), x)
              R == InRows(t.rows, Height, x)
              C == InRows(t.backup.rows, Height, x)
              L == One(t.link, x)
              P == One(o, x)
              A == One(a, x)
              N == One(NoObject, x)
  <2>1. H \in Nat /\ R \in Nat /\ C \in Nat /\ L \in Nat /\ A \in Nat /\ P \in Nat /\ N = 0
    BY <1>3, RefsSum, ObjectsAssumption DEF One
  <2>2. f[x] = H + R + C + L + P + A /\ g[x] = H + R + C + P + N + A
    BY <1>2, <1>3, <1>5 DEF Refs
  <2>. HIDE DEF H, R, C, L, P, A, N, f, g
  <2>3. f[x] = g[x] + L
    BY ONLY <2>1, <2>2
  <2>. QED
    BY <2>3 DEF L
<1>. HIDE DEF f, g, w
<1>8. Sound(k, g, a, u)
  BY <1>3, <1>6, <1>7, DetachSound
<1>9. k \in Heaps
  BY <1>8 DEF Sound
<1>. HIDE DEF k
<1>10. v \in Terminals
  BY <1>3, <1>4, <1>9 DEF Terminals
<1>. QED
  BY <1>3, <1>5, <1>8, <1>10 DEF Good, g

-----------------------------------------------------------------------------
(* The invariant. *)

\* The inductive invariant.
LinksInv ==
  /\ Good(Now, NoObject, active, hovered)
  /\ opened \in {None, hovered}

\* It holds at first,
LEMMA InitLinks ==
  ASSUME Init
  PROVE  LinksInv
<1>. DEFINE B == [j \in 1..Height |-> BlankRow]
            f == Refs(Now, NoObject, active)
<1>1. /\ rows = B /\ backup = [rows |-> B, x |-> 0, y |-> 0] /\ alternate = FALSE /\ history = << >>
      /\ cursor = <<0, 0>> /\ matcher = Ready /\ heap = [o \in Objects |-> Free]
      /\ inProgress = NoObject /\ active = NoObject /\ status = "running" /\ opened = None
      /\ cut = FALSE /\ mixed = {}
  BY DEF Init
<1>2. B \in Screens /\ \A o \in Objects : InRows(B, Height, o) = 0
  BY BlankFacts
<1>. HIDE DEF B
<1>3. << >> \in Seq(Rows) /\ Len(<< >>) = 0 /\ \A o : InRows(<< >>, 0, o) = 0
  <2>1. ASSUME NEW o PROVE InRows(<< >>, 0, o) = 0
    BY Sizes, InRowsNat
  <2>. QED
    BY <2>1
<1>4. Ready \in Matchers
  BY DEF Ready, Matchers, States
<1>5. [o \in Objects |-> Free] \in Heaps
  <2>1. Free \in [live : BOOLEAN, refs : Int, url : Texts, active : BOOLEAN]
    <3>1. FALSE \in BOOLEAN /\ 0 \in Int /\ << >> \in Texts
      BY DEF Texts, None
    <3>. QED
      BY <3>1, Zenon DEF Free
  <2>. QED
    BY <2>1 DEF Heaps
<1>6. 0 \in 0..Width /\ 0 \in 0..(Height - 1) /\ 0 <= MaxHistoryRows
  BY Sizes
<1>7. NoObject \in Pointers /\ NoObject \notin Objects
  BY ObjectsAssumption DEF Pointers
<1>8. /\ Now.history = << >> /\ Now.rows = B /\ Now.backup = backup /\ Now.backup.rows = B
      /\ Now.heap = [o \in Objects |-> Free] /\ Now.link = NoObject
  BY <1>1 DEF Now
<1>9. Now \in Terminals
  <2>1. cursor[1] \in 0..Width /\ cursor[2] \in 0..(Height - 1)
    BY <1>1, <1>6
  <2>2. backup \in [rows : Screens, x : 0..Width, y : 0..(Height - 1)]
    BY <1>1, <1>2, <1>6
  <2>3. status \in {"running", "undefined"} /\ alternate \in BOOLEAN /\ history \in Seq(Rows)
    BY <1>1, <1>3
  <2>4. rows \in Screens /\ matcher \in Matchers /\ heap \in Heaps /\ inProgress \in Pointers
    BY <1>1, <1>2, <1>4, <1>5, <1>7
  <2>5. cut \in BOOLEAN /\ mixed \in SUBSET Objects
    BY <1>1
  <2>. QED
    BY <2>1, <2>2, <2>3, <2>4, <2>5, Zenon DEF Now, Terminals
<1>10. \A o \in Objects : f[o] = 0
  <2>. TAKE o \in Objects
  <2>1. InRows(Now.history, Len(Now.history), o) = 0
    BY <1>3, <1>8
  <2>2. InRows(Now.rows, Height, o) = 0 /\ InRows(Now.backup.rows, Height, o) = 0
    BY <1>2, <1>8
  <2>3. One(Now.link, o) = 0 /\ One(NoObject, o) = 0 /\ One(active, o) = 0
    BY <1>1, <1>7, <1>8 DEF One
  <2>. QED
    BY <2>1, <2>2, <2>3 DEF Refs
<1>11. f \in Counts
  BY <1>9, RefsNat
<1>. HIDE DEF f
<1>12. Sound(Now.heap, f, active, hovered)
  <2>1. ASSUME NEW o \in Objects
        PROVE  /\ Now.heap[o].refs = f[o] /\ Now.heap[o].live = (f[o] > 0)
               /\ Now.heap[o].active = (o = active)
    <3>1. Now.heap[o] = Free /\ f[o] = 0 /\ o # active
      BY <1>1, <1>7, <1>8, <1>10
    <3>2. Free.refs = 0 /\ Free.live = FALSE /\ Free.active = FALSE
      BY DEF Free
    <3>3. (f[o] > 0) = FALSE /\ (o = active) = FALSE
      BY <3>1
    <3>. QED
      BY <3>1, <3>2, <3>3
  <2>. QED
    BY <1>1, <1>5, <1>7, <1>8, <1>11, <2>1 DEF Sound
<1>13. Len(Now.history) <= MaxHistoryRows
  BY <1>3, <1>6, <1>8
<1>. QED
  BY <1>1, <1>7, <1>9, <1>12, <1>13 DEF LinksInv, Good, f

\* What the reader does ends in the next state.
LEMMA ReaderLinks ==
  ASSUME LinksInv, NEW t, Good(t, NoObject, active, hovered), Becomes(t)
  PROVE  LinksInv'
<1>1. /\ rows' = t.rows /\ backup' = t.backup /\ alternate' = t.alternate /\ history' = t.history
      /\ cursor' = <<t.x, t.y>> /\ matcher' = t.matcher /\ heap' = t.heap /\ inProgress' = t.link
      /\ status' = t.status /\ active' = active /\ opened' = opened /\ hovered' = hovered
      /\ cut' = t.cut /\ mixed' = t.mixed
  BY DEF Becomes
<1>2. t \in Terminals
  BY DEF Good
<1>3. cursor'[1] = t.x /\ cursor'[2] = t.y
  BY <1>1
<1>4. Now' \in Terminals /\ Now'.history = t.history /\ Now'.rows = t.rows /\ Now'.backup = t.backup
      /\ Now'.heap = t.heap /\ Now'.link = t.link
  BY <1>1, <1>2, <1>3 DEF Now, Terminals
<1>. DEFINE v == Now'
<1>5. v \in Terminals /\ v.history = t.history /\ v.rows = t.rows /\ v.backup.rows = t.backup.rows
      /\ v.heap = t.heap /\ v.link = t.link
  BY <1>4
<1>. HIDE DEF v
<1>6. Good(v, NoObject, active, hovered)
  BY <1>5, GoodSame
<1>. QED
  BY <1>1, <1>6 DEF LinksInv, v

\* One lemma for each action of the reader.
LEMMA ReceiveLinks ==
  ASSUME EnoughObjects, LinksInv, NEW word \in Words, NEW half, Receive(word, half)
  PROVE  LinksInv'
<1>1. Becomes(Received(Now, word, half))
  BY DEF Receive, Received
<1>2. Good(Received(Now, word, half), NoObject, active, hovered)
  BY ReceivedGood DEF LinksInv
<1>. QED
  BY <1>1, <1>2, ReaderLinks

\* A control sequence ends the address before it.
LEMMA ResetGood ==
  ASSUME EnoughObjects, NEW t, NEW a, NEW u, Good(t, NoObject, a, u), NEW half
  PROVE  Good(ResetHyperlinkDetection(t, half), NoObject, a, u)
BY DetectGood DEF ResetHyperlinkDetection

\* A line feed, which may scroll
LEMMA ParseLFLinks ==
  ASSUME EnoughObjects, LinksInv, NEW half, ParseLF(half)
  PROVE  LinksInv'
<1>. DEFINE t == ResetHyperlinkDetection(Now, half)
            down == [t EXCEPT !.y = @ + 1]
            u == IF t.y + 1 = Height THEN DeleteLine(t) ELSE down
            v == UpdateCursorPosition(u)
<1>1. Good(t, NoObject, active, hovered)
  BY ResetGood DEF LinksInv
<1>. HIDE DEF t
<1>2. t \in Terminals /\ t.y \in 0..(Height - 1)
  BY <1>1 DEF Good, Terminals
<1>. DEFINE w == DeleteLine(t)
<1>3. Good(w, NoObject, active, hovered)
  BY <1>1, DeleteLineGood
<1>4. t.y + 1 # Height => Good(down, NoObject, active, hovered)
  <2>. SUFFICES ASSUME t.y + 1 # Height PROVE Good(down, NoObject, active, hovered)
    OBVIOUS
  <2>1. t.y + 1 \in 0..(Height - 1)
    BY <1>2, Sizes
  <2>2. down \in Terminals /\ down.history = t.history /\ down.rows = t.rows
        /\ down.backup.rows = t.backup.rows /\ down.heap = t.heap /\ down.link = t.link
    BY <1>2, <2>1 DEF Terminals
  <2>. HIDE DEF down
  <2>. QED
    BY <1>1, <2>2, GoodSame
<1>. HIDE DEF w, down
<1>5. Good(u, NoObject, active, hovered)
  BY <1>3, <1>4 DEF w
<1>6. Becomes(v)
  BY DEF ParseLF, t, down
<1>. HIDE DEF u
<1>7. Good(v, NoObject, active, hovered)
  BY <1>5, UpdateCursorGood
<1>. QED
  BY <1>6, <1>7, ReaderLinks

\* CSI H
LEMMA MoveHomeLinks ==
  ASSUME EnoughObjects, LinksInv, NEW half, MoveHome(half)
  PROVE  LinksInv'
<1>. DEFINE t == ResetHyperlinkDetection(Now, half)
            v == [t EXCEPT !.x = 0, !.y = 0]
<1>1. Good(t, NoObject, active, hovered)
  BY ResetGood DEF LinksInv
<1>2. Becomes(v)
  BY DEF MoveHome
<1>. HIDE DEF t
<1>3. t \in Terminals /\ 0 \in 0..(Height - 1) /\ 0 \in 0..Width
  BY <1>1, Sizes DEF Good
<1>4. v \in Terminals /\ v.history = t.history /\ v.rows = t.rows
      /\ v.backup.rows = t.backup.rows /\ v.heap = t.heap /\ v.link = t.link
  BY <1>3 DEF Terminals
<1>. HIDE DEF v
<1>5. Good(v, NoObject, active, hovered)
  BY <1>1, <1>4, GoodSame
<1>. QED
  BY <1>2, <1>5, ReaderLinks

\* CSI 2 J
LEMMA EraseLinks ==
  ASSUME EnoughObjects, LinksInv, NEW half, EraseDisplay(half)
  PROVE  LinksInv'
<1>. DEFINE t == ResetHyperlinkDetection(Now, half)
            v == [t EXCEPT !.heap = FillCells(t.heap, FlattenSeq(t.rows)), !.rows = [j \in 1..Height |-> BlankRow]]
<1>1. Good(t, NoObject, active, hovered)
  BY ResetGood DEF LinksInv
<1>2. Becomes([t EXCEPT !.rows = [j \in 1..Height |-> BlankRow],
                       !.heap = FillCells(@, FlattenSeq(t.rows))])
  BY DEF EraseDisplay
<1>. HIDE DEF t
<1>3. t \in Terminals
  BY <1>1 DEF Good
<1>4. v = [t EXCEPT !.rows = [j \in 1..Height |-> BlankRow],
                    !.heap = FillCells(@, FlattenSeq(t.rows))]
  BY <1>3 DEF Terminals
<1>5. Becomes(v)
  BY <1>2, <1>4
<1>. HIDE DEF v
<1>6. Good(v, NoObject, active, hovered)
  BY <1>1, EraseGood DEF v
<1>. QED
  BY <1>5, <1>6, ReaderLinks

\* OSC 8, which begins a link or ends one
LEMMA SequenceLinks ==
  ASSUME EnoughObjects, LinksInv, NEW url \in Urls \cup {None}, HyperlinkSequence(url)
  PROVE  LinksInv'
<1>. DEFINE t == Now
            o == NewAddress(t.heap)
            b == t.cut \/ t.matcher.size > 0
            ended == [t EXCEPT !.heap = Assign(t.heap, t.link, NoObject), !.link = NoObject]
            begun == [t EXCEPT !.heap = Detach(New(t.heap, o, url), t.link), !.link = o, !.cut = b]
<1>1. Good(t, NoObject, active, hovered) /\ t.link = inProgress /\ t.heap = heap /\ t.matcher = matcher
  BY DEF LinksInv, Now
<1>2. Becomes(IF url = None THEN [t EXCEPT !.heap = Assign(@, inProgress, NoObject), !.link = NoObject]
              ELSE [t EXCEPT !.heap = Detach(New(@, NewAddress(heap), url), inProgress),
                             !.link = NewAddress(heap), !.cut = @ \/ matcher.size > 0])
  BY DEF HyperlinkSequence
<1>3. b \in BOOLEAN
  BY <1>1 DEF Good, Terminals
<1>. HIDE DEF t
<1>4. Becomes(IF url = None THEN ended ELSE begun)
  BY <1>1, <1>2
<1>. HIDE DEF b
<1>5. url \in Texts
  BY DEF Texts
<1>6. Good(ended, NoObject, active, hovered)
  BY <1>1, LinkEnds
<1>7. Good(begun, NoObject, active, hovered)
  BY <1>1, <1>3, <1>5, LinkBegins
<1>. HIDE DEF ended, begun
<1>. QED
  BY <1>4, <1>6, <1>7, ReaderLinks

\* CSI ? 1049 h and l
LEMMA AlternateLinks ==
  ASSUME EnoughObjects, LinksInv, NEW value \in BOOLEAN, NEW half, SetAlternateMode(value, half)
  PROVE  LinksInv'
<1>. DEFINE t == ResetHyperlinkDetection(Now, half)
            u == [t EXCEPT !.heap = Assign(t.heap, t.link, NoObject), !.link = NoObject]
            swapped == [u EXCEPT !.rows = u.backup.rows, !.x = u.backup.x, !.y = u.backup.y,
                                 !.backup = [rows |-> u.rows, x |-> u.x, y |-> u.y],
                                 !.alternate = value]
            erased == [swapped EXCEPT !.heap = FillCells(swapped.heap, FlattenSeq(swapped.rows)),
                                      !.rows = [j \in 1..Height |-> BlankRow]]
            reset == [erased EXCEPT !.x = 0, !.y = 0]
            reset1 == [swapped EXCEPT !.heap = FillCells(@, FlattenSeq(swapped.rows)),
                                     !.rows = [j \in 1..Height |-> BlankRow],
                                     !.x = 0, !.y = 0]
<1>1. Good(t, NoObject, active, hovered)
  BY ResetGood DEF LinksInv
<1>2. Becomes(IF value = alternate THEN u ELSE IF ~ value THEN swapped ELSE reset1)
  <2>1. u = [t EXCEPT !.heap = Assign(@, t.link, NoObject), !.link = NoObject]
    OBVIOUS
  <2>. QED
    BY <2>1 DEF SetAlternateMode
<1>. HIDE DEF t
<1>3. Good(u, NoObject, active, hovered)
  BY <1>1, LinkEnds
<1>. HIDE DEF u
<1>4. /\ u \in Terminals /\ u.backup.rows \in Screens /\ u.backup.x \in 0..Width
      /\ u.backup.y \in 0..(Height - 1) /\ u.rows \in Screens /\ u.x \in 0..Width /\ u.y \in 0..(Height - 1)
  BY <1>3 DEF Good, Terminals
<1>5. swapped \in Terminals /\ swapped.rows = u.backup.rows /\ swapped.backup.rows = u.rows
      /\ swapped.history = u.history /\ swapped.heap = u.heap /\ swapped.link = u.link
  BY <1>4 DEF Terminals
<1>. HIDE DEF swapped
<1>6. Good(swapped, NoObject, active, hovered)
  BY <1>3, <1>5, SwapGood
<1>7. Good(erased, NoObject, active, hovered)
  BY <1>6, EraseGood
<1>8. reset1 = reset
  BY <1>5 DEF Terminals
<1>. HIDE DEF erased, reset1
<1>9. erased \in Terminals /\ 0 \in 0..(Height - 1) /\ 0 \in 0..Width
  BY <1>7, Sizes DEF Good
<1>10. reset \in Terminals /\ reset.history = erased.history /\ reset.rows = erased.rows
      /\ reset.backup.rows = erased.backup.rows /\ reset.heap = erased.heap /\ reset.link = erased.link
  BY <1>9 DEF Terminals
<1>. HIDE DEF reset
<1>11. Good(reset, NoObject, active, hovered)
  BY <1>7, <1>10, GoodSame
<1>. QED
  BY <1>2, <1>3, <1>6, <1>8, <1>11, ReaderLinks

\* The mouse leaves the link that is highlighted.
LEMMA DeactivatedSound ==
  ASSUME NEW h, NEW f, NEW a \in Pointers, NEW u, NEW v, Sound(h, f, a, u)
  PROVE  Sound(Deactivated(h, a), f, NoObject, v)
<1>. DEFINE k == Deactivated(h, a)
            r == [h[a] EXCEPT !.active = FALSE]
<1>1. h \in Heaps /\ f \in Counts /\ NoObject \notin Objects
  BY ObjectsAssumption DEF Sound
<1>2. \A x \in Objects : (x = NoObject) = FALSE
  BY <1>1
<1>3. CASE a = NoObject
  <2>1. k = h
    BY <1>3 DEF Deactivated
  <2>. QED
    BY <1>1, <1>3, <2>1 DEF Sound
<1>4. CASE a # NoObject
  <2>1. a \in Objects
    BY <1>4 DEF Pointers
  <2>2. h[a] \in [live : BOOLEAN, refs : Int, url : Texts, active : BOOLEAN]
    BY <1>1, <2>1 DEF Heaps
  <2>3. /\ r \in [live : BOOLEAN, refs : Int, url : Texts, active : BOOLEAN]
        /\ r.refs = h[a].refs /\ r.live = h[a].live /\ r.active = FALSE
    BY <2>2
  <2>4. k = [h EXCEPT ![a] = r]
    BY <1>1, <1>4, <2>1 DEF Heaps, Deactivated
  <2>. HIDE DEF r
  <2>5. k \in Heaps /\ k[a] = r /\ \A x \in Objects : x # a => k[x] = h[x]
    BY <1>1, <2>1, <2>3, <2>4 DEF Heaps
  <2>. HIDE DEF k
  <2>6. \A x \in Objects : k[x].refs = f[x] /\ k[x].live = (f[x] > 0)
    BY <2>1, <2>3, <2>5 DEF Sound
  <2>7. \A x \in Objects : k[x].active = FALSE
    <3>. TAKE x \in Objects
    <3>1. x # a => h[x].active = (x = a)
      BY DEF Sound
    <3>2. x # a => h[x].active = FALSE
      BY <3>1
    <3>. QED
      BY <2>3, <2>5, <3>2
  <2>. QED
    BY <1>1, <1>2, <2>5, <2>6, <2>7 DEF Sound, k
<1>. QED
  BY <1>3, <1>4

\* The mouse comes to a link.
LEMMA ActivatedSound ==
  ASSUME NEW h, NEW f, NEW a \in Pointers, NEW u, NEW v, Sound(h, f, NoObject, v),
         a \in Objects => f[a] > 0 /\ h[a].url = u
  PROVE  Sound(Activated(h, a), f, a, u)
<1>. DEFINE k == Activated(h, a)
            r == [h[a] EXCEPT !.active = TRUE]
<1>1. h \in Heaps /\ f \in Counts /\ NoObject \notin Objects
  BY ObjectsAssumption DEF Sound
<1>2. CASE a = NoObject
  <2>1. k = h
    BY <1>2 DEF Activated
  <2>. QED
    BY <1>1, <1>2, <2>1 DEF Sound
<1>3. CASE a # NoObject
  <2>1. a \in Objects
    BY <1>3 DEF Pointers
  <2>2. h[a] \in [live : BOOLEAN, refs : Int, url : Texts, active : BOOLEAN]
    BY <1>1, <2>1 DEF Heaps
  <2>3. /\ r \in [live : BOOLEAN, refs : Int, url : Texts, active : BOOLEAN]
        /\ r.refs = h[a].refs /\ r.live = h[a].live /\ r.active = TRUE /\ r.url = h[a].url
    BY <2>2
  <2>4. k = [h EXCEPT ![a] = r]
    BY <1>1, <1>3, <2>1 DEF Heaps, Activated
  <2>. HIDE DEF r
  <2>5. k \in Heaps /\ k[a] = r /\ \A x \in Objects : x # a => k[x] = h[x]
    BY <1>1, <2>1, <2>3, <2>4 DEF Heaps
  <2>. HIDE DEF k
  <2>6. \A x \in Objects : k[x].refs = f[x] /\ k[x].live = (f[x] > 0)
    BY <2>1, <2>3, <2>5 DEF Sound
  <2>7. \A x \in Objects : k[x].active = (x = a)
    <3>. TAKE x \in Objects
    <3>1. h[x].active = (x = NoObject)
      BY DEF Sound
    <3>2. CASE x = a
      <4>1. (x = a) = TRUE
        BY <3>2
      <4>. QED
        BY <2>3, <2>5, <3>2, <4>1
    <3>3. CASE x # a
      <4>1. (x = a) = FALSE /\ (x = NoObject) = FALSE
        BY <1>1, <3>3
      <4>. QED
        BY <2>5, <3>1, <3>3, <4>1
    <3>. QED
      BY <3>2, <3>3
  <2>8. f[a] > 0 /\ k[a].url = u
    BY <2>1, <2>3, <2>5
  <2>. QED
    BY <1>1, <2>5, <2>6, <2>7, <2>8 DEF Sound, k
<1>. QED
  BY <1>2, <1>3

\* Assigning a pointer leaves the address of the object it comes to.
LEMMA AssignUrl ==
  ASSUME NEW h \in Heaps, NEW old \in Pointers, NEW new \in Objects, old # new
  PROVE  Assign(h, old, new)[new].url = h[new].url
<1>. DEFINE d == Detach(h, old)
<1>1. d \in [Objects -> [live : BOOLEAN, refs : Int, url : Texts, active : BOOLEAN]] => d \in Heaps
  BY DEF Heaps
<1>2. d[new] = h[new] /\ DOMAIN d = Objects
  BY DEF Detach, Heaps, Pointers
<1>. HIDE DEF d
<1>3. Assign(h, old, new) = [d EXCEPT ![new].refs = @ + 1]
  BY ObjectsAssumption DEF Assign, Attach, d
<1>4. h[new] \in [live : BOOLEAN, refs : Int, url : Texts, active : BOOLEAN]
  BY DEF Heaps
<1>. QED
  BY <1>2, <1>3, <1>4

\* Where the mouse may be, an object is referred to.
LEMMA OverFacts ==
  ASSUME LinksInv, NEW j \in DOMAIN Contents, NEW i \in 1..Width
  PROVE  /\ Contents[j][i].so \in Pointers
         /\ Contents[j][i].so \in Objects => Refs(Now, NoObject, active)[Contents[j][i].so] > 0
<1>. DEFINE o == Contents[j][i].so
            f == Refs(Now, NoObject, active)
<1>1. /\ Now \in Terminals /\ Now.rows = rows /\ Now.history = history
      /\ rows \in Screens /\ history \in Seq(Rows) /\ Now.backup.rows \in Screens
  BY DEF LinksInv, Good, Terminals, Now
<1>2. rows \in Seq(Rows) /\ Len(rows) = Height
  BY <1>1, RowsCount
<1>3. history \o rows \in Seq(Rows)
      /\ \A x : InRows(history \o rows, Len(history \o rows), x)
                  = InRows(history, Len(history), x) + InRows(rows, Height, x)
  BY <1>1, <1>2, ConcatRows, Sizes
<1>4. Contents \in Seq(Rows)
  BY <1>2, <1>3 DEF Contents
<1>5. Contents[j] \in Rows /\ Contents[j][i] \in Cells /\ j \in 1..Len(Contents) /\ Len(Contents) \in Nat
  <2>. DEFINE c == Contents
  <2>1. c \in Seq(Rows) /\ j \in DOMAIN c
    BY <1>4
  <2>. HIDE DEF c
  <2>2. c[j] \in Rows /\ j \in 1..Len(c) /\ Len(c) \in Nat
    BY ONLY <2>1
  <2>3. c[j][i] \in Cells
    BY <2>2 DEF Rows
  <2>. QED
    BY <2>2, <2>3 DEF c
<1>6. o \in Pointers
  BY <1>5 DEF Cells
<1>7. ASSUME o \in Objects PROVE f[o] > 0
  <2>. DEFINE H == InRows(history, Len(history), o)
              R == InRows(rows, Height, o)
              C == InRows(Now.backup.rows, Height, o)
              L == One(Now.link, o)
              P == One(NoObject, o)
              A == One(active, o)
              n == InRows(Contents, Len(Contents), o)
  <2>1. H \in Nat /\ R \in Nat /\ C \in Nat /\ L \in Nat /\ P \in Nat /\ A \in Nat
    BY <1>1, <1>7, RefsSum
  <2>2. f[o] = H + R + C + L + P + A
    BY <1>1, <1>7 DEF Refs
  <2>3. n \in Nat /\ n > 0
    <3>1. \E l \in 1..Len(Contents), m \in 1..Width : Contents[l][m].so = o
      BY <1>5
    <3>. QED
      BY <1>5, <3>1, Sizes, InRowsNat
  <2>4. n = R \/ n = H + R
    <3>1. CASE alternate
      <4>1. Contents = rows
        BY <3>1 DEF Contents
      <4>. QED
        BY <1>2, <4>1
    <3>2. CASE ~ alternate
      <4>1. Contents = history \o rows
        BY <3>2 DEF Contents
      <4>. QED
        BY <1>3, <4>1
    <3>. QED
      BY <3>1, <3>2
  <2>. HIDE DEF H, R, C, L, P, A, n, f, o
  <2>. QED
    BY ONLY <2>1, <2>2, <2>3, <2>4
<1>. QED
  BY <1>6, <1>7

\* The mouse goes from the link it was on to another, or to none.
LEMMA PointedLinks ==
  ASSUME LinksInv, NEW over \in Pointers, over # active,
         over \in Objects => Refs(Now, NoObject, active)[over] > 0,
         UNCHANGED <<rows, backup, alternate, history, cursor, matcher, inProgress, status, cut, mixed>>,
         heap' = Activated(Assign(Deactivated(heap, active), active, over), over),
         active' = over, opened' = None,
         hovered' = IF over = NoObject THEN None ELSE heap[over].url
  PROVE  LinksInv'
<1>. DEFINE f == Refs(Now, NoObject, active)
            g == Refs(Now, NoObject, over)
            h1 == Deactivated(heap, active)
            h2 == Assign(h1, active, over)
            h3 == Activated(h2, over)
            t == Now
            v == Now'
            url == IF over = NoObject THEN None ELSE heap[over].url
<1>1. /\ t \in Terminals /\ t.heap = heap /\ active \in Pointers /\ Sound(heap, f, active, hovered)
      /\ t.history \in Seq(Rows) /\ t.rows \in Screens /\ t.backup.rows \in Screens /\ heap \in Heaps
      /\ Len(t.history) <= MaxHistoryRows
  BY DEF LinksInv, Good, Terminals, Now
<1>2. g \in Counts /\ (over \in Objects => g[over] > 0)
  BY <1>1, RefsSum
<1>3. ASSUME NEW o \in Objects PROVE g[o] + One(active, o) = f[o] + One(over, o)
  <2>. DEFINE H == InRows(t.history, Len(t.history), o) + InRows(t.rows, Height, o)
                     + InRows(t.backup.rows, Height, o) + One(t.link, o) + One(NoObject, o)
              A == One(active, o)
              N == One(over, o)
  <2>1. H \in Nat /\ A \in Nat /\ N \in Nat
    BY <1>1, RefsSum DEF One
  <2>2. f[o] = H + A /\ g[o] = H + N
    BY DEF Refs
  <2>. HIDE DEF H, A, N, f, g, t
  <2>3. g[o] + A = f[o] + N
    BY ONLY <2>1, <2>2
  <2>. QED
    BY <2>3 DEF A, N
<1>4. active \in Objects => f[active] > 0
  BY <1>1, RefsNat
<1>. HIDE DEF f, g
<1>5. Sound(h1, f, NoObject, None)
  BY <1>1, DeactivatedSound
<1>6. over \in Objects => h1[over].url = heap[over].url
  BY <1>1 DEF Deactivated, Heaps, Pointers
<1>7. h1 \in Heaps
  BY <1>5 DEF Sound
<1>. HIDE DEF h1
<1>8. Sound(h2, g, NoObject, None)
  <2>1. over \in Objects => f[over] > 0
    BY DEF f
  <2>2. NoObject \in Objects => g[NoObject] > 0
    BY ObjectsAssumption
  <2>. QED
    BY <1>1, <1>2, <1>3, <1>4, <1>5, <2>1, <2>2, AssignSound
<1>9. over \in Objects => h2[over].url = heap[over].url
  BY <1>1, <1>6, <1>7, AssignUrl
<1>. HIDE DEF h2
<1>10. over \in Objects => h2[over].url = url
  BY <1>9, ObjectsAssumption
<1>. HIDE DEF url
<1>11. Sound(h3, g, over, url)
  BY <1>2, <1>8, <1>10, ActivatedSound
<1>12. v = [t EXCEPT !.heap = h3]
  BY DEF Now, h1, h2
<1>13. h3 \in Heaps
  BY <1>11 DEF Sound
<1>. HIDE DEF h3, t, v
<1>14. /\ v \in Terminals /\ v.heap = h3 /\ v.history = t.history /\ v.rows = t.rows /\ v.backup = t.backup
       /\ v.link = t.link
  BY <1>1, <1>12, <1>13 DEF Terminals
<1>15. Refs(v, NoObject, over) = g
  BY <1>14 DEF Refs, g, t
<1>16. Good(v, NoObject, over, url)
  BY <1>1, <1>11, <1>14, <1>15 DEF Good, Pointers
<1>17. active' = over /\ hovered' = url /\ opened' = None
  BY DEF url
<1>. QED
  BY <1>16, <1>17 DEF LinksInv, v

\* What the mouse does.
LEMMA UILinks ==
  ASSUME LinksInv, UI
  PROVE  LinksInv'
<1>1. /\ active \in Pointers /\ NoObject \notin Objects /\ NoObject \in Pointers
      /\ Sound(heap, Refs(Now, NoObject, active), active, hovered)
  BY ObjectsAssumption DEF LinksInv, Good, Now, Pointers
<1>2. ASSUME NEW j \in DOMAIN Contents, NEW i \in 1..Width, MouseMove(Contents[j][i].so)
      PROVE  LinksInv'
  <2>. DEFINE over == Contents[j][i].so
  <2>1. /\ over \in Pointers
        /\ over \in Objects => Refs(Now, NoObject, active)[over] > 0
    BY OverFacts
  <2>2. /\ over # active
        /\ UNCHANGED <<rows, backup, alternate, history, cursor, matcher, inProgress, status, cut, mixed>>
        /\ heap' = Activated(Assign(Deactivated(heap, active), active, over), over)
        /\ active' = over /\ opened' = None
        /\ hovered' = IF over = NoObject THEN None ELSE heap[over].url
    BY <1>2 DEF MouseMove, UIOnly
  <2>. HIDE DEF over
  <2>. QED
    BY <2>1, <2>2, PointedLinks
<1>3. CASE MouseOut
  <2>. DEFINE over == NoObject
  <2>1. /\ over \in Pointers
        /\ over \in Objects => Refs(Now, NoObject, active)[over] > 0
    BY <1>1
  <2>2. /\ over # active
        /\ UNCHANGED <<rows, backup, alternate, history, cursor, matcher, inProgress, status, cut, mixed>>
        /\ heap' = Activated(Assign(Deactivated(heap, active), active, over), over)
        /\ active' = over /\ opened' = None
        /\ hovered' = IF over = NoObject THEN None ELSE heap[over].url
    BY <1>3 DEF MouseOut, UIOnly, Activated
  <2>. HIDE DEF over
  <2>. QED
    BY <2>1, <2>2, PointedLinks
<1>4. CASE MouseClick
  <2>1. Now' = Now /\ active' = active /\ hovered' = hovered /\ opened' = heap[active].url
    BY <1>4 DEF MouseClick, UIOnly, Now
  <2>2. heap[active].url = hovered
    BY <1>1, <1>4 DEF MouseClick, Sound, Pointers
  <2>. QED
    BY <2>1, <2>2 DEF LinksInv
<1>. QED
  BY <1>2, <1>3, <1>4 DEF UI

\* Every step keeps the invariant.
LEMMA NextLinks ==
  ASSUME EnoughObjects, LinksInv, [Next]_vars
  PROVE  LinksInv'
<1>1. CASE Reader
  BY <1>1, ReceiveLinks, AlternateLinks, ParseLFLinks, MoveHomeLinks, EraseLinks, SequenceLinks DEF Reader
<1>2. CASE UI
  BY <1>2, UILinks
<1>3. CASE UNCHANGED vars
  <2>1. Now' = Now /\ active' = active /\ hovered' = hovered /\ opened' = opened
    BY <1>3 DEF vars, Now
  <2>. QED
    BY <2>1 DEF LinksInv
<1>. QED
  BY <1>1, <1>2, <1>3 DEF Next

\* References, as the property counts them.
LEMMA ReferencesFacts ==
  ASSUME LinksInv, NEW o \in Objects
  PROVE  References(All, <<inProgress, active>>, o) = Refs(Now, NoObject, active)[o]
<1>. DEFINE t == Now
            n == Len(All)
            q == <<inProgress, active>>
            D == {k \in DOMAIN q : q[k] = o}
<1>1. /\ t \in Terminals /\ t.link = inProgress /\ All = AllOf(t) /\ active \in Pointers
      /\ t.history \in Seq(Rows) /\ t.rows \in Screens /\ t.backup.rows \in Screens
  BY DEF LinksInv, Good, Terminals, Now, All, AllOf
<1>. HIDE DEF t
<1>2. /\ All \in Seq(Rows) /\ n = Len(t.history) + Height + Height
      /\ InRows(All, n, o) = InRows(t.history, Len(t.history), o) + InRows(t.rows, Height, o)
                               + InRows(t.backup.rows, Height, o)
  BY <1>1, AllCount
<1>3. n \in Nat /\ n > 0
  BY <1>1, <1>2, Sizes
<1>4. DOMAIN All = 1..n /\ All[1] \in Rows
  BY <1>2, <1>3
<1>5. DOMAIN All[1] = 1..Width
  BY <1>4 DEF Rows
<1>6. References(All, q, o) = InRows(All, n, o) + Cardinality(D)
  BY <1>4, <1>5 DEF References, InRows
<1>7. Cardinality(D) = One(inProgress, o) + One(active, o)
  <2>1. D = (IF inProgress = o THEN {1} ELSE {}) \cup (IF active = o THEN {2} ELSE {})
    OBVIOUS
  <2>2. Cardinality({}) = 0 /\ Cardinality({1}) = 1 /\ Cardinality({2}) = 1 /\ Cardinality({1, 2}) = 2
    <3>1. IsFiniteSet({1}) /\ Cardinality({1}) = 1 /\ Cardinality({2}) = 1
      BY FS_Singleton
    <3>2. Cardinality({1} \cup {2}) = 2
      BY <3>1, FS_AddElement
    <3>. QED
      BY <3>1, <3>2, FS_EmptySet
  <2>3. {1} \cup {2} = {1, 2} /\ {1} \cup {} = {1} /\ {} \cup {2} = {2} /\ {} \cup {} = {}
    OBVIOUS
  <2>. HIDE DEF D
  <2>. QED
    BY <2>1, <2>2, <2>3 DEF One
<1>. HIDE DEF n, q, D
<1>. DEFINE H == InRows(t.history, Len(t.history), o)
            R == InRows(t.rows, Height, o)
            C == InRows(t.backup.rows, Height, o)
            L == One(inProgress, o)
            A == One(active, o)
            P == One(NoObject, o)
<1>8. H \in Nat /\ R \in Nat /\ C \in Nat /\ L \in Nat /\ A \in Nat /\ P = 0
  BY <1>1, RefsSum, ObjectsAssumption DEF One
<1>9. Refs(t, NoObject, active)[o] = H + R + C + L + P + A
  BY <1>1 DEF Refs
<1>10. References(All, q, o) = (H + R + C) + (L + A)
  BY <1>2, <1>6, <1>7
<1>. HIDE DEF H, R, C, L, A, P
<1>11. References(All, q, o) = Refs(t, NoObject, active)[o]
  BY ONLY <1>8, <1>9, <1>10
<1>. QED
  BY <1>11 DEF t, q

\* What it says.
LEMMA LinksInvImplies ==
  ASSUME LinksInv
  PROVE  ReferencesCounted /\ OpensHighlighted
<1>. DEFINE f == Refs(Now, NoObject, active)
<1>1. active \in Pointers /\ Sound(heap, f, active, hovered) /\ opened \in {None, hovered}
  BY DEF LinksInv, Good, Now
<1>2. ASSUME NEW o \in Objects
      PROVE  /\ heap[o].refs = References(All, <<inProgress, active>>, o)
             /\ heap[o].live <=> heap[o].refs > 0
  <2>1. heap[o].refs = f[o] /\ heap[o].live = (f[o] > 0)
    BY <1>1 DEF Sound
  <2>2. References(All, <<inProgress, active>>, o) = f[o]
    BY ReferencesFacts
  <2>. HIDE DEF f
  <2>3. heap[o].live <=> heap[o].refs > 0
    BY <2>1
  <2>. QED
    BY <2>1, <2>2, <2>3
<1>3. ReferencesCounted
  BY <1>2 DEF ReferencesCounted
<1>. HIDE DEF f
<1>4. \A o \in Objects : heap[o].active <=> o = active
  <2>. TAKE o \in Objects
  <2>1. heap[o].active = (o = active)
    BY <1>1 DEF Sound
  <2>. QED
    BY <2>1
<1>5. active # NoObject => heap[active].url = hovered
  BY <1>1 DEF Sound, Pointers
<1>6. OpensHighlighted
  BY <1>1, <1>4, <1>5 DEF OpensHighlighted
<1>. QED
  BY <1>3, <1>6

\* However output, scrolling, the two screens and the mouse take turns, the
\* invariant holds: every cell and pointer is counted.
THEOREM LinksInvariant ==
  ASSUME EnoughObjects
  PROVE  Spec => []LinksInv
<1>1. Init => LinksInv
  BY InitLinks
<1>2. LinksInv /\ [Next]_vars => LinksInv'
  BY NextLinks
<1>. QED
  BY <1>1, <1>2, PTL DEF Spec

\* A link has as many references as are counted, and is deleted with the last of
\* them and not before: nothing that is kept, and not the mouse, refers to a link
\* that was deleted, and none is left behind.
THEOREM ReferencesAreCounted ==
  ASSUME EnoughObjects
  PROVE  Spec => []ReferencesCounted
<1>1. LinksInv => ReferencesCounted
  BY LinksInvImplies
<1>. QED
  BY <1>1, LinksInvariant, PTL

\* Just the link under the mouse is highlighted, and what a click opens is what
\* the mouse came to, also when its cells were overwritten since.
THEOREM OpensWhatIsHighlighted ==
  ASSUME EnoughObjects
  PROVE  Spec => []OpensHighlighted
<1>1. LinksInv => OpensHighlighted
  BY LinksInvImplies
<1>. QED
  BY <1>1, LinksInvariant, PTL

-----------------------------------------------------------------------------
(* What the matcher has read. *)

Http == <<"h", "t", "t", "p", ":", "/", "/">>
Https == <<"h", "t", "t", "p", "s", ":", "/", "/">>

HostStates == {"validDomain", "domainSeparator"}
PartStates == {"port1", "validPort", "validAddress", "validArguments",
               "percentEscape1", "percentEscape2"}
Delimiters == {"/", "?", ":"}
UrlLetters == ArgsLetters \cup AddressLetters \cup {"/", "?", ":", "%"}

\* Exactly the first k characters of p were read.
Reads(w, p, k) == Len(w) = k /\ \A i \in 1..k : w[i] = p[i]

\* Up to the name of the host the state says what was read,
Begun(w, s) ==
  /\ s \in {"ready", "invalid"} => Len(w) = 0
  /\ s = "h" => Reads(w, Http, 1)
  /\ s = "ht" => Reads(w, Http, 2)
  /\ s = "htt" => Reads(w, Http, 3)
  /\ s = "http" => Reads(w, Http, 4)
  /\ s = "https" => Reads(w, Https, 5)
  /\ s = "protocol1" => Reads(w, Http, 5) \/ Reads(w, Https, 6)
  /\ s = "protocol2" => Reads(w, Http, 6) \/ Reads(w, Https, 7)
  /\ s = "domain1" => Reads(w, Http, 7) \/ Reads(w, Https, 8)

\* and then an address, the last characters of which may need more: n is where
\* the name of the host begins.
AddressOf(w, m, s, n) ==
  /\ m >= n
  /\ \/ n = 8 /\ \A i \in 1..7 : w[i] = Http[i]
     \/ n = 9 /\ \A i \in 1..8 : w[i] = Https[i]
  /\ w[n] \in DomainLetters
  /\ \A i \in n..m :
       /\ w[i] \in UrlLetters
       /\ w[i] = ":" => \/ i < m /\ w[i + 1] \in Digits
                        \/ i = m /\ s = "port1"
       /\ w[i] = "%" => \/ i + 2 <= m /\ w[i + 1] \in Hexadecimals /\ w[i + 2] \in Hexadecimals
                        \/ i = m /\ s = "percentEscape1"
                        \/ i + 1 = m /\ s = "percentEscape2" /\ w[i + 1] \in Hexadecimals
       /\ w[i] = "." /\ (\A j \in n..i : w[j] \notin Delimiters) =>
            /\ i - 1 >= n /\ w[i - 1] \in DomainLetters
            /\ \/ i < m /\ w[i + 1] \in DomainLetters
               \/ i = m /\ s = "domainSeparator"
  /\ s = "validDomain" => w[m] \in DomainLetters
  /\ s \in PartStates => \E j \in n..m : w[j] \in Delimiters

Address(w, s, n) == AddressOf(w, Len(w), s, n)

Spelled(w, s) ==
  Begun(w, s) /\ (s \in HostStates \cup PartStates => \E n \in Nat : Address(w, s, n))

\* What c may be in a state of an address, and the state it leads to.
Continues(s, c, to) ==
  /\ to \in HostStates \cup PartStates
  /\ c \in UrlLetters
  /\ s = "port1" => c \in Digits
  /\ c = ":" => to = "port1"
  /\ s \in {"percentEscape1", "percentEscape2"} => c \in Hexadecimals
  /\ s = "percentEscape1" => to = "percentEscape2"
  /\ c = "%" => to = "percentEscape1"
  /\ s = "domainSeparator" => c \in DomainLetters
  /\ c = "." /\ s \in HostStates => s = "validDomain" /\ to = "domainSeparator"
  /\ to = "validDomain" => c \in DomainLetters
  /\ to \in PartStates => s \in PartStates \/ c \in Delimiters

\* A step of the matcher from s to to over c.
Steps(s, c, to) == \E q \in Transitions : q[1] = s /\ c \in q[2] /\ q[3] = to

EarlySteps(s, c, to) ==
  \/ s = "ready" /\ c \in {"h"} /\ to = "h"
  \/ s = "h" /\ c \in {"t"} /\ to = "ht"
  \/ s = "ht" /\ c \in {"t"} /\ to = "htt"
  \/ s = "htt" /\ c \in {"p"} /\ to = "http"
  \/ s = "http" /\ c \in {"s"} /\ to = "https"
  \/ s = "http" /\ c \in {":"} /\ to = "protocol1"
  \/ s = "https" /\ c \in {":"} /\ to = "protocol1"
  \/ s = "protocol1" /\ c \in {"/"} /\ to = "protocol2"
  \/ s = "protocol2" /\ c \in {"/"} /\ to = "domain1"
  \/ s = "domain1" /\ c \in DomainLetters /\ to = "validDomain"

LateSteps(s, c, to) ==
  \/ s = "domainSeparator" /\ c \in DomainLetters /\ to = "validDomain"
  \/ s = "port1" /\ c \in Digits /\ to = "validPort"
  \/ s = "percentEscape1" /\ c \in Hexadecimals /\ to = "percentEscape2"
  \/ s = "percentEscape2" /\ c \in Hexadecimals /\ to = "validArguments"
  \/ s = "validDomain" /\ c \in DomainLetters /\ to = "validDomain"
  \/ s = "validDomain" /\ c \in {"."} /\ to = "domainSeparator"
  \/ s = "validDomain" /\ c \in {"?"} /\ to = "validArguments"
  \/ s = "validDomain" /\ c \in {"/"} /\ to = "validAddress"
  \/ s = "validDomain" /\ c \in {":"} /\ to = "port1"
  \/ s = "validPort" /\ c \in Digits /\ to = "validPort"
  \/ s = "validPort" /\ c \in {"?"} /\ to = "validArguments"
  \/ s = "validPort" /\ c \in {"/"} /\ to = "validAddress"
  \/ s = "validAddress" /\ c \in AddressLetters \cup {"/"} /\ to = "validAddress"
  \/ s = "validAddress" /\ c \in {"?"} /\ to = "validArguments"
  \/ s = "validAddress" /\ c \in {":"} /\ to = "port1"
  \/ s = "validArguments" /\ c \in ArgsLetters /\ to = "validArguments"
  \/ s = "validArguments" /\ c \in {"%"} /\ to = "percentEscape1"
  \/ s = "validArguments" /\ c \in {":"} /\ to = "port1"

\* A step of the matcher is one of those of an early or of a late state.
LEMMA StepCases ==
  ASSUME NEW s, NEW c, NEW to, Steps(s, c, to)
  PROVE  EarlySteps(s, c, to) \/ LateSteps(s, c, to)
<1>1. PICK q \in Transitions : q[1] = s /\ c \in q[2] /\ q[3] = to
  BY DEF Steps
<1>2. CASE q = <<"ready", {"h"}, "h">>
  <2>1. s = "ready" /\ c \in {"h"} /\ to = "h"
    BY <1>1, <1>2
  <2>. QED
    BY <2>1 DEF EarlySteps
<1>3. CASE q = <<"h", {"t"}, "ht">>
  <2>1. s = "h" /\ c \in {"t"} /\ to = "ht"
    BY <1>1, <1>3
  <2>. QED
    BY <2>1 DEF EarlySteps
<1>4. CASE q = <<"ht", {"t"}, "htt">>
  <2>1. s = "ht" /\ c \in {"t"} /\ to = "htt"
    BY <1>1, <1>4
  <2>. QED
    BY <2>1 DEF EarlySteps
<1>5. CASE q = <<"htt", {"p"}, "http">>
  <2>1. s = "htt" /\ c \in {"p"} /\ to = "http"
    BY <1>1, <1>5
  <2>. QED
    BY <2>1 DEF EarlySteps
<1>6. CASE q = <<"http", {"s"}, "https">>
  <2>1. s = "http" /\ c \in {"s"} /\ to = "https"
    BY <1>1, <1>6
  <2>. QED
    BY <2>1 DEF EarlySteps
<1>7. CASE q = <<"http", {":"}, "protocol1">>
  <2>1. s = "http" /\ c \in {":"} /\ to = "protocol1"
    BY <1>1, <1>7
  <2>. QED
    BY <2>1 DEF EarlySteps
<1>8. CASE q = <<"https", {":"}, "protocol1">>
  <2>1. s = "https" /\ c \in {":"} /\ to = "protocol1"
    BY <1>1, <1>8
  <2>. QED
    BY <2>1 DEF EarlySteps
<1>9. CASE q = <<"protocol1", {"/"}, "protocol2">>
  <2>1. s = "protocol1" /\ c \in {"/"} /\ to = "protocol2"
    BY <1>1, <1>9
  <2>. QED
    BY <2>1 DEF EarlySteps
<1>10. CASE q = <<"protocol2", {"/"}, "domain1">>
  <2>1. s = "protocol2" /\ c \in {"/"} /\ to = "domain1"
    BY <1>1, <1>10
  <2>. QED
    BY <2>1 DEF EarlySteps
<1>11. CASE q = <<"domain1", DomainLetters, "validDomain">>
  <2>1. s = "domain1" /\ c \in DomainLetters /\ to = "validDomain"
    BY <1>1, <1>11
  <2>. QED
    BY <2>1 DEF EarlySteps
<1>12. CASE q = <<"domainSeparator", DomainLetters, "validDomain">>
  <2>1. s = "domainSeparator" /\ c \in DomainLetters /\ to = "validDomain"
    BY <1>1, <1>12
  <2>. QED
    BY <2>1 DEF LateSteps
<1>13. CASE q = <<"port1", Digits, "validPort">>
  <2>1. s = "port1" /\ c \in Digits /\ to = "validPort"
    BY <1>1, <1>13
  <2>. QED
    BY <2>1 DEF LateSteps
<1>14. CASE q = <<"percentEscape1", Hexadecimals, "percentEscape2">>
  <2>1. s = "percentEscape1" /\ c \in Hexadecimals /\ to = "percentEscape2"
    BY <1>1, <1>14
  <2>. QED
    BY <2>1 DEF LateSteps
<1>15. CASE q = <<"percentEscape2", Hexadecimals, "validArguments">>
  <2>1. s = "percentEscape2" /\ c \in Hexadecimals /\ to = "validArguments"
    BY <1>1, <1>15
  <2>. QED
    BY <2>1 DEF LateSteps
<1>16. CASE q = <<"validDomain", DomainLetters, "validDomain">>
  <2>1. s = "validDomain" /\ c \in DomainLetters /\ to = "validDomain"
    BY <1>1, <1>16
  <2>. QED
    BY <2>1 DEF LateSteps
<1>17. CASE q = <<"validDomain", {"."}, "domainSeparator">>
  <2>1. s = "validDomain" /\ c \in {"."} /\ to = "domainSeparator"
    BY <1>1, <1>17
  <2>. QED
    BY <2>1 DEF LateSteps
<1>18. CASE q = <<"validDomain", {"?"}, "validArguments">>
  <2>1. s = "validDomain" /\ c \in {"?"} /\ to = "validArguments"
    BY <1>1, <1>18
  <2>. QED
    BY <2>1 DEF LateSteps
<1>19. CASE q = <<"validDomain", {"/"}, "validAddress">>
  <2>1. s = "validDomain" /\ c \in {"/"} /\ to = "validAddress"
    BY <1>1, <1>19
  <2>. QED
    BY <2>1 DEF LateSteps
<1>20. CASE q = <<"validDomain", {":"}, "port1">>
  <2>1. s = "validDomain" /\ c \in {":"} /\ to = "port1"
    BY <1>1, <1>20
  <2>. QED
    BY <2>1 DEF LateSteps
<1>21. CASE q = <<"validPort", Digits, "validPort">>
  <2>1. s = "validPort" /\ c \in Digits /\ to = "validPort"
    BY <1>1, <1>21
  <2>. QED
    BY <2>1 DEF LateSteps
<1>22. CASE q = <<"validPort", {"?"}, "validArguments">>
  <2>1. s = "validPort" /\ c \in {"?"} /\ to = "validArguments"
    BY <1>1, <1>22
  <2>. QED
    BY <2>1 DEF LateSteps
<1>23. CASE q = <<"validPort", {"/"}, "validAddress">>
  <2>1. s = "validPort" /\ c \in {"/"} /\ to = "validAddress"
    BY <1>1, <1>23
  <2>. QED
    BY <2>1 DEF LateSteps
<1>24. CASE q = <<"validAddress", AddressLetters \cup {"/"}, "validAddress">>
  <2>1. s = "validAddress" /\ c \in AddressLetters \cup {"/"} /\ to = "validAddress"
    BY <1>1, <1>24
  <2>. QED
    BY <2>1 DEF LateSteps
<1>25. CASE q = <<"validAddress", {"?"}, "validArguments">>
  <2>1. s = "validAddress" /\ c \in {"?"} /\ to = "validArguments"
    BY <1>1, <1>25
  <2>. QED
    BY <2>1 DEF LateSteps
<1>26. CASE q = <<"validAddress", {":"}, "port1">>
  <2>1. s = "validAddress" /\ c \in {":"} /\ to = "port1"
    BY <1>1, <1>26
  <2>. QED
    BY <2>1 DEF LateSteps
<1>27. CASE q = <<"validArguments", ArgsLetters, "validArguments">>
  <2>1. s = "validArguments" /\ c \in ArgsLetters /\ to = "validArguments"
    BY <1>1, <1>27
  <2>. QED
    BY <2>1 DEF LateSteps
<1>28. CASE q = <<"validArguments", {"%"}, "percentEscape1">>
  <2>1. s = "validArguments" /\ c \in {"%"} /\ to = "percentEscape1"
    BY <1>1, <1>28
  <2>. QED
    BY <2>1 DEF LateSteps
<1>29. CASE q = <<"validArguments", {":"}, "port1">>
  <2>1. s = "validArguments" /\ c \in {":"} /\ to = "port1"
    BY <1>1, <1>29
  <2>. QED
    BY <2>1 DEF LateSteps
<1>. QED
  BY <1>1, <1>2, <1>3, <1>4, <1>5, <1>6, <1>7, <1>8, <1>9, <1>10, <1>11, <1>12, <1>13, <1>14, <1>15, <1>16, <1>17, <1>18, <1>19, <1>20, <1>21, <1>22, <1>23, <1>24, <1>25, <1>26, <1>27, <1>28, <1>29 DEF Transitions

\* A step within an address is one that continues it.
LEMMA ContinuesSo ==
  ASSUME NEW s, NEW c, NEW to, LateSteps(s, c, to)
  PROVE  Continues(s, c, to)
<1>1. CASE s = "domainSeparator" /\ c \in DomainLetters /\ to = "validDomain"
  BY <1>1 DEF Continues, HostStates, PartStates, Delimiters, UrlLetters, DomainLetters, ArgsLetters,
    AddressLetters, LowerLetters, UpperLetters, Digits, Hexadecimals
<1>2. CASE s = "port1" /\ c \in Digits /\ to = "validPort"
  BY <1>2 DEF Continues, HostStates, PartStates, Delimiters, UrlLetters, DomainLetters, ArgsLetters,
    AddressLetters, LowerLetters, UpperLetters, Digits, Hexadecimals
<1>3. CASE s = "percentEscape1" /\ c \in Hexadecimals /\ to = "percentEscape2"
  BY <1>3 DEF Continues, HostStates, PartStates, Delimiters, UrlLetters, DomainLetters, ArgsLetters,
    AddressLetters, LowerLetters, UpperLetters, Digits, Hexadecimals
<1>4. CASE s = "percentEscape2" /\ c \in Hexadecimals /\ to = "validArguments"
  BY <1>4 DEF Continues, HostStates, PartStates, Delimiters, UrlLetters, DomainLetters, ArgsLetters,
    AddressLetters, LowerLetters, UpperLetters, Digits, Hexadecimals
<1>5. CASE s = "validDomain" /\ c \in DomainLetters /\ to = "validDomain"
  BY <1>5 DEF Continues, HostStates, PartStates, Delimiters, UrlLetters, DomainLetters, ArgsLetters,
    AddressLetters, LowerLetters, UpperLetters, Digits, Hexadecimals
<1>6. CASE s = "validDomain" /\ c \in {"."} /\ to = "domainSeparator"
  BY <1>6 DEF Continues, HostStates, PartStates, Delimiters, UrlLetters, DomainLetters, ArgsLetters,
    AddressLetters, LowerLetters, UpperLetters, Digits, Hexadecimals
<1>7. CASE s = "validDomain" /\ c \in {"?"} /\ to = "validArguments"
  BY <1>7 DEF Continues, HostStates, PartStates, Delimiters, UrlLetters, DomainLetters, ArgsLetters,
    AddressLetters, LowerLetters, UpperLetters, Digits, Hexadecimals
<1>8. CASE s = "validDomain" /\ c \in {"/"} /\ to = "validAddress"
  BY <1>8 DEF Continues, HostStates, PartStates, Delimiters, UrlLetters, DomainLetters, ArgsLetters,
    AddressLetters, LowerLetters, UpperLetters, Digits, Hexadecimals
<1>9. CASE s = "validDomain" /\ c \in {":"} /\ to = "port1"
  BY <1>9 DEF Continues, HostStates, PartStates, Delimiters, UrlLetters, DomainLetters, ArgsLetters,
    AddressLetters, LowerLetters, UpperLetters, Digits, Hexadecimals
<1>10. CASE s = "validPort" /\ c \in Digits /\ to = "validPort"
  BY <1>10 DEF Continues, HostStates, PartStates, Delimiters, UrlLetters, DomainLetters, ArgsLetters,
    AddressLetters, LowerLetters, UpperLetters, Digits, Hexadecimals
<1>11. CASE s = "validPort" /\ c \in {"?"} /\ to = "validArguments"
  BY <1>11 DEF Continues, HostStates, PartStates, Delimiters, UrlLetters, DomainLetters, ArgsLetters,
    AddressLetters, LowerLetters, UpperLetters, Digits, Hexadecimals
<1>12. CASE s = "validPort" /\ c \in {"/"} /\ to = "validAddress"
  BY <1>12 DEF Continues, HostStates, PartStates, Delimiters, UrlLetters, DomainLetters, ArgsLetters,
    AddressLetters, LowerLetters, UpperLetters, Digits, Hexadecimals
<1>13. CASE s = "validAddress" /\ c \in AddressLetters \cup {"/"} /\ to = "validAddress"
  BY <1>13 DEF Continues, HostStates, PartStates, Delimiters, UrlLetters, DomainLetters, ArgsLetters,
    AddressLetters, LowerLetters, UpperLetters, Digits, Hexadecimals
<1>14. CASE s = "validAddress" /\ c \in {"?"} /\ to = "validArguments"
  BY <1>14 DEF Continues, HostStates, PartStates, Delimiters, UrlLetters, DomainLetters, ArgsLetters,
    AddressLetters, LowerLetters, UpperLetters, Digits, Hexadecimals
<1>15. CASE s = "validAddress" /\ c \in {":"} /\ to = "port1"
  BY <1>15 DEF Continues, HostStates, PartStates, Delimiters, UrlLetters, DomainLetters, ArgsLetters,
    AddressLetters, LowerLetters, UpperLetters, Digits, Hexadecimals
<1>16. CASE s = "validArguments" /\ c \in ArgsLetters /\ to = "validArguments"
  BY <1>16 DEF Continues, HostStates, PartStates, Delimiters, UrlLetters, DomainLetters, ArgsLetters,
    AddressLetters, LowerLetters, UpperLetters, Digits, Hexadecimals
<1>17. CASE s = "validArguments" /\ c \in {"%"} /\ to = "percentEscape1"
  BY <1>17 DEF Continues, HostStates, PartStates, Delimiters, UrlLetters, DomainLetters, ArgsLetters,
    AddressLetters, LowerLetters, UpperLetters, Digits, Hexadecimals
<1>18. CASE s = "validArguments" /\ c \in {":"} /\ to = "port1"
  BY <1>18 DEF Continues, HostStates, PartStates, Delimiters, UrlLetters, DomainLetters, ArgsLetters,
    AddressLetters, LowerLetters, UpperLetters, Digits, Hexadecimals
<1>. QED
  BY <1>1, <1>2, <1>3, <1>4, <1>5, <1>6, <1>7, <1>8, <1>9, <1>10, <1>11, <1>12, <1>13, <1>14, <1>15, <1>16, <1>17, <1>18 DEF LateSteps

\* One more character of an address.
LEMMA AddressGrows ==
  ASSUME NEW S, NEW w \in Seq(S), NEW c \in S, NEW s, NEW to, NEW n \in Nat, Address(w, s, n),
         s \in HostStates \cup PartStates, Continues(s, c, to)
  PROVE  Address(Append(w, c), to, n)
<1>. DEFINE v == Append(w, c)
            m == Len(w)
<1>1. m \in Nat /\ Len(v) = m + 1 /\ v[m + 1] = c /\ \A i \in 1..m : v[i] = w[i]
  OBVIOUS
<1>2. (n = 8 \/ n = 9) /\ m >= n /\ w[n] \in DomainLetters
      /\ (s = "validDomain" => w[m] \in DomainLetters)
      /\ (s \in PartStates => \E j \in n..m : w[j] \in Delimiters)
      /\ (\/ n = 8 /\ \A i \in 1..7 : w[i] = Http[i]
          \/ n = 9 /\ \A i \in 1..8 : w[i] = Https[i])
  BY DEF Address, AddressOf
<1>3. \A i \in n..m :
       /\ w[i] \in UrlLetters
       /\ w[i] = ":" => \/ i < m /\ w[i + 1] \in Digits
                        \/ i = m /\ s = "port1"
       /\ w[i] = "%" => \/ i + 2 <= m /\ w[i + 1] \in Hexadecimals /\ w[i + 2] \in Hexadecimals
                        \/ i = m /\ s = "percentEscape1"
                        \/ i + 1 = m /\ s = "percentEscape2" /\ w[i + 1] \in Hexadecimals
       /\ w[i] = "." /\ (\A j \in n..i : w[j] \notin Delimiters) =>
            /\ i - 1 >= n /\ w[i - 1] \in DomainLetters
            /\ \/ i < m /\ w[i + 1] \in DomainLetters
               \/ i = m /\ s = "domainSeparator"
  BY DEF Address, AddressOf
<1>. HIDE DEF v, m
<1>4. \A i \in n..m : i \in 1..m /\ v[i] = w[i]
  BY <1>1, <1>2
<1>5. ASSUME NEW i \in n..m
      PROVE  /\ v[i] \in UrlLetters
             /\ v[i] = ":" => i < m + 1 /\ v[i + 1] \in Digits
             /\ v[i] = "%" => \/ i + 2 <= m + 1 /\ v[i + 1] \in Hexadecimals /\ v[i + 2] \in Hexadecimals
                              \/ i + 1 = m + 1 /\ to = "percentEscape2" /\ v[i + 1] \in Hexadecimals
             /\ v[i] = "." /\ (\A j \in n..i : v[j] \notin Delimiters) =>
                  /\ i - 1 >= n /\ v[i - 1] \in DomainLetters
                  /\ i < m + 1 /\ v[i + 1] \in DomainLetters
  <2>1. v[i] = w[i] /\ i \in Nat /\ i <= m /\ i < m + 1
    BY <1>1, <1>4
  <2>2. v[i] \in UrlLetters
    BY <1>3, <2>1
  <2>3. v[i] = ":" => v[i + 1] \in Digits
    <3>1. i < m => i + 1 \in 1..m /\ v[i + 1] = w[i + 1]
      BY <1>1, <2>1
    <3>. QED
      BY <1>1, <1>3, <2>1, <3>1 DEF Continues
  <2>4. v[i] = "%" => \/ i + 2 <= m + 1 /\ v[i + 1] \in Hexadecimals /\ v[i + 2] \in Hexadecimals
                      \/ i + 1 = m + 1 /\ to = "percentEscape2" /\ v[i + 1] \in Hexadecimals
    <3>. SUFFICES ASSUME v[i] = "%"
                  PROVE  \/ i + 2 <= m + 1 /\ v[i + 1] \in Hexadecimals /\ v[i + 2] \in Hexadecimals
                         \/ i + 1 = m + 1 /\ to = "percentEscape2" /\ v[i + 1] \in Hexadecimals
      OBVIOUS
    <3>1. CASE i + 2 <= m /\ w[i + 1] \in Hexadecimals /\ w[i + 2] \in Hexadecimals
      <4>1. i + 1 \in 1..m /\ i + 2 \in 1..m /\ i + 2 <= m + 1
        BY <1>1, <2>1, <3>1
      <4>. QED
        BY <1>1, <3>1, <4>1
    <3>2. CASE i = m /\ s = "percentEscape1"
      BY <1>1, <2>1, <3>2 DEF Continues
    <3>3. CASE i + 1 = m /\ s = "percentEscape2" /\ w[i + 1] \in Hexadecimals
      <4>1. i + 1 \in 1..m /\ i + 2 = m + 1
        BY <1>1, <2>1, <3>3
      <4>2. v[i + 1] = w[i + 1] /\ v[i + 2] = c
        BY <1>1, <4>1
      <4>. QED
        BY <1>1, <3>3, <4>1, <4>2 DEF Continues
    <3>. QED
      BY <1>3, <2>1, <3>1, <3>2, <3>3
  <2>5. ASSUME v[i] = ".", \A j \in n..i : v[j] \notin Delimiters
        PROVE  i - 1 >= n /\ v[i - 1] \in DomainLetters /\ v[i + 1] \in DomainLetters
    <3>1. \A j \in n..i : w[j] \notin Delimiters
      <4>1. \A j \in n..i : j \in n..m
        BY <1>1, <1>2, <2>1
      <4>. QED
        BY <1>4, <2>5, <4>1
    <3>2. /\ i - 1 >= n /\ w[i - 1] \in DomainLetters
          /\ \/ i < m /\ w[i + 1] \in DomainLetters
             \/ i = m /\ s = "domainSeparator"
      BY <1>3, <2>1, <2>5, <3>1
    <3>3. i - 1 \in n..m /\ (i < m => i + 1 \in n..m)
      <4>1. i \in Nat /\ i <= m /\ i - 1 >= n /\ m \in Nat /\ n \in Nat
        BY <1>1, <2>1, <3>2
      <4>. QED
        BY ONLY <4>1
    <3>. QED
      BY <1>1, <1>4, <3>2, <3>3 DEF Continues
  <2>. QED
    BY <2>1, <2>2, <2>3, <2>4, <2>5
<1>6. c = "." /\ (\A j \in n..(m + 1) : v[j] \notin Delimiters) =>
        /\ m >= n /\ v[m] \in DomainLetters /\ to = "domainSeparator"
  <2>. SUFFICES ASSUME c = ".", \A j \in n..(m + 1) : v[j] \notin Delimiters
                PROVE  m >= n /\ v[m] \in DomainLetters /\ to = "domainSeparator"
    OBVIOUS
  <2>1. s \notin PartStates
    <3>1. \A j \in n..m : j \in n..(m + 1) /\ v[j] = w[j]
      BY <1>1, <1>2, <1>4
    <3>. QED
      BY <1>2, <3>1
  <2>2. s = "validDomain" /\ to = "domainSeparator"
    BY <2>1 DEF Continues
  <2>. QED
    BY <1>1, <1>2, <1>4, <2>2
<1>7. ASSUME NEW i \in n..(m + 1)
      PROVE
       /\ v[i] \in UrlLetters
       /\ v[i] = ":" => \/ i < m + 1 /\ v[i + 1] \in Digits
                        \/ i = m + 1 /\ to = "port1"
       /\ v[i] = "%" => \/ i + 2 <= m + 1 /\ v[i + 1] \in Hexadecimals /\ v[i + 2] \in Hexadecimals
                        \/ i = m + 1 /\ to = "percentEscape1"
                        \/ i + 1 = m + 1 /\ to = "percentEscape2" /\ v[i + 1] \in Hexadecimals
       /\ v[i] = "." /\ (\A j \in n..i : v[j] \notin Delimiters) =>
            /\ i - 1 >= n /\ v[i - 1] \in DomainLetters
            /\ \/ i < m + 1 /\ v[i + 1] \in DomainLetters
               \/ i = m + 1 /\ to = "domainSeparator"
  <2>1. CASE i \in n..m
    BY <1>5, <2>1
  <2>2. CASE i = m + 1
    <3>1. v[i] = c /\ i - 1 = m
      BY <1>1, <2>2
    <3>. QED
      BY <1>1, <1>6, <2>2, <3>1 DEF Continues
  <2>. QED
    BY <1>1, <1>2, <2>1, <2>2
<1>8. v[n] \in DomainLetters
  BY <1>1, <1>2, <1>4
<1>9. \/ n = 8 /\ \A i \in 1..7 : v[i] = Http[i]
      \/ n = 9 /\ \A i \in 1..8 : v[i] = Https[i]
  BY <1>1, <1>2
<1>10. to = "validDomain" => v[m + 1] \in DomainLetters
  BY <1>1 DEF Continues
<1>11. to \in PartStates => \E j \in n..(m + 1) : v[j] \in Delimiters
  <2>. SUFFICES ASSUME to \in PartStates PROVE \E j \in n..(m + 1) : v[j] \in Delimiters
    OBVIOUS
  <2>1. CASE s \in PartStates
    <3>1. PICK j \in n..m : w[j] \in Delimiters
      BY <1>2, <2>1
    <3>. QED
      BY <1>1, <1>2, <1>4, <3>1
  <2>2. CASE c \in Delimiters
    <3>1. m + 1 \in n..(m + 1)
      BY <1>1, <1>2
    <3>. QED
      BY <1>1, <2>2, <3>1
  <2>. QED
    BY <2>1, <2>2 DEF Continues
<1>12. m + 1 >= n
  BY <1>1, <1>2
<1>13. AddressOf(v, m + 1, to, n)
  BY <1>7, <1>8, <1>9, <1>10, <1>11, <1>12 DEF AddressOf
<1>. QED
  BY <1>1, <1>13 DEF Address, v

\* The letters of the schemes.
LEMMA Letters ==
  /\ Http[1] = "h" /\ Http[2] = "t" /\ Http[3] = "t" /\ Http[4] = "p" /\ Http[5] = ":"
  /\ Http[6] = "/" /\ Http[7] = "/"
  /\ Https[1] = "h" /\ Https[2] = "t" /\ Https[3] = "t" /\ Https[4] = "p" /\ Https[5] = "s"
  /\ Https[6] = ":" /\ Https[7] = "/" /\ Https[8] = "/"
BY DEF Http, Https

\* One more of them is read.
LEMMA ReadsNext ==
  ASSUME NEW S, NEW w \in Seq(S), NEW c, NEW p, NEW k \in Nat, Reads(w, p, k), c = p[k + 1], c \in S
  PROVE  Reads(Append(w, c), p, k + 1)
<1>. DEFINE v == Append(w, c)
<1>1. Len(w) = k /\ \A i \in 1..k : w[i] = p[i]
  BY DEF Reads
<1>2. Len(v) = k + 1 /\ v[k + 1] = c /\ \A i \in 1..k : v[i] = w[i]
  BY <1>1
<1>. HIDE DEF v
<1>3. Reads(v, p, k + 1)
  BY <1>1, <1>2 DEF Reads
<1>. QED
  BY <1>3 DEF v

\* The first characters.
LEMMA EarlyGrows ==
  ASSUME NEW S, NEW w \in Seq(S), NEW c \in S, NEW s, NEW to, Begun(w, s), EarlySteps(s, c, to)
  PROVE  Spelled(Append(w, c), to)
<1>. DEFINE v == Append(w, c)
            m == Len(w)
<1>0. m \in Nat /\ Len(v) = m + 1 /\ v[m + 1] = c /\ \A i \in 1..m : v[i] = w[i]
  OBVIOUS
<1>. HIDE DEF m
<1>1. CASE to \notin {"validDomain"}
  <2>1. to \notin HostStates \cup PartStates
    BY <1>1 DEF EarlySteps, HostStates, PartStates
  <2>2. Begun(v, to)
    <3>1. CASE s = "ready" /\ c = "h" /\ to = "h"
      <4>1. Reads(w, Http, 0)
        BY <3>1, Letters DEF Begun, Reads
      <4>2. Reads(v, Http, 0 + 1)
        <5>1. c = Http[0 + 1] /\ 0 \in Nat
          BY <3>1, Letters
        <5>. QED
          BY <4>1, <5>1, ReadsNext
      <4>3. Reads(v, Http, 1)
        BY <4>2
      <4>. HIDE DEF v
      <4>. QED
        BY <3>1, <4>3 DEF Begun
    <3>2. CASE s = "h" /\ c = "t" /\ to = "ht"
      <4>1. Reads(w, Http, 1)
        BY <3>2 DEF Begun, Reads
      <4>2. Reads(v, Http, 1 + 1)
        <5>1. c = Http[1 + 1] /\ 1 \in Nat
          BY <3>2, Letters
        <5>. QED
          BY <4>1, <5>1, ReadsNext
      <4>3. Reads(v, Http, 2)
        BY <4>2
      <4>. HIDE DEF v
      <4>. QED
        BY <3>2, <4>3 DEF Begun
    <3>3. CASE s = "ht" /\ c = "t" /\ to = "htt"
      <4>1. Reads(w, Http, 2)
        BY <3>3 DEF Begun, Reads
      <4>2. Reads(v, Http, 2 + 1)
        <5>1. c = Http[2 + 1] /\ 2 \in Nat
          BY <3>3, Letters
        <5>. QED
          BY <4>1, <5>1, ReadsNext
      <4>3. Reads(v, Http, 3)
        BY <4>2
      <4>. HIDE DEF v
      <4>. QED
        BY <3>3, <4>3 DEF Begun
    <3>4. CASE s = "htt" /\ c = "p" /\ to = "http"
      <4>1. Reads(w, Http, 3)
        BY <3>4 DEF Begun, Reads
      <4>2. Reads(v, Http, 3 + 1)
        <5>1. c = Http[3 + 1] /\ 3 \in Nat
          BY <3>4, Letters
        <5>. QED
          BY <4>1, <5>1, ReadsNext
      <4>3. Reads(v, Http, 4)
        BY <4>2
      <4>. HIDE DEF v
      <4>. QED
        BY <3>4, <4>3 DEF Begun
    <3>5. CASE s = "http" /\ c = "s" /\ to = "https"
      <4>1. Reads(w, Https, 4)
        BY <3>5, Letters DEF Begun, Reads
      <4>2. Reads(v, Https, 4 + 1)
        <5>1. c = Https[4 + 1] /\ 4 \in Nat
          BY <3>5, Letters
        <5>. QED
          BY <4>1, <5>1, ReadsNext
      <4>3. Reads(v, Https, 5)
        BY <4>2
      <4>. HIDE DEF v
      <4>. QED
        BY <3>5, <4>3 DEF Begun
    <3>6. CASE s = "http" /\ c = ":" /\ to = "protocol1"
      <4>1. Reads(w, Http, 4)
        BY <3>6 DEF Begun, Reads
      <4>2. Reads(v, Http, 4 + 1)
        <5>1. c = Http[4 + 1] /\ 4 \in Nat
          BY <3>6, Letters
        <5>. QED
          BY <4>1, <5>1, ReadsNext
      <4>3. Reads(v, Http, 5)
        BY <4>2
      <4>. HIDE DEF v
      <4>. QED
        BY <3>6, <4>3 DEF Begun
    <3>7. CASE s = "https" /\ c = ":" /\ to = "protocol1"
      <4>1. Reads(w, Https, 5)
        BY <3>7 DEF Begun, Reads
      <4>2. Reads(v, Https, 5 + 1)
        <5>1. c = Https[5 + 1] /\ 5 \in Nat
          BY <3>7, Letters
        <5>. QED
          BY <4>1, <5>1, ReadsNext
      <4>3. Reads(v, Https, 6)
        BY <4>2
      <4>. HIDE DEF v
      <4>. QED
        BY <3>7, <4>3 DEF Begun
    <3>8. CASE s = "protocol1" /\ c = "/" /\ to = "protocol2"
      <4>1. \/ Reads(w, Http, 5)
            \/ Reads(w, Https, 6)
        BY <3>8 DEF Begun
      <4>2. Reads(w, Http, 5) => Reads(v, Http, 6)
        <5>1. c = Http[5 + 1] /\ 5 \in Nat /\ 5 + 1 = 6
          BY <3>8, Letters
        <5>2. Reads(w, Http, 5) => Reads(v, Http, 5 + 1)
          BY <5>1, ReadsNext
        <5>. QED
          BY <5>1, <5>2
      <4>3. Reads(w, Https, 6) => Reads(v, Https, 7)
        <5>1. c = Https[6 + 1] /\ 6 \in Nat /\ 6 + 1 = 7
          BY <3>8, Letters
        <5>2. Reads(w, Https, 6) => Reads(v, Https, 6 + 1)
          BY <5>1, ReadsNext
        <5>. QED
          BY <5>1, <5>2
      <4>. HIDE DEF v
      <4>. QED
        BY <3>8, <4>1, <4>2, <4>3 DEF Begun
    <3>9. CASE s = "protocol2" /\ c = "/" /\ to = "domain1"
      <4>1. \/ Reads(w, Http, 6)
            \/ Reads(w, Https, 7)
        BY <3>9 DEF Begun
      <4>2. Reads(w, Http, 6) => Reads(v, Http, 7)
        <5>1. c = Http[6 + 1] /\ 6 \in Nat /\ 6 + 1 = 7
          BY <3>9, Letters
        <5>2. Reads(w, Http, 6) => Reads(v, Http, 6 + 1)
          BY <5>1, ReadsNext
        <5>. QED
          BY <5>1, <5>2
      <4>3. Reads(w, Https, 7) => Reads(v, Https, 8)
        <5>1. c = Https[7 + 1] /\ 7 \in Nat /\ 7 + 1 = 8
          BY <3>9, Letters
        <5>2. Reads(w, Https, 7) => Reads(v, Https, 7 + 1)
          BY <5>1, ReadsNext
        <5>. QED
          BY <5>1, <5>2
      <4>. HIDE DEF v
      <4>. QED
        BY <3>9, <4>1, <4>2, <4>3 DEF Begun
    <3>. HIDE DEF v
    <3>. QED
      BY <1>1, <3>1, <3>2, <3>3, <3>4, <3>5, <3>6, <3>7, <3>8, <3>9 DEF EarlySteps
  <2>. QED
    BY <2>1, <2>2 DEF Spelled
<1>2. CASE to = "validDomain"
  <2>1. s = "domain1" /\ c \in DomainLetters
    BY <1>2 DEF EarlySteps
  <2>3. \/ m = 7 /\ \A i \in 1..7 : w[i] = Http[i]
        \/ m = 8 /\ \A i \in 1..8 : w[i] = Https[i]
    BY <2>1 DEF Begun, Reads, m
  <2>4. Begun(v, to)
    BY <1>2 DEF Begun
  <2>5. c \in UrlLetters /\ c \notin {":", "%", "."} /\ "validDomain" \notin PartStates
    BY <2>1 DEF UrlLetters, DomainLetters, AddressLetters, LowerLetters, Digits, PartStates
  <2>6. AddressOf(v, m + 1, to, m + 1)
    <3>1. \/ m + 1 = 8 /\ \A i \in 1..7 : v[i] = Http[i]
          \/ m + 1 = 9 /\ \A i \in 1..8 : v[i] = Https[i]
      BY <1>0, <2>3
    <3>2. m + 1 >= m + 1 /\ v[m + 1] \in DomainLetters /\ \A i \in (m + 1)..(m + 1) : v[i] = c
      BY <1>0, <2>1
    <3>. HIDE DEF v, m
    <3>. QED
      BY <1>2, <2>1, <2>5, <3>1, <3>2 DEF AddressOf
  <2>7. m + 1 \in Nat
    BY <1>0
  <2>. HIDE DEF v, m
  <2>. QED
    BY <1>0, <2>4, <2>6, <2>7 DEF Spelled, Address, v
<1>. QED
  BY <1>1, <1>2

\* Every step of the matcher appends what it read.
LEMMA SpelledGrows ==
  ASSUME NEW S, NEW w \in Seq(S), NEW c \in S, NEW s, NEW to, Spelled(w, s), Steps(s, c, to)
  PROVE  Spelled(Append(w, c), to)
<1>1. CASE EarlySteps(s, c, to)
  BY <1>1, EarlyGrows DEF Spelled
<1>2. CASE LateSteps(s, c, to)
  <2>1. Continues(s, c, to)
    BY <1>2, ContinuesSo
  <2>2. s \in HostStates \cup PartStates
    BY <1>2 DEF LateSteps, HostStates, PartStates
  <2>3. PICK n \in Nat : Address(w, s, n)
    BY <2>2 DEF Spelled
  <2>4. Address(Append(w, c), to, n)
    BY <2>1, <2>2, <2>3, AddressGrows
  <2>5. Begun(Append(w, c), to)
    <3>1. to \in HostStates \cup PartStates
      BY <2>1 DEF Continues
    <3>. QED
      BY <3>1 DEF Begun, HostStates, PartStates
  <2>. QED
    BY <2>4, <2>5 DEF Spelled
<1>. QED
  BY <1>1, <1>2, StepCases

\* A sequence begins with the letters it was seen to begin with.
LEMMA BeginningIs ==
  ASSUME NEW S, NEW w \in Seq(S), NEW k \in Nat, k <= Len(w), NEW L, NEW p \in Seq(L), Len(p) = k,
         \A i \in 1..k : w[i] = p[i]
  PROVE  SubSeq(w, 1, k) = p
<1>. DEFINE T == S \cup L
            s == SubSeq(w, 1, k)
<1>1. s \in Seq(S) /\ Len(s) = k /\ \A i \in 1..k : s[i] = w[i]
  OBVIOUS
<1>. HIDE DEF s
<1>2. s = p
  BY <1>1
<1>. QED
  BY <1>2 DEF s

\* In a state that is valid it has read an address.
LEMMA SpelledIsUrl ==
  ASSUME NEW S, NEW w \in Seq(S), NEW s \in Valid, Spelled(w, s)
  PROVE  IsUrl(w)
<1>1. s \in HostStates \cup PartStates /\ s \notin {"port1", "percentEscape1", "percentEscape2", "domainSeparator"}
  BY DEF Valid, HostStates, PartStates
<1>2. PICK n \in Nat : Address(w, s, n)
  BY <1>1 DEF Spelled
<1>. DEFINE m == Len(w)
<1>3. /\ m \in Nat /\ m >= n /\ w[n] \in DomainLetters
      /\ (\/ n = 8 /\ \A i \in 1..7 : w[i] = Http[i]
          \/ n = 9 /\ \A i \in 1..8 : w[i] = Https[i])
  BY <1>2 DEF Address, AddressOf
<1>4. \A i \in n..m :
       /\ w[i] \in UrlLetters
       /\ w[i] = ":" => i < m /\ w[i + 1] \in Digits
       /\ w[i] = "%" => i + 2 <= m /\ w[i + 1] \in Hexadecimals /\ w[i + 2] \in Hexadecimals
       /\ w[i] = "." /\ (\A j \in n..i : w[j] \notin Delimiters) =>
            /\ i - 1 >= n /\ w[i - 1] \in DomainLetters
            /\ i < m /\ w[i + 1] \in DomainLetters
  BY <1>1, <1>2 DEF Address, AddressOf
<1>5. HostAt(w) = n
  <2>0. Http \in Seq({"h", "t", "p", "s", ":", "/"}) /\ Len(Http) = 7 /\ Https \in Seq({"h", "t", "p", "s", ":", "/"}) /\ Len(Https) = 8
    <3>1. Http \in Seq({"h", "t", "p", "s", ":", "/"}) /\ Len(Http) = 7
      BY DEF Http
    <3>2. Https \in Seq({"h", "t", "p", "s", ":", "/"}) /\ Len(Https) = 8
      BY DEF Https
    <3>. QED
      BY <3>1, <3>2
  <2>1. CASE n = 9
    <3>1. SubSeq(w, 1, 8) = Https
      <4>1. 8 <= Len(w) /\ \A i \in 1..8 : w[i] = Https[i]
        BY <1>3, <2>1
      <4>. QED
        BY ONLY <2>0, <4>1, BeginningIs, w \in Seq(S)
    <3>2. SubSeq(w, 1, 8) = <<"h", "t", "t", "p", "s", ":", "/", "/">>
      BY <3>1 DEF Https
    <3>. QED
      BY <1>3, <2>1, <3>2 DEF HostAt
  <2>2. CASE n = 8
    <3>1. SubSeq(w, 1, 7) = Http
      <4>1. 7 <= Len(w) /\ \A i \in 1..7 : w[i] = Http[i]
        BY <1>3, <2>2
      <4>. QED
        BY ONLY <2>0, <4>1, BeginningIs, w \in Seq(S)
    <3>2. SubSeq(w, 1, 8) # Https
      <4>1. SubSeq(w, 1, 8)[5] = w[5]
        BY <1>3, <2>2
      <4>2. w[5] = ":" /\ Https[5] = "s"
        BY <1>3, <2>2, Letters
      <4>. QED
        BY <4>1, <4>2
    <3>3. SubSeq(w, 1, 8) # <<"h", "t", "t", "p", "s", ":", "/", "/">>
      BY <3>2 DEF Https
    <3>4. SubSeq(w, 1, 7) = <<"h", "t", "t", "p", ":", "/", "/">>
      BY <3>1 DEF Http
    <3>. QED
      BY <1>3, <2>2, <3>3, <3>4 DEF HostAt
  <2>. QED
    BY <1>3, <2>1, <2>2
<1>. HIDE DEF m
<1>6. IsHostLetter(w, n)
  BY <1>3, <1>5 DEF IsHostLetter, m
<1>7. ASSUME NEW i \in n..m
      PROVE  /\ w[i] \in ArgsLetters \cup AddressLetters \cup {"/", "?", ":", "%"}
             /\ w[i] = ":" => i < m /\ w[i + 1] \in Digits
             /\ w[i] = "%" => i + 2 <= m /\ {w[i + 1], w[i + 2]} \subseteq Hexadecimals
             /\ w[i] = "." /\ (\A j \in n..i : w[j] \notin {"/", "?", ":"})
                  => IsHostLetter(w, i - 1) /\ IsHostLetter(w, i + 1)
  <2>1. w[i] \in ArgsLetters \cup AddressLetters \cup {"/", "?", ":", "%"}
    BY <1>4 DEF UrlLetters
  <2>2. w[i] = ":" => i < m /\ w[i + 1] \in Digits
    BY <1>4
  <2>3. w[i] = "%" => i + 2 <= m /\ {w[i + 1], w[i + 2]} \subseteq Hexadecimals
    BY <1>4
  <2>4. ASSUME w[i] = ".", \A j \in n..i : w[j] \notin {"/", "?", ":"}
        PROVE  IsHostLetter(w, i - 1) /\ IsHostLetter(w, i + 1)
    <3>1. /\ i - 1 >= n /\ w[i - 1] \in DomainLetters
          /\ i < m /\ w[i + 1] \in DomainLetters
      BY <1>4, <2>4 DEF Delimiters
    <3>2. i - 1 \in n..m /\ i + 1 \in n..m
      <4>1. i \in n..m /\ n \in Nat /\ m \in Nat /\ i - 1 >= n /\ i < m
        BY <1>3, <3>1
      <4>. QED
        BY ONLY <4>1
    <3>. QED
      BY <1>5, <3>1, <3>2 DEF IsHostLetter, m
  <2>. QED
    BY <2>1, <2>2, <2>3, <2>4
<1>8. HostAt(w) # 0 /\ IsHostLetter(w, HostAt(w))
  BY <1>3, <1>5, <1>6
<1>. QED
  BY <1>5, <1>7, <1>8 DEF IsUrl, m

\* transition(), given what the matcher has read.
LEMMA TransitionSpelled ==
  ASSUME NEW m \in Matchers, NEW S, NEW w \in Seq(S), Len(w) = m.size, Spelled(w, m.state), NEW c \in S
  PROVE  LET n == Transition(m, c) IN
         \/ n.size = 0 /\ n.state \in {"ready", "invalid"}
         \/ n.size = m.size + 1 /\ Spelled(Append(w, c), n.state)
<1>. DEFINE to == {t[3] : t \in {q \in Transitions : q[1] = m.state /\ c \in q[2]}}
            n == Transition(m, c)
<1>1. n = IF to # {} THEN [state |-> CHOOSE state \in to : TRUE, size |-> m.size + 1]
          ELSE [state |-> IF c \in Separators THEN "ready" ELSE "invalid", size |-> 0]
  BY DEF Transition
<1>2. \A s \in to : Steps(m.state, c, s)
  BY DEF Steps
<1>. HIDE DEF to
<1>3. CASE to # {}
  <2>1. n.size = m.size + 1 /\ n.state \in to
    BY <1>1, <1>3
  <2>. HIDE DEF n
  <2>2. Spelled(Append(w, c), n.state)
    BY <1>2, <2>1, SpelledGrows
  <2>. QED
    BY <2>1, <2>2 DEF n
<1>4. CASE to = {}
  BY <1>1, <1>4
<1>. QED
  BY <1>3, <1>4

-----------------------------------------------------------------------------
(* What the cells of a link show. *)

\* The rows of the normal mode with their history, and those of the other mode.
NormalRows(t) == t.history \o (IF t.alternate THEN t.backup.rows ELSE t.rows)
OtherRows(t) == IF t.alternate THEN t.rows ELSE t.backup.rows

\* Cells in the order of the screen.
Earlier(j, i, l, m) == j < l \/ (j = l /\ i < m)

\* The cells of o show characters of url in order: f says which.
ShowsAs(f, R, o, url) ==
  \A j \in 1..Len(R) : \A i \in 1..Width : R[j][i].so = o =>
    /\ f[j][i] \in 1..Len(url) /\ url[f[j][i]] = R[j][i].c
    /\ \A l \in 1..Len(R) : \A m \in 1..Width :
         R[l][m].so = o /\ Earlier(j, i, l, m) => f[j][i] < f[l][m]

Shows(R, o, url) == \E f : ShowsAs(f, R, o, url)

Without(R, o) == \A j \in 1..Len(R) : \A i \in 1..Width : R[j][i].so # o

\* A link is on one of two screens.
OnOne(N, A, o, url) == \/ Shows(N, o, url) /\ Without(A, o)
                       \/ Without(N, o) /\ Shows(A, o, url)

\* Q has of the cells of o only such that R had, d rows further down.
Remains(R, Q, o, d) ==
  \A j \in 1..Len(Q) : \A i \in 1..Width : Q[j][i].so = o =>
    j + d \in 1..Len(R) /\ R[j + d][i].so = o /\ R[j + d][i].c = Q[j][i].c

Fewer(R, Q, o) == \E d \in Nat : Remains(R, Q, o, d)

\* Where cells only went, what is left shows what it did.
LEMMA FewerShows ==
  ASSUME NEW R, NEW Q, NEW o, NEW url, Fewer(R, Q, o), Len(R) \in Nat, Len(Q) \in Nat, Width \in Nat
  PROVE  /\ Shows(R, o, url) => Shows(Q, o, url)
         /\ Without(R, o) => Without(Q, o)
<1>1. PICK d \in Nat : Remains(R, Q, o, d)
  BY DEF Fewer
<1>2. ASSUME NEW f, ShowsAs(f, R, o, url) PROVE Shows(Q, o, url)
  <2>. DEFINE g == [j \in 1..Len(Q) |-> f[j + d]]
  <2>1. \A j \in 1..Len(Q) : g[j] = f[j + d]
    OBVIOUS
  <2>. HIDE DEF g
  <2>2. ASSUME NEW j \in 1..Len(Q), NEW i \in 1..Width, Q[j][i].so = o
        PROVE  /\ g[j][i] \in 1..Len(url) /\ url[g[j][i]] = Q[j][i].c
               /\ \A l \in 1..Len(Q) : \A m \in 1..Width :
                    Q[l][m].so = o /\ Earlier(j, i, l, m) => g[j][i] < g[l][m]
    <3>1. j + d \in 1..Len(R) /\ R[j + d][i].so = o /\ R[j + d][i].c = Q[j][i].c
      BY <1>1, <2>2 DEF Remains
    <3>2. /\ f[j + d][i] \in 1..Len(url) /\ url[f[j + d][i]] = R[j + d][i].c
          /\ \A l \in 1..Len(R) : \A m \in 1..Width :
                    R[l][m].so = o /\ Earlier(j + d, i, l, m) => f[j + d][i] < f[l][m]
      BY <1>2, <2>2, <3>1 DEF ShowsAs
    <3>3. ASSUME NEW l \in 1..Len(Q), NEW m \in 1..Width, Q[l][m].so = o, Earlier(j, i, l, m)
          PROVE  g[j][i] < g[l][m]
      <4>1. l + d \in 1..Len(R) /\ R[l + d][m].so = o
        BY <1>1, <3>3 DEF Remains
      <4>2. Earlier(j + d, i, l + d, m)
        BY <3>3 DEF Earlier
      <4>3. f[j + d][i] < f[l + d][m]
        BY <3>2, <4>1, <4>2
      <4>. QED
        BY <2>1, <4>3
    <3>. QED
      BY <2>1, <3>1, <3>2, <3>3
  <2>3. ShowsAs(g, Q, o, url)
    BY <2>2 DEF ShowsAs
  <2>. QED
    BY <2>3 DEF Shows
<1>3. Without(R, o) => Without(Q, o)
  BY <1>1 DEF Remains, Without
<1>. QED
  BY <1>2, <1>3 DEF Shows

\* A live object with an address that OSC 8 did not name: it was found.
FoundLink(h, o) == h[o].live /\ h[o].url \notin Urls \cup {None}

\* Each shows what it opens, if OSC 8 did not come while it was matched.
LinksShown(t) ==
  \A o \in Objects \ t.mixed : FoundLink(t.heap, o) =>
    IsUrl(t.heap[o].url) /\ OnOne(NormalRows(t), OtherRows(t), o, t.heap[o].url)

\* No object of k is new, or has a new address.
KeepsUrls(h, k) == \A o \in Objects : k[o].live => h[o].live /\ k[o].url = h[o].url

\* The rows of both screens are sequences of rows.
LEMMA RowsFacts ==
  ASSUME NEW t \in Terminals
  PROVE  /\ NormalRows(t) \in Seq(Rows) /\ OtherRows(t) \in Seq(Rows)
         /\ Len(NormalRows(t)) = Len(t.history) + Height /\ Len(OtherRows(t)) = Height
         /\ Len(t.history) \in Nat
         /\ \A j \in 1..Len(t.history) : NormalRows(t)[j] = t.history[j]
         /\ \A j \in 1..Height :
              NormalRows(t)[Len(t.history) + j] = (IF t.alternate THEN t.backup.rows ELSE t.rows)[j]
<1>. DEFINE S == IF t.alternate THEN t.backup.rows ELSE t.rows
            H == t.history
<1>1. t.history \in Seq(Rows) /\ t.rows \in Screens /\ t.backup.rows \in Screens
  BY DEF Terminals
<1>2. t.rows \in Seq(Rows) /\ Len(t.rows) = Height /\ t.backup.rows \in Seq(Rows) /\ Len(t.backup.rows) = Height
  BY <1>1, RowsCount
<1>3. H \in Seq(Rows) /\ S \in Seq(Rows) /\ Len(S) = Height /\ Height \in Nat
  BY <1>1, <1>2, Sizes
<1>4. NormalRows(t) = H \o S
  BY DEF NormalRows
<1>5. OtherRows(t) \in Seq(Rows) /\ Len(OtherRows(t)) = Height
  BY <1>2 DEF OtherRows
<1>. HIDE DEF S, H
<1>6. /\ H \o S \in Seq(Rows) /\ Len(H \o S) = Len(H) + Height /\ Len(H) \in Nat
      /\ \A j \in 1..Len(H) : (H \o S)[j] = H[j]
      /\ \A j \in 1..Height : (H \o S)[Len(H) + j] = S[j]
  BY <1>3
<1>. QED
  BY <1>4, <1>5, <1>6 DEF S, H

\* What goes can only be fewer.
LEMMA ShownAfter ==
  ASSUME NEW t \in Terminals, NEW v \in Terminals, LinksShown(t), KeepsUrls(t.heap, v.heap),
         v.mixed = t.mixed,
         \A o \in Objects : FoundLink(v.heap, o) => /\ Fewer(NormalRows(t), NormalRows(v), o)
                                                    /\ Fewer(OtherRows(t), OtherRows(v), o)
  PROVE  LinksShown(v)
<1>. SUFFICES ASSUME NEW o \in Objects, o \notin v.mixed, FoundLink(v.heap, o)
              PROVE  IsUrl(v.heap[o].url) /\ OnOne(NormalRows(v), OtherRows(v), o, v.heap[o].url)
  BY DEF LinksShown
<1>1. t.heap[o].live /\ v.heap[o].url = t.heap[o].url /\ FoundLink(t.heap, o)
  BY DEF KeepsUrls, FoundLink
<1>2. IsUrl(t.heap[o].url) /\ OnOne(NormalRows(t), OtherRows(t), o, t.heap[o].url)
  BY <1>1 DEF LinksShown
<1>. DEFINE N == NormalRows(t)
            A == OtherRows(t)
            M == NormalRows(v)
            B == OtherRows(v)
            url == t.heap[o].url
<1>3. Fewer(N, M, o) /\ Fewer(A, B, o)
  OBVIOUS
<1>4. Len(N) \in Nat /\ Len(M) \in Nat /\ Len(A) \in Nat /\ Len(B) \in Nat /\ Width \in Nat
  BY RowsFacts, Sizes
<1>5. OnOne(N, A, o, url)
  BY <1>2
<1>. HIDE DEF N, A, M, B, url
<1>6. OnOne(M, B, o, url)
  BY ONLY <1>3, <1>4, <1>5, FewerShows DEF OnOne
<1>. QED
  BY <1>1, <1>2, <1>6 DEF M, B, url

\* Nothing but the screen changes,
SameElsewhere(t, v) ==
  v.history = t.history /\ v.alternate = t.alternate /\ v.mixed = t.mixed /\ v.backup.rows = t.backup.rows

\* and there o has no new cell.
FewerCells(R, Q, o) ==
  \A j \in 1..Height : \A i \in 1..Width : Q[j][i].so = o => R[j][i].so = o /\ R[j][i].c = Q[j][i].c

\* Where only the screen changes and a link has no new cell, each shows what it did.
LEMMA ScreenShown ==
  ASSUME NEW t \in Terminals, NEW v \in Terminals, LinksShown(t), KeepsUrls(t.heap, v.heap),
         SameElsewhere(t, v),
         \A o \in Objects : FoundLink(v.heap, o) => FewerCells(t.rows, v.rows, o)
  PROVE  LinksShown(v)
<1>. SUFFICES ASSUME NEW o \in Objects, FewerCells(t.rows, v.rows, o)
              PROVE  /\ Remains(NormalRows(t), NormalRows(v), o, 0)
                     /\ Remains(OtherRows(t), OtherRows(v), o, 0)
  BY ShownAfter DEF Fewer, SameElsewhere
<1>. DEFINE n == Len(t.history)
            S == IF t.alternate THEN t.backup.rows ELSE t.rows
            U == IF v.alternate THEN v.backup.rows ELSE v.rows
<1>1. /\ n \in Nat /\ Height \in Nat /\ n = Len(v.history)
      /\ Len(NormalRows(t)) = n + Height /\ Len(NormalRows(v)) = n + Height
      /\ Len(OtherRows(t)) = Height /\ Len(OtherRows(v)) = Height
      /\ \A j \in 1..n : NormalRows(v)[j] = NormalRows(t)[j]
      /\ \A j \in 1..Height : NormalRows(t)[n + j] = S[j] /\ NormalRows(v)[n + j] = U[j]
  <2>1. /\ n \in Nat /\ Len(NormalRows(t)) = n + Height /\ Len(OtherRows(t)) = Height
        /\ \A j \in 1..n : NormalRows(t)[j] = t.history[j]
        /\ \A j \in 1..Height : NormalRows(t)[n + j] = S[j]
    BY RowsFacts
  <2>. DEFINE m == Len(v.history)
  <2>2. /\ Len(NormalRows(v)) = m + Height /\ Len(OtherRows(v)) = Height
        /\ \A j \in 1..m : NormalRows(v)[j] = v.history[j]
        /\ \A j \in 1..Height : NormalRows(v)[m + j] = U[j]
    BY RowsFacts
  <2>3. m = n /\ n = Len(v.history) /\ v.history = t.history
    BY DEF SameElsewhere
  <2>. HIDE DEF n, m, S, U
  <2>. QED
    BY <2>1, <2>2, <2>3, Sizes
<1>2. FewerCells(S, U, o) /\ FewerCells(OtherRows(t), OtherRows(v), o)
  BY DEF SameElsewhere, OtherRows, FewerCells
<1>3. \A j \in 1..(n + Height) : j \in 1..n \/ (j - n \in 1..Height /\ n + (j - n) = j)
  BY <1>1
<1>. HIDE DEF n, S, U
<1>4. Remains(OtherRows(t), OtherRows(v), o, 0)
  BY <1>1, <1>2 DEF FewerCells, Remains
<1>5. ASSUME NEW j \in 1..(n + Height), NEW i \in 1..Width, NormalRows(v)[j][i].so = o
      PROVE  NormalRows(t)[j][i].so = o /\ NormalRows(t)[j][i].c = NormalRows(v)[j][i].c
  <2>1. CASE j \in 1..n
    BY <1>1, <1>5, <2>1
  <2>2. CASE j - n \in 1..Height /\ n + (j - n) = j
    <3>. DEFINE k == j - n
    <3>1. k \in 1..Height /\ n + k = j
      BY <2>2
    <3>. HIDE DEF k
    <3>2. NormalRows(t)[j] = S[k] /\ NormalRows(v)[j] = U[k]
      BY <1>1, <3>1
    <3>. QED
      BY <1>2, <1>5, <3>1, <3>2 DEF FewerCells
  <2>. QED
    BY <1>3, <2>1, <2>2
<1>6. Remains(NormalRows(t), NormalRows(v), o, 0)
  BY <1>1, <1>5 DEF Remains
<1>. QED
  BY <1>4, <1>6

\* Counting a reference makes no object and changes no address.
LEMMA UrlsSame ==
  ASSUME NEW h
  PROVE  KeepsUrls(h, h)
BY DEF KeepsUrls

\* Two changes that keep the addresses keep them.
LEMMA UrlsKept ==
  ASSUME NEW h, NEW k, NEW l, KeepsUrls(h, k), KeepsUrls(k, l)
  PROVE  KeepsUrls(h, l)
BY DEF KeepsUrls

\* A reference that comes changes no address,
LEMMA AttachKeeps ==
  ASSUME NEW h \in Heaps, NEW o \in Pointers
  PROVE  KeepsUrls(h, Attach(h, o))
<1>. DEFINE k == Attach(h, o)
            r == [h[o] EXCEPT !.refs = @ + 1]
<1>1. CASE o = NoObject
  BY <1>1 DEF Attach, KeepsUrls
<1>2. CASE o \in Objects
  <2>1. o # NoObject
    BY <1>2, ObjectsAssumption
  <2>2. h[o] \in [live : BOOLEAN, refs : Int, url : Texts, active : BOOLEAN]
    BY <1>2 DEF Heaps
  <2>3. r.live = h[o].live /\ r.url = h[o].url
    BY <2>2
  <2>4. k = [h EXCEPT ![o] = r]
    BY <2>1 DEF Attach
  <2>. HIDE DEF r
  <2>5. \A x \in Objects : k[x] = IF x = o THEN r ELSE h[x]
    BY <1>2, <2>4 DEF Heaps
  <2>. HIDE DEF k
  <2>6. KeepsUrls(h, k)
    BY <2>3, <2>5 DEF KeepsUrls
  <2>. QED
    BY <2>6 DEF k
<1>. QED
  BY <1>1, <1>2 DEF Pointers

\* nor does one that goes: the object may be deleted,
LEMMA DetachKeeps ==
  ASSUME NEW h \in Heaps, NEW o \in Pointers
  PROVE  KeepsUrls(h, Detach(h, o))
<1>. DEFINE k == Detach(h, o)
            r == IF h[o].refs = 1 THEN Free ELSE [h[o] EXCEPT !.refs = @ - 1]
<1>1. CASE o = NoObject
  BY <1>1 DEF Detach, KeepsUrls
<1>2. CASE o \in Objects
  <2>1. o # NoObject
    BY <1>2, ObjectsAssumption
  <2>2. h[o] \in [live : BOOLEAN, refs : Int, url : Texts, active : BOOLEAN]
    BY <1>2 DEF Heaps
  <2>3. r.live => r.live = h[o].live /\ r.url = h[o].url
    <3>1. ~ Free.live
      BY DEF Free
    <3>2. LET q == [h[o] EXCEPT !.refs = @ - 1] IN q.live = h[o].live /\ q.url = h[o].url
      BY <2>2
    <3>. QED
      BY <3>1, <3>2
  <2>4. k = [h EXCEPT ![o] = r]
    BY <2>1 DEF Detach
  <2>. HIDE DEF r
  <2>5. \A x \in Objects : k[x] = IF x = o THEN r ELSE h[x]
    BY <1>2, <2>4 DEF Heaps
  <2>. HIDE DEF k
  <2>6. KeepsUrls(h, k)
    BY <2>3, <2>5 DEF KeepsUrls
  <2>. QED
    BY <2>6 DEF k
<1>. QED
  BY <1>1, <1>2 DEF Pointers

\* or one that is given to another object.
LEMMA AssignKeeps ==
  ASSUME NEW h \in Heaps, NEW old \in Pointers, NEW new \in Pointers
  PROVE  KeepsUrls(h, Assign(h, old, new))
<1>1. CASE old = new
  BY <1>1, UrlsSame DEF Assign
<1>2. CASE old # new
  <2>1. Detach(h, old) \in Heaps /\ KeepsUrls(h, Detach(h, old))
    BY HeapSteps, DetachKeeps
  <2>2. KeepsUrls(Detach(h, old), Attach(Detach(h, old), new))
    BY <2>1, AttachKeeps
  <2>. QED
    BY <1>2, <2>1, <2>2, UrlsKept DEF Assign
<1>. QED
  BY <1>1, <1>2

\* Cells that are copied keep the addresses,
LEMMA CopyKeeps ==
  ASSUME NEW h \in Heaps, NEW s \in Seq(Cells)
  PROVE  KeepsUrls(h, CopyCells(h, s)) /\ CopyCells(h, s) \in Heaps
<1>. DEFINE n == Len(s)
<1>1. n \in Nat /\ DOMAIN s = 1..n /\ \A k \in 1..n : s[k].so \in Pointers
  <2>1. n \in Nat /\ DOMAIN s = 1..n /\ \A k \in 1..n : s[k] \in Cells
    OBVIOUS
  <2>. HIDE DEF n
  <2>. QED
    BY <2>1 DEF Cells
<1>. HIDE DEF n
<1>2. PICK r : Attaches(r, h, s, n) /\ CopyCells(h, s) = r[n]
  BY <1>1, CopySteps
<1>3. r \in [0..n -> Heaps] /\ r[0] = h /\ \A k \in 1..n : r[k] = Attach(r[k - 1], s[k].so)
  BY <1>2 DEF Attaches
<1>. DEFINE T == {k \in 0..n : KeepsUrls(h, r[k])}
<1>4. 0 \in T
  BY <1>1, <1>3, UrlsSame
<1>5. \A k \in 1..n : k - 1 \in T => k \in T
  <2>. SUFFICES ASSUME NEW k \in 1..n, k - 1 \in T PROVE k \in T
    OBVIOUS
  <2>1. k - 1 \in 0..n /\ k \in 0..n /\ r[k - 1] \in Heaps /\ KeepsUrls(h, r[k - 1])
    BY <1>1, <1>3
  <2>2. KeepsUrls(r[k - 1], r[k])
    BY <1>1, <1>3, <2>1, AttachKeeps
  <2>. QED
    BY <2>1, <2>2, UrlsKept
<1>. HIDE DEF T
<1>6. n \in T
  BY <1>1, <1>4, <1>5, StepByStep
<1>. QED
  BY <1>1, <1>2, <1>3, <1>6 DEF T

\* and so do those that are overwritten or deleted.
LEMMA FillKeeps ==
  ASSUME NEW h \in Heaps, NEW s \in Seq(Cells)
  PROVE  /\ KeepsUrls(h, FillCells(h, s)) /\ FillCells(h, s) \in Heaps
         /\ KeepsUrls(h, DeleteCells(h, s)) /\ DeleteCells(h, s) \in Heaps
<1>. DEFINE n == Len(s)
<1>1. n \in Nat /\ DOMAIN s = 1..n /\ \A k \in 1..n : s[k].so \in Pointers
  <2>1. n \in Nat /\ DOMAIN s = 1..n /\ \A k \in 1..n : s[k] \in Cells
    OBVIOUS
  <2>. HIDE DEF n
  <2>. QED
    BY <2>1 DEF Cells
<1>. HIDE DEF n
<1>2. PICK r : Detaches(r, h, s, n) /\ FillCells(h, s) = r[n]
  BY <1>1, FillSteps
<1>3. r \in [0..n -> Heaps] /\ r[0] = h /\ \A k \in 1..n : r[k] = Detach(r[k - 1], s[k].so)
  BY <1>2 DEF Detaches
<1>. DEFINE T == {k \in 0..n : KeepsUrls(h, r[k])}
<1>4. 0 \in T
  BY <1>1, <1>3, UrlsSame
<1>5. \A k \in 1..n : k - 1 \in T => k \in T
  <2>. SUFFICES ASSUME NEW k \in 1..n, k - 1 \in T PROVE k \in T
    OBVIOUS
  <2>1. k - 1 \in 0..n /\ k \in 0..n /\ r[k - 1] \in Heaps /\ KeepsUrls(h, r[k - 1])
    BY <1>1, <1>3
  <2>2. KeepsUrls(r[k - 1], r[k])
    BY <1>1, <1>3, <2>1, DetachKeeps
  <2>. QED
    BY <2>1, <2>2, UrlsKept
<1>. HIDE DEF T
<1>6. n \in T
  BY <1>1, <1>4, <1>5, StepByStep
<1>7. DeleteCells(h, s) = FillCells(h, s)
  BY DEF DeleteCells, FillCells
<1>. QED
  BY <1>1, <1>2, <1>3, <1>6, <1>7 DEF T

\* Where nothing but the heap and the pointers change, and no object is new.
LEMMA HeapShown ==
  ASSUME NEW t \in Terminals, NEW v \in Terminals, LinksShown(t), KeepsUrls(t.heap, v.heap),
         SameElsewhere(t, v), v.rows = t.rows
  PROVE  LinksShown(v)
BY ScreenShown DEF FewerCells

\* A screen that scrolled by a line.
LEMMA ScrolledRows ==
  ASSUME NEW R \in Screens
  PROVE  LET Q == Append(Tail(R), BlankRow) IN
         \A i \in 1..Height : Q[i] = IF i < Height THEN R[i + 1] ELSE BlankRow
<1>. DEFINE T == Tail(R)
            Q == Append(T, BlankRow)
<1>1. R \in Seq(Rows) /\ Len(R) = Height /\ Height \in Nat /\ Height > 0 /\ R # << >>
  BY RowsCount, Sizes
<1>2. T \in Seq(Rows) /\ Len(T) = Height - 1 /\ \A i \in 1..(Height - 1) : T[i] = R[i + 1]
  BY <1>1
<1>. HIDE DEF T
<1>3. \A i \in 1..(Height - 1) : Q[i] = T[i]
  BY <1>1, <1>2
<1>4. Q[Height] = BlankRow
  BY <1>1, <1>2
<1>. HIDE DEF Q
<1>5. \A i \in 1..Height : Q[i] = IF i < Height THEN R[i + 1] ELSE BlankRow
  BY <1>1, <1>2, <1>3, <1>4
<1>. QED
  BY <1>5 DEF Q, T

\* addHistoryRow() changes the history, from which it may take the first row.
LEMMA HistoryRowFacts ==
  ASSUME NEW t \in Terminals, NEW row \in Rows
  PROVE  LET v == AddHistoryRow(t, row)
             h == Append(t.history, row)
         IN \E d \in {0, 1} :
              /\ v.history \in Seq(Rows) /\ Len(v.history) = Len(t.history) + 1 - d
              /\ \A j \in 1..Len(v.history) :
                   v.history[j] = IF j + d <= Len(t.history) THEN t.history[j + d] ELSE row
              /\ v.rows = t.rows /\ v.backup = t.backup /\ v.alternate = t.alternate
              /\ v.mixed = t.mixed /\ v.matcher = t.matcher /\ v.cut = t.cut
              /\ v.heap \in Heaps /\ KeepsUrls(t.heap, v.heap) /\ v \in Terminals
<1>. DEFINE v == AddHistoryRow(t, row)
            H == t.history
            h == Append(H, row)
            n == Len(H)
<1>1. H \in Seq(Rows) /\ t.heap \in Heaps
  BY DEF Terminals
<1>2. n \in Nat /\ h \in Seq(Rows) /\ Len(h) = n + 1 /\ h # << >>
      /\ \A j \in 1..(n + 1) : h[j] = IF j <= n THEN H[j] ELSE row
  BY <1>1
<1>3. CASE Len(h) <= MaxHistoryRows
  <2>1. v = [t EXCEPT !.history = h]
    BY <1>3 DEF AddHistoryRow
  <2>. HIDE DEF v, h, n, H
  <2>2. /\ v.history = h /\ v.rows = t.rows /\ v.backup = t.backup /\ v.alternate = t.alternate
        /\ v.mixed = t.mixed
        /\ v.matcher = t.matcher /\ v.cut = t.cut /\ v.heap = t.heap /\ v \in Terminals
    BY <1>2, <2>1 DEF Terminals
  <2>3. /\ v.history \in Seq(Rows) /\ Len(v.history) = n + 1 - 0
        /\ \A j \in 1..Len(v.history) : v.history[j] = IF j + 0 <= n THEN H[j + 0] ELSE row
    BY <1>2, <2>2
  <2>. QED
    BY <1>1, <2>2, <2>3, UrlsSame DEF v, H, n
<1>4. CASE ~ (Len(h) <= MaxHistoryRows)
  <2>. DEFINE k == DeleteCells(t.heap, Head(h))
  <2>1. v = [t EXCEPT !.history = Tail(h), !.heap = k]
    BY <1>4 DEF AddHistoryRow
  <2>. HIDE DEF v, h, n, H
  <2>2. Head(h) \in Rows /\ Tail(h) \in Seq(Rows) /\ Len(Tail(h)) = n /\ \A j \in 1..n : Tail(h)[j] = h[j + 1]
    BY <1>2
  <2>3. k \in Heaps /\ KeepsUrls(t.heap, k)
    <3>1. Head(h) \in Seq(Cells)
      BY <2>2, Sizes, RowFacts
    <3>. QED
      BY <1>1, <3>1, FillKeeps
  <2>. HIDE DEF k
  <2>4. /\ v.history = Tail(h) /\ v.rows = t.rows /\ v.backup = t.backup /\ v.alternate = t.alternate
        /\ v.mixed = t.mixed
        /\ v.matcher = t.matcher /\ v.cut = t.cut /\ v.heap = k /\ v \in Terminals
    BY <2>1, <2>2, <2>3 DEF Terminals
  <2>5. /\ v.history \in Seq(Rows) /\ Len(v.history) = n + 1 - 1
        /\ \A j \in 1..Len(v.history) : v.history[j] = IF j + 1 <= n THEN H[j + 1] ELSE row
    BY <1>2, <2>2, <2>4
  <2>. QED
    BY <2>3, <2>4, <2>5 DEF v, H, n
<1>. QED
  BY <1>3, <1>4

\* What there is after a line was deleted.
LEMMA DeletedFacts ==
  ASSUME NEW t \in Terminals
  PROVE  LET v == DeleteLine(t) IN
         /\ v.rows = Append(Tail(t.rows), BlankRow)
         /\ v.backup = t.backup /\ v.alternate = t.alternate /\ v.mixed = t.mixed
         /\ v.matcher = t.matcher /\ v.cut = t.cut
         /\ KeepsUrls(t.heap, v.heap)
         /\ t.alternate => v.history = t.history
         /\ ~ t.alternate =>
              \E d \in {0, 1} :
                /\ v.history \in Seq(Rows) /\ Len(v.history) = Len(t.history) + 1 - d
                /\ \A j \in 1..Len(v.history) :
                     v.history[j] = IF j + d <= Len(t.history) THEN t.history[j + d] ELSE t.rows[1]
<1>. DEFINE row == t.rows[1]
            k == CopyCells(t.heap, row)
            t1 == [t EXCEPT !.heap = k]
            w == IF t.alternate THEN t ELSE AddHistoryRow(t1, row)
            v == DeleteLine(t)
            l == FillCells(w.heap, row)
            Q == Append(Tail(t.rows), BlankRow)
<1>1. t.rows \in Screens /\ t.heap \in Heaps
  BY DEF Terminals
<1>2. row \in Rows /\ row \in Seq(Cells)
  <2>1. row \in Rows
    BY <1>1, Sizes DEF Screens
  <2>. HIDE DEF row
  <2>. QED
    BY <2>1, Sizes, RowFacts
<1>3. v = [w EXCEPT !.heap = l, !.rows = Append(Tail(w.rows), BlankRow)]
  <2>1. v = [w EXCEPT !.heap = FillCells(@, t.rows[1]), !.rows = Append(Tail(@), BlankRow)]
    BY DEF DeleteLine
  <2>. HIDE DEF v, w
  <2>. QED
    BY <2>1, Zenon
<1>4. KeepsUrls(t.heap, k) /\ k \in Heaps
  BY <1>1, <1>2, CopyKeeps
<1>. HIDE DEF row, k, v, l
<1>5. t1 \in Terminals /\ t1.heap = k /\ t1.history = t.history /\ t1.rows = t.rows
      /\ t1.backup = t.backup /\ t1.alternate = t.alternate /\ t1.mixed = t.mixed
      /\ t1.matcher = t.matcher /\ t1.cut = t.cut
  BY <1>4 DEF Terminals
<1>. HIDE DEF t1
<1>6. /\ w.rows = t.rows /\ w.backup = t.backup /\ w.alternate = t.alternate /\ w.mixed = t.mixed
      /\ w.matcher = t.matcher /\ w.cut = t.cut
      /\ w.heap \in Heaps /\ KeepsUrls(t.heap, w.heap) /\ w \in Terminals
      /\ t.alternate => w.history = t.history
      /\ ~ t.alternate =>
           \E d \in {0, 1} :
             /\ w.history \in Seq(Rows) /\ Len(w.history) = Len(t.history) + 1 - d
             /\ \A j \in 1..Len(w.history) :
                  w.history[j] = IF j + d <= Len(t.history) THEN t.history[j + d] ELSE row
  <2>1. CASE t.alternate
    BY <1>1, <2>1, UrlsSame
  <2>2. CASE ~ t.alternate
    <3>1. LET x == AddHistoryRow(t1, row) IN
          \E d \in {0, 1} :
              /\ x.history \in Seq(Rows) /\ Len(x.history) = Len(t1.history) + 1 - d
              /\ \A j \in 1..Len(x.history) :
                   x.history[j] = IF j + d <= Len(t1.history) THEN t1.history[j + d] ELSE row
              /\ x.rows = t1.rows /\ x.backup = t1.backup /\ x.alternate = t1.alternate
              /\ x.mixed = t1.mixed /\ x.matcher = t1.matcher /\ x.cut = t1.cut
              /\ x.heap \in Heaps /\ KeepsUrls(t1.heap, x.heap) /\ x \in Terminals
      BY <1>2, <1>5, HistoryRowFacts
    <3>2. w = AddHistoryRow(t1, row)
      BY <2>2
    <3>. HIDE DEF w
    <3>3. KeepsUrls(t.heap, w.heap)
      BY <1>4, <1>5, <3>1, <3>2, UrlsKept
    <3>. QED
      BY <1>5, <2>2, <3>1, <3>2, <3>3
  <2>. QED
    BY <2>1, <2>2
<1>. HIDE DEF w
<1>7. l \in Heaps /\ KeepsUrls(w.heap, l)
  BY <1>2, <1>6, FillKeeps DEF l
<1>8. /\ v.heap = l /\ v.rows = Q /\ v.backup = w.backup /\ v.alternate = w.alternate /\ v.mixed = w.mixed
      /\ v.matcher = w.matcher /\ v.cut = w.cut /\ v.history = w.history
  BY <1>3, <1>6 DEF Terminals
<1>9. KeepsUrls(t.heap, v.heap)
  BY <1>6, <1>7, <1>8, UrlsKept
<1>. HIDE DEF Q
<1>10. /\ v.rows = Q
       /\ v.backup = t.backup /\ v.alternate = t.alternate /\ v.mixed = t.mixed
       /\ v.matcher = t.matcher /\ v.cut = t.cut
       /\ KeepsUrls(t.heap, v.heap)
       /\ t.alternate => v.history = t.history
       /\ ~ t.alternate =>
            \E d \in {0, 1} :
              /\ v.history \in Seq(Rows) /\ Len(v.history) = Len(t.history) + 1 - d
              /\ \A j \in 1..Len(v.history) :
                   v.history[j] = IF j + d <= Len(t.history) THEN t.history[j + d] ELSE t.rows[1]
  BY <1>6, <1>8, <1>9 DEF row
<1>. QED
  BY <1>10 DEF Q, v

\* Of a line that is deleted, and those that go up, links show what they did.
LEMMA DeleteLineShown ==
  ASSUME NEW t \in Terminals, DeleteLine(t) \in Terminals, LinksShown(t)
  PROVE  LinksShown(DeleteLine(t))
<1>. DEFINE v == DeleteLine(t)
            R == t.rows
            Q == v.rows
            H == t.history
            G == v.history
            n == Len(H)
            m == Len(G)
<1>1. R \in Screens /\ Height \in Nat /\ Height > 0
  BY Sizes DEF Terminals
<1>2. Q = Append(Tail(R), BlankRow)
      /\ v.backup = t.backup /\ v.alternate = t.alternate /\ v.mixed = t.mixed
      /\ KeepsUrls(t.heap, v.heap)
      /\ (t.alternate => G = H)
      /\ (~ t.alternate =>
            \E d \in {0, 1} : /\ G \in Seq(Rows) /\ m = n + 1 - d
                              /\ \A j \in 1..m : G[j] = IF j + d <= n THEN H[j + d] ELSE R[1])
  BY DeletedFacts
<1>. HIDE DEF v
<1>3. \A i \in 1..Height : Q[i] = IF i < Height THEN R[i + 1] ELSE BlankRow
  BY <1>1, <1>2, ScrolledRows
<1>4. \A o \in Objects : \A i \in 1..Width : BlankRow[i].so # o
  BY ObjectsAssumption DEF BlankRow, Cell
<1>5. /\ n \in Nat /\ Len(NormalRows(t)) = n + Height /\ Len(OtherRows(t)) = Height
      /\ (\A j \in 1..n : NormalRows(t)[j] = H[j])
      /\ \A j \in 1..Height : NormalRows(t)[n + j] = (IF t.alternate THEN t.backup.rows ELSE R)[j]
  BY RowsFacts
<1>6. v \in Terminals
  BY DEF v
<1>7. /\ m \in Nat /\ Len(NormalRows(v)) = m + Height /\ Len(OtherRows(v)) = Height
      /\ (\A j \in 1..m : NormalRows(v)[j] = G[j])
      /\ \A j \in 1..Height : NormalRows(v)[m + j] = (IF v.alternate THEN v.backup.rows ELSE Q)[j]
  BY <1>6, RowsFacts
<1>. HIDE DEF n, m, R, Q, H, G
<1>8. ASSUME NEW o \in Objects
      PROVE  Fewer(NormalRows(t), NormalRows(v), o) /\ Fewer(OtherRows(t), OtherRows(v), o)
  <2>1. CASE t.alternate
    <3>1. NormalRows(v) = NormalRows(t)
      BY <1>2, <2>1 DEF NormalRows, G, H
    <3>2. Fewer(NormalRows(t), NormalRows(v), o)
      <4>1. Remains(NormalRows(t), NormalRows(v), o, 0)
        BY <1>1, <1>5, <3>1 DEF Remains
      <4>. QED
        BY <4>1 DEF Fewer
    <3>3. OtherRows(t) = R /\ OtherRows(v) = Q
      BY <1>2, <2>1 DEF OtherRows, R, Q
    <3>4. Remains(R, Q, o, 1)
      <4>1. Len(R) = Height /\ Len(Q) = Height
        BY <1>5, <1>7, <3>3
      <4>2. ASSUME NEW j \in 1..Height, NEW i \in 1..Width, Q[j][i].so = o
            PROVE  j + 1 \in 1..Height /\ Q[j] = R[j + 1]
        BY <1>1, <1>3, <1>4, <4>2
      <4>. QED
        BY <4>1, <4>2 DEF Remains
    <3>5. Fewer(R, Q, o)
      BY <3>4 DEF Fewer
    <3>. QED
      BY <3>2, <3>3, <3>5
  <2>2. CASE ~ t.alternate
    <3>1. OtherRows(v) = OtherRows(t)
      BY <1>2, <2>2 DEF OtherRows
    <3>2. Fewer(OtherRows(t), OtherRows(v), o)
      <4>1. Remains(OtherRows(t), OtherRows(v), o, 0)
        BY <1>1, <1>5, <3>1 DEF Remains
      <4>. QED
        BY <4>1 DEF Fewer
    <3>3. PICK d \in {0, 1} : /\ m = n + 1 - d
                              /\ \A j \in 1..m : G[j] = IF j + d <= n THEN H[j + d] ELSE R[1]
      BY <1>2, <2>2
    <3>. DEFINE N == NormalRows(t)
                M == NormalRows(v)
    <3>4. /\ Len(N) = n + Height /\ (\A j \in 1..n : N[j] = H[j])
          /\ \A j \in 1..Height : N[n + j] = R[j]
      BY <1>5, <2>2
    <3>5. /\ Len(M) = m + Height /\ (\A j \in 1..m : M[j] = G[j])
          /\ \A j \in 1..Height : M[m + j] = Q[j]
      BY <1>2, <1>7, <2>2
    <3>. HIDE DEF N, M
    <3>6. ASSUME NEW j \in 1..(m + Height), NEW i \in 1..Width, M[j][i].so = o
          PROVE  j + d \in 1..(n + Height) /\ M[j] = N[j + d]
      <4>1. CASE j \in 1..m
        <5>1. j + d \in 1..(n + Height) /\ M[j] = IF j + d <= n THEN H[j + d] ELSE R[1]
          BY <1>1, <1>5, <1>7, <3>3, <3>5, <4>1
        <5>2. CASE j + d <= n
          <6>1. j + d \in 1..n
            BY <1>5, <3>3, <4>1, <5>2
          <6>. QED
            BY <3>4, <5>1, <5>2, <6>1
        <5>3. CASE ~ (j + d <= n)
          <6>1. j + d = n + 1 /\ 1 \in 1..Height
            BY <1>1, <1>5, <1>7, <3>3, <4>1, <5>3
          <6>. QED
            BY <3>4, <5>1, <5>3, <6>1
        <5>. QED
          BY <5>2, <5>3
      <4>2. CASE j \notin 1..m
        <5>. DEFINE k == j - m
        <5>1. k \in 1..Height /\ m + k = j /\ k + 1 \in Nat
          BY <1>1, <1>7, <4>2
        <5>. HIDE DEF k
        <5>2. M[j] = Q[k]
          BY <3>5, <5>1
        <5>3. k < Height /\ Q[k] = R[k + 1]
          BY <1>3, <1>4, <3>6, <5>1, <5>2
        <5>4. k + 1 \in 1..Height /\ n + (k + 1) = j + d
          BY <1>1, <1>5, <1>7, <3>3, <5>1, <5>3
        <5>5. N[j + d] = R[k + 1] /\ j + d \in 1..(n + Height)
          BY <1>5, <3>4, <5>4
        <5>. QED
          BY <5>2, <5>3, <5>5
      <4>. QED
        BY <4>1, <4>2
    <3>7. Remains(N, M, o, d)
      BY <3>4, <3>5, <3>6 DEF Remains
    <3>8. d \in Nat
      OBVIOUS
    <3>. QED
      BY <3>2, <3>7, <3>8 DEF Fewer, N, M
  <2>. QED
    BY <2>1, <2>2
<1>9. LinksShown(v)
  BY <1>2, <1>6, <1>8, ShownAfter
<1>. QED
  BY <1>9 DEF v

\* updateCursorPosition() may delete the first line.
LEMMA UpdateCursorFacts ==
  ASSUME NEW t, NEW p, NEW a, NEW u, Good(t, p, a, u), LinksShown(t)
  PROVE  LET v == UpdateCursorPosition(t) IN
         /\ LinksShown(v) /\ KeepsUrls(t.heap, v.heap) /\ v.matcher = t.matcher /\ v.cut = t.cut
         /\ \/ v = t
            \/ /\ t.x = Width /\ v.x = 0 /\ v.y = t.y + 1 /\ v.rows = t.rows
            \/ /\ t.x = Width /\ v.x = 0 /\ t.y = Height - 1 /\ v.y = t.y
               /\ v.rows = Append(Tail(t.rows), BlankRow)
<1>1. t \in Terminals /\ t.x \in 0..Width /\ t.y \in 0..(Height - 1)
  BY DEF Good, Terminals
<1>2. CASE t.x < Width
  BY <1>2, UrlsSame DEF UpdateCursorPosition
<1>3. CASE ~ (t.x < Width)
  <2>. DEFINE y == Min({t.y + 1, Height - 1})
              w == [t EXCEPT !.x = 0, !.y = y]
  <2>1. y \in 0..(Height - 1) /\ 0 \in 0..Width
        /\ y = (IF t.y + 1 = Height THEN t.y ELSE t.y + 1)
    <3>1. y = IF t.y + 1 <= Height - 1 THEN t.y + 1 ELSE Height - 1
      BY <1>1, Sizes, TwoNumbers
    <3>. HIDE DEF y
    <3>. QED
      BY <1>1, <3>1, Sizes
  <2>2. UpdateCursorPosition(t) = IF t.y + 1 = Height THEN DeleteLine(w) ELSE w
    BY <1>3 DEF UpdateCursorPosition
  <2>. HIDE DEF y
  <2>3. /\ w \in Terminals /\ w.history = t.history /\ w.rows = t.rows /\ w.backup = t.backup
        /\ w.heap = t.heap /\ w.link = t.link /\ w.status = t.status /\ w.alternate = t.alternate
        /\ w.mixed = t.mixed
        /\ w.matcher = t.matcher /\ w.cut = t.cut /\ w.x = 0 /\ w.y = y
    BY <1>1, <2>1 DEF Terminals
  <2>. HIDE DEF w
  <2>4. Good(w, p, a, u)
    BY <2>3, GoodSame
  <2>5. LinksShown(w)
    BY <1>1, <2>3, UrlsSame, HeapShown DEF SameElsewhere
  <2>6. /\ DeleteLine(w).x = 0 /\ DeleteLine(w).y = y /\ DeleteLine(w) \in Terminals
    BY <2>3, <2>4, DeleteLineGood DEF Good
  <2>7. LinksShown(DeleteLine(w))
    BY <2>3, <2>5, <2>6, DeleteLineShown
  <2>8. /\ DeleteLine(w).rows = Append(Tail(t.rows), BlankRow) /\ DeleteLine(w).matcher = t.matcher
        /\ DeleteLine(w).cut = t.cut /\ KeepsUrls(t.heap, DeleteLine(w).heap)
    BY <2>3, DeletedFacts
  <2>9. t.x = Width /\ (t.y + 1 = Height => t.y = Height - 1)
    BY <1>1, <1>3, Sizes
  <2>10. CASE t.y + 1 = Height
    BY <2>1, <2>2, <2>6, <2>7, <2>8, <2>9, <2>10
  <2>11. CASE t.y + 1 # Height
    BY <2>1, <2>2, <2>3, <2>5, <2>9, <2>11, UrlsSame
  <2>. QED
    BY <2>10, <2>11
<1>. QED
  BY <1>2, <1>3

\* The characters of the screen are the same.
SameChars(R, Q) == \A j \in 1..Height : \A i \in 1..Width : Q[j][i].c = R[j][i].c

\* What SetObject() changes.
LEMMA SetObjectFacts ==
  ASSUME NEW t \in Terminals, NEW place \in Places, NEW o \in Pointers
  PROVE  LET v == SetObject(t, place, o) IN
         /\ v.rows \in Screens /\ SameChars(t.rows, v.rows)
         /\ v.rows[RowOf(place)][ColumnOf(place)].so = o
         /\ \A j \in 1..Height : \A i \in 1..Width :
              (j = RowOf(place) /\ i = ColumnOf(place)) \/ v.rows[j][i] = t.rows[j][i]
         /\ v.history = t.history /\ v.backup = t.backup /\ v.alternate = t.alternate /\ v.mixed = t.mixed
         /\ v.matcher = t.matcher /\ v.cut = t.cut
         /\ KeepsUrls(t.heap, v.heap)
<1>. DEFINE v == SetObject(t, place, o)
            j == RowOf(place)
            i == ColumnOf(place)
            R == t.rows
            Q == WithObject(R, j, i, o)
            old == R[j][i].so
            k == Assign(t.heap, old, o)
            cell == [R[j][i] EXCEPT !.so = o]
            row == [R[j] EXCEPT ![i] = cell]
<1>1. R \in [1..Height -> [1..Width -> Cells]] /\ t.heap \in Heaps /\ R \in Screens
  BY DEF Terminals, Screens, Rows
<1>2. j \in 1..Height /\ i \in 1..Width
  BY PlaceFacts
<1>3. old \in Pointers /\ R[j][i] \in Cells
  BY <1>1, <1>2 DEF Cells
<1>4. v = [t EXCEPT !.heap = k, !.rows = Q]
  BY DEF SetObject, CellAt, Terminals, WithObject
<1>. HIDE DEF j, i, v
<1>5. cell \in Cells /\ cell.so = o /\ cell.c = R[j][i].c
  BY <1>3 DEF Cells
<1>6. Q = [R EXCEPT ![j] = row]
  BY <1>1, <1>2 DEF WithObject
<1>. HIDE DEF cell, Q
<1>7. row \in Rows /\ row[i] = cell /\ \A m \in 1..Width : m # i => row[m] = R[j][m]
  BY <1>1, <1>2, <1>5 DEF Rows
<1>. HIDE DEF row
<1>8. Q \in Screens /\ Q[j] = row /\ \A l \in 1..Height : l # j => Q[l] = R[l]
  BY <1>1, <1>2, <1>6, <1>7 DEF Screens
<1>9. k \in Heaps /\ KeepsUrls(t.heap, k)
  <2>1. KeepsUrls(t.heap, k)
    BY <1>1, <1>3, AssignKeeps
  <2>2. k \in Heaps
    BY <1>1, <1>3, HeapSteps DEF Assign
  <2>. QED
    BY <2>1, <2>2
<1>. HIDE DEF k, R, old
<1>10. /\ v.rows = Q /\ v.heap = k /\ v.history = t.history /\ v.backup = t.backup
       /\ v.alternate = t.alternate /\ v.mixed = t.mixed
       /\ v.matcher = t.matcher /\ v.cut = t.cut
  BY <1>4 DEF Terminals
<1>11. SameChars(R, Q)
  BY <1>5, <1>7, <1>8 DEF SameChars
<1>12. \A l \in 1..Height : \A m \in 1..Width : (l = j /\ m = i) \/ Q[l][m] = R[l][m]
  BY <1>7, <1>8
<1>13. Q[j][i].so = o
  BY <1>5, <1>7, <1>8
<1>. QED
  BY <1>8, <1>9, <1>10, <1>11, <1>12, <1>13 DEF v, j, i, R

\* A cell gets an object that was not found, or none.
LEMMA SetObjectShown ==
  ASSUME NEW t \in Terminals, NEW place \in Places, NEW o \in Pointers, LinksShown(t),
         SetObject(t, place, o) \in Terminals,
         o \in Objects => ~ FoundLink(SetObject(t, place, o).heap, o)
  PROVE  LinksShown(SetObject(t, place, o))
<1>. DEFINE v == SetObject(t, place, o)
<1>1. /\ SameChars(t.rows, v.rows)
      /\ v.rows[RowOf(place)][ColumnOf(place)].so = o
      /\ \A j \in 1..Height : \A i \in 1..Width :
              (j = RowOf(place) /\ i = ColumnOf(place)) \/ v.rows[j][i] = t.rows[j][i]
      /\ v.history = t.history /\ v.backup = t.backup /\ v.alternate = t.alternate /\ v.mixed = t.mixed
      /\ KeepsUrls(t.heap, v.heap)
  BY SetObjectFacts
<1>2. v \in Terminals /\ (o \in Objects => ~ FoundLink(v.heap, o))
  OBVIOUS
<1>. HIDE DEF v
<1>3. ASSUME NEW x \in Objects, FoundLink(v.heap, x) PROVE FewerCells(t.rows, v.rows, x)
  <2>1. x # o
    BY <1>2, <1>3
  <2>. QED
    BY <1>1, <2>1 DEF FewerCells
<1>4. LinksShown(v)
  BY <1>1, <1>2, <1>3, ScreenShown DEF SameElsewhere
<1>. QED
  BY <1>4 DEF v

\* The rows and columns of places: no two places share a cell, and they are in the
\* order of the screen.
LEMMA DivisionIs ==
  ASSUME NEW n \in Nat, NEW q \in Nat, NEW r \in 0..(Width - 1), n = Width * q + r
  PROVE  n \div Width = q /\ n % Width = r
<1>. DEFINE e == n \div Width
            s == n % Width
<1>1. e \in Nat /\ s \in 0..(Width - 1) /\ n = Width * e + s
  BY Sizes
<1>. HIDE DEF e, s
<1>2. e = q
  <2>1. ~ (e < q)
    <3>. SUFFICES ASSUME e + 1 <= q PROVE FALSE
      BY <1>1
    <3>1. Width * (e + 1) <= Width * q
      BY <1>1, Sizes
    <3>2. Width * (e + 1) = Width * e + Width
      BY <1>1, Sizes
    <3>. DEFINE a == Width * e
                b == Width * q
    <3>3. a \in Nat /\ b \in Nat /\ a + Width <= b
      BY <1>1, <3>1, <3>2, Sizes
    <3>4. n = a + s /\ n = b + r
      BY <1>1
    <3>. HIDE DEF a, b
    <3>. QED
      BY <1>1, <3>3, <3>4, Sizes
  <2>2. ~ (q < e)
    <3>. SUFFICES ASSUME q + 1 <= e PROVE FALSE
      BY <1>1
    <3>1. Width * (q + 1) <= Width * e
      BY <1>1, Sizes
    <3>2. Width * (q + 1) = Width * q + Width
      BY <1>1, Sizes
    <3>. DEFINE a == Width * q
                b == Width * e
    <3>3. a \in Nat /\ b \in Nat /\ a + Width <= b
      BY <1>1, <3>1, <3>2, Sizes
    <3>4. n = b + s /\ n = a + r
      BY <1>1
    <3>. HIDE DEF a, b
    <3>. QED
      BY <1>1, <3>3, <3>4, Sizes
  <2>. QED
    BY <1>1, <2>1, <2>2
<1>3. s = r
  <2>. DEFINE a == Width * q
  <2>1. a \in Nat /\ n = a + s /\ n = a + r
    BY <1>1, <1>2, Sizes
  <2>. HIDE DEF a
  <2>. QED
    BY <1>1, <2>1, Sizes
<1>. QED
  BY <1>2, <1>3 DEF e, s

\* The place of a cell.
PlaceAt(j, i) == (j - 1) * Width + i - 1

\* Places and cells belong to each other, in the order of the screen.
LEMMA PlaceAtFacts ==
  /\ \A j \in 1..Height : \A i \in 1..Width :
       PlaceAt(j, i) \in Places /\ RowOf(PlaceAt(j, i)) = j /\ ColumnOf(PlaceAt(j, i)) = i
  /\ \A p \in Places : PlaceAt(RowOf(p), ColumnOf(p)) = p
  /\ \A j, l \in 1..Height : \A i, m \in 1..Width :
       Earlier(j, i, l, m) => PlaceAt(j, i) < PlaceAt(l, m)
<1>1. ASSUME NEW j \in 1..Height, NEW i \in 1..Width
      PROVE  PlaceAt(j, i) \in Places /\ RowOf(PlaceAt(j, i)) = j /\ ColumnOf(PlaceAt(j, i)) = i
  <2>. DEFINE q == j - 1
              r == i - 1
              a == Width * q
  <2>1. q \in Nat /\ q + 1 <= Height /\ r \in 0..(Width - 1)
    BY Sizes
  <2>2. a \in Nat /\ a + Width <= Width * Height /\ Width * Height \in Nat
    <3>1. Width * (q + 1) <= Width * Height
      BY <2>1, Sizes
    <3>2. Width * (q + 1) = a + Width
      BY <2>1, Sizes
    <3>. QED
      BY <2>1, <3>1, <3>2, Sizes
  <2>3. PlaceAt(j, i) = a + r
    <3>1. q * Width = a
      BY <2>1, Sizes
    <3>. QED
      BY <2>2, <3>1, Sizes DEF PlaceAt
  <2>4. PlaceAt(j, i) \in Nat /\ PlaceAt(j, i) <= Width * Height - 1
    <3>. DEFINE n == Width * Height
    <3>1. n \in Nat /\ a + Width <= n
      BY <2>2
    <3>. HIDE DEF n, a
    <3>. QED
      BY <2>1, <2>2, <2>3, <3>1, Sizes DEF n
  <2>5. PlaceAt(j, i) \div Width = q /\ PlaceAt(j, i) % Width = r
    BY <2>1, <2>3, <2>4, DivisionIs
  <2>6. PlaceAt(j, i) \in Places
    BY <2>2, <2>4 DEF Places
  <2>. QED
    BY <2>5, <2>6 DEF RowOf, ColumnOf
<1>2. ASSUME NEW p \in Places PROVE PlaceAt(RowOf(p), ColumnOf(p)) = p
  <2>. DEFINE q == p \div Width
              r == p % Width
  <2>1. p \in Nat
    BY Sizes DEF Places
  <2>2. q \in Nat /\ r \in Nat /\ p = Width * q + r
    BY <2>1, Sizes
  <2>. HIDE DEF q, r
  <2>3. RowOf(p) = q + 1 /\ ColumnOf(p) = r + 1
    BY DEF RowOf, ColumnOf, q, r
  <2>4. q * Width = Width * q /\ Width * q \in Nat
    BY <2>2, Sizes
  <2>. QED
    BY <2>2, <2>3, <2>4 DEF PlaceAt
<1>3. ASSUME NEW j \in 1..Height, NEW l \in 1..Height, NEW i \in 1..Width, NEW m \in 1..Width, Earlier(j, i, l, m)
      PROVE  PlaceAt(j, i) < PlaceAt(l, m)
  <2>. DEFINE a == (j - 1) * Width
              b == (l - 1) * Width
  <2>1. a \in Nat /\ b \in Nat
    BY Sizes
  <2>2. j < l => a + Width <= b
    <3>. SUFFICES ASSUME j <= l - 1 PROVE a + Width <= b
      OBVIOUS
    <3>1. j * Width <= (l - 1) * Width /\ j * Width = (j - 1) * Width + Width
      BY Sizes
    <3>. QED
      BY <3>1
  <2>3. PlaceAt(j, i) = a + i - 1 /\ PlaceAt(l, m) = b + m - 1 /\ (j = l => a = b)
    BY DEF PlaceAt
  <2>. HIDE DEF a, b
  <2>. QED
    BY <1>3, <2>1, <2>2, <2>3, Sizes DEF Earlier
<1>. QED
  BY <1>1, <1>2, <1>3

\* Of a link that is given up, cells lose their object one after the other: what
\* each such step keeps is kept.
LEMMA DetachSteps ==
  ASSUME NEW t, NEW o, NEW half, ~ (Len(Entries(t)) % 2 = 1),
         NEW X, t \in X, \A e \in X : \A q \in Places : SetObject(e, q, NoObject) \in X
  PROVE  DetachFromAllCells(t, o, half) \in X
<1>. DEFINE cells == {q \in Places : CellAt(t, q).so = o}
            many == Len(Entries(t)) \div 2
            possible(S) == Cardinality(S) <= many /\ Cardinality(cells \ S) <= many
            some == IF possible(cells \cap half) THEN half ELSE CHOOSE S \in SUBSET cells : possible(S)
            s == cells \cap some
            pick == [V \in SUBSET s |-> CHOOSE q \in V : TRUE]
            step == [q \in s |-> [e \in X |-> SetObject(e, q, NoObject)]]
            Iter(f) == f = [V \in SUBSET s |->
                              IF V = {} THEN t
                              ELSE SetObject(f[V \ {CHOOSE q \in V : TRUE}], CHOOSE q \in V : TRUE, NoObject)]
            iter == CHOOSE f : Iter(f)
            v == DetachFromAllCells(t, o, half)
<1>1. v = iter[s]
  BY DEF DetachFromAllCells, FoldSet, MapThenFoldSet
<1>. HIDE DEF some
<1>2. s \in SUBSET Places /\ IsFiniteSet(s)
  <2>1. s \in SUBSET Places
    OBVIOUS
  <2>. HIDE DEF s
  <2>2. IsFiniteSet(Places)
    BY Sizes, FS_Interval DEF Places
  <2>. QED
    BY <2>1, <2>2, FS_Subset
<1>. HIDE DEF s
<1>3. \A V \in SUBSET s : V # {} => pick[V] \in V /\ pick[V] = CHOOSE q \in V : TRUE
  OBVIOUS
<1>4. t \in X /\ \A e \in X : \A q \in s : SetObject(e, q, NoObject) \in X
  BY <1>2
<1>5. step \in [s -> [X -> X]] /\ \A e \in X : \A q \in s : step[q][e] = SetObject(e, q, NoObject)
  BY <1>4
<1>. HIDE DEF pick, step
<1>6. PICK f : Picks(f, X, t, pick, step, SUBSET s)
  BY <1>2, <1>3, <1>4, <1>5, PicksExist
<1>7. f \in [SUBSET s -> X]
  BY <1>6 DEF Picks
<1>8. \A V \in SUBSET s :
        f[V] = IF V = {} THEN t
               ELSE SetObject(f[V \ {CHOOSE q \in V : TRUE}], CHOOSE q \in V : TRUE, NoObject)
  <2>. SUFFICES ASSUME NEW V \in SUBSET s, V # {}
                PROVE  f[V] = SetObject(f[V \ {CHOOSE q \in V : TRUE}], CHOOSE q \in V : TRUE, NoObject)
    BY <1>6 DEF Picks
  <2>1. pick[V] \in s /\ V \ {pick[V]} \in SUBSET s
    BY <1>3
  <2>2. f[V] = step[pick[V]][f[V \ {pick[V]}]]
    BY <1>6 DEF Picks
  <2>3. f[V \ {pick[V]}] \in X
    BY <1>7, <2>1
  <2>4. f[V] = SetObject(f[V \ {pick[V]}], pick[V], NoObject)
    BY <1>5, <2>1, <2>2, <2>3
  <2>5. pick[V] = CHOOSE q \in V : TRUE
    BY <1>3
  <2>. QED
    BY <2>4, <2>5
<1>9. f = [V \in SUBSET s |-> f[V]]
  BY <1>7
<1>10. Iter(f)
  BY <1>8, <1>9
<1>11. Iter(iter)
  <2>. HIDE DEF Iter
  <2>. QED
    BY <1>10
<1>. HIDE DEF iter
<1>12. \A V \in SUBSET s :
         iter[V] = IF V = {} THEN t
                   ELSE SetObject(iter[V \ {CHOOSE q \in V : TRUE}], CHOOSE q \in V : TRUE, NoObject)
  BY <1>11
<1>. HIDE DEF Iter
<1>13. iter[{}] \in X
  BY <1>4, <1>12
<1>14. ASSUME NEW V \in SUBSET s, V # {}, iter[V \ {pick[V]}] \in X PROVE iter[V] \in X
  <2>1. pick[V] \in s /\ pick[V] = CHOOSE q \in V : TRUE
    BY <1>3, <1>14
  <2>2. iter[V] = SetObject(iter[V \ {pick[V]}], pick[V], NoObject)
    BY <1>12, <1>14, <2>1
  <2>. QED
    BY <1>4, <1>14, <2>1, <2>2
<1>15. iter[s] \in X
  BY <1>2, <1>3, <1>13, <1>14, PicksKeep
<1>. HIDE DEF v
<1>16. v \in X
  BY <1>1, <1>15
<1>. QED
  BY <1>16 DEF v

-----------------------------------------------------------------------------
(* Detection: what was matched is before the cursor. *)

\* The characters the matcher has read are those before the cursor, but for such
\* that scrolled out; it reads none while OSC 8 names a link. When OSC 8 comes in
\* the middle of an address nothing is known of the text of that.
Before(t, w) ==
  \A k \in 1..Len(w) : k <= Place(t, 0) => CellAt(t, Place(t, k)).c = w[Len(w) + 1 - k]

MatchedAs(t, w) == Len(w) = t.matcher.size /\ Spelled(w, t.matcher.state) /\ Before(t, w)

Matched(t) ==
  IF t.cut THEN t.matcher.size > 0
  ELSE /\ \E w \in Seq(Characters) : MatchedAs(t, w)
       /\ t.matcher.size > 0 => t.link = NoObject

\* The link that OSC 8 named leads where it said.
LinkNamed(t) == t.link \in Objects => t.heap[t.link].url \in Urls

\* What there may be while the cells before the cursor of t become a link o, the
\* only pointer to which is that of the reader.
Linking(t, o, a, u, n, e) ==
  {v \in Terminals :
     /\ Good(v, o, a, u) /\ v.link = e.link /\ v.x = e.x /\ v.y = e.y
     /\ LinksShown(v) /\ SameElsewhere(e, v) /\ v.matcher = e.matcher /\ v.cut = e.cut
     /\ SameChars(e.rows, v.rows) /\ KeepsUrls(e.heap, v.heap)
     /\ \A j \in 1..Height : \A i \in 1..Width : v.rows[j][i].so = o =>
          \E k \in 1..n : PlaceAt(j, i) = Place(t, k)}

\* Each cell that is linked, or given up, is another such step.
LEMMA LinkingStep ==
  ASSUME NEW t, NEW o \in Objects, NEW a, NEW u, NEW n, NEW e, e.heap[o].url = None,
         NEW v \in Linking(t, o, a, u, n, e), NEW place \in Places, NEW x,
         x = NoObject \/ (x = o /\ \E k \in 1..n : place = Place(t, k))
  PROVE  SetObject(v, place, x) \in Linking(t, o, a, u, n, e)
<1>. DEFINE w == SetObject(v, place, x)
<1>1. /\ v \in Terminals /\ Good(v, o, a, u) /\ v.link = e.link /\ v.x = e.x /\ v.y = e.y
      /\ LinksShown(v) /\ SameElsewhere(e, v) /\ v.matcher = e.matcher /\ v.cut = e.cut
      /\ SameChars(e.rows, v.rows) /\ KeepsUrls(e.heap, v.heap)
      /\ \A j \in 1..Height : \A i \in 1..Width : v.rows[j][i].so = o =>
           \E k \in 1..n : PlaceAt(j, i) = Place(t, k)
  BY DEF Linking
<1>2. v \in Kept(v, o, a, u) /\ x \in {NoObject, o} /\ x \in Pointers
  BY <1>1 DEF Kept, Pointers
<1>3. w \in Kept(v, o, a, u)
  BY <1>2, KeptStep
<1>4. /\ SameChars(v.rows, w.rows)
      /\ w.rows[RowOf(place)][ColumnOf(place)].so = x
      /\ \A j \in 1..Height : \A i \in 1..Width :
              (j = RowOf(place) /\ i = ColumnOf(place)) \/ w.rows[j][i] = v.rows[j][i]
      /\ w.history = v.history /\ w.backup = v.backup /\ w.alternate = v.alternate /\ w.mixed = v.mixed
      /\ w.matcher = v.matcher /\ w.cut = v.cut
      /\ KeepsUrls(v.heap, w.heap)
  BY <1>1, <1>2, SetObjectFacts
<1>5. w \in Terminals /\ Good(w, o, a, u) /\ w.link = v.link /\ w.x = v.x /\ w.y = v.y
  BY <1>3 DEF Kept
<1>6. KeepsUrls(e.heap, w.heap)
  BY <1>1, <1>4, UrlsKept
<1>7. x \in Objects => ~ FoundLink(w.heap, x)
  <2>1. x \in Objects => x = o
    BY ObjectsAssumption
  <2>2. w.heap[o].live => w.heap[o].url = None
    BY <1>6 DEF KeepsUrls
  <2>. HIDE DEF w
  <2>. QED
    BY <2>1, <2>2 DEF FoundLink
<1>8. LinksShown(w)
  BY <1>1, <1>2, <1>5, <1>7, SetObjectShown
<1>. HIDE DEF w
<1>9. SameElsewhere(e, w) /\ SameChars(e.rows, w.rows)
  BY <1>1, <1>4 DEF SameElsewhere, SameChars
<1>10. ASSUME NEW j \in 1..Height, NEW i \in 1..Width, w.rows[j][i].so = o
       PROVE  \E k \in 1..n : PlaceAt(j, i) = Place(t, k)
  <2>1. CASE j = RowOf(place) /\ i = ColumnOf(place)
    <3>1. x = o
      BY <1>4, <1>10, <2>1
    <3>2. PICK k \in 1..n : place = Place(t, k)
      BY <3>1, ObjectsAssumption
    <3>3. PlaceAt(j, i) = place
      BY <2>1, PlaceAtFacts
    <3>. QED
      BY <3>2, <3>3
  <2>2. CASE w.rows[j][i] = v.rows[j][i]
    BY <1>1, <1>10, <2>2
  <2>. QED
    BY <1>4, <2>1, <2>2
<1>11. w \in Linking(t, o, a, u, n, e)
  BY <1>1, <1>4, <1>5, <1>6, <1>8, <1>9, <1>10 DEF Linking
<1>. QED
  BY <1>11 DEF w

\* All of them are linked,
LEMMA AllLinked ==
  ASSUME NEW t, NEW o \in Objects, NEW a, NEW u, NEW n \in Nat, NEW e, e.heap[o].url = None,
         e \in Linking(t, o, a, u, n, e), \A k \in 1..n : Place(t, k) \in Places
  PROVE  Linked(t, n, e, o) \in Linking(t, o, a, u, n, e)
<1>. DEFINE X == Linking(t, o, a, u, n, e)
<1>1. \A v \in X : \A k \in 1..n : SetObject(v, Place(t, k), o) \in X
  BY LinkingStep
<1>2. e \in X
  OBVIOUS
<1>. HIDE DEF X
<1>3. LinksIn(X, t, n, o)
  BY <1>1 DEF LinksIn
<1>. QED
  BY <1>2, <1>3, LinkSteps DEF X

\* or the link is given up.
LEMMA GivenUp ==
  ASSUME NEW t, NEW o \in Objects, NEW a, NEW u, NEW n \in Nat, NEW e, e.heap[o].url = None,
         NEW v \in Linking(t, o, a, u, n, e), NEW half
  PROVE  DetachFromAllCells(v, o, half) \in Linking(t, o, a, u, n, e)
<1>. DEFINE X == Linking(t, o, a, u, n, e)
            w == DetachFromAllCells(v, o, half)
<1>1. CASE Len(Entries(v)) % 2 = 1
  <2>1. w = [v EXCEPT !.status = "undefined"]
    BY <1>1 DEF DetachFromAllCells
  <2>. HIDE DEF w
  <2>2. /\ v \in Terminals /\ Good(v, o, a, u) /\ v.link = e.link /\ v.x = e.x /\ v.y = e.y
        /\ LinksShown(v) /\ SameElsewhere(e, v) /\ v.matcher = e.matcher /\ v.cut = e.cut
        /\ SameChars(e.rows, v.rows) /\ KeepsUrls(e.heap, v.heap)
        /\ \A j \in 1..Height : \A i \in 1..Width : v.rows[j][i].so = o =>
             \E k \in 1..n : PlaceAt(j, i) = Place(t, k)
    BY DEF Linking
  <2>3. /\ w \in Terminals /\ w.history = v.history /\ w.rows = v.rows /\ w.backup = v.backup
        /\ w.heap = v.heap /\ w.link = v.link /\ w.alternate = v.alternate /\ w.mixed = v.mixed
        /\ w.matcher = v.matcher /\ w.cut = v.cut
        /\ w.x = v.x /\ w.y = v.y
    BY <2>1, <2>2 DEF Terminals
  <2>4. Good(w, o, a, u)
    BY <2>2, <2>3, GoodSame
  <2>5. LinksShown(w)
    BY <2>2, <2>3, UrlsSame, HeapShown DEF SameElsewhere
  <2>6. SameElsewhere(e, w)
    BY <2>2, <2>3 DEF SameElsewhere
  <2>7. w \in X
    BY <2>2, <2>3, <2>4, <2>5, <2>6 DEF Linking
  <2>. QED
    BY <2>7 DEF w
<1>2. CASE ~ (Len(Entries(v)) % 2 = 1)
  <2>1. \A d \in X : \A q \in Places : SetObject(d, q, NoObject) \in X
    BY LinkingStep
  <2>2. v \in X
    OBVIOUS
  <2>. HIDE DEF X, w
  <2>3. DetachFromAllCells(v, o, half) \in X
    BY <1>2, <2>1, <2>2, DetachSteps
  <2>. QED
    BY <2>3 DEF X
<1>. QED
  BY <1>1, <1>2

\* An object that is not live is on no cell.
LEMMA NotLiveNowhere ==
  ASSUME NEW t, NEW p, NEW a, NEW u, Good(t, p, a, u), NEW o \in Objects, ~ t.heap[o].live
  PROVE  /\ \A j \in 1..Len(t.history) : \A i \in 1..Width : t.history[j][i].so # o
         /\ \A j \in 1..Height : \A i \in 1..Width : t.rows[j][i].so # o /\ t.backup.rows[j][i].so # o
<1>. DEFINE f == Refs(t, p, a)
            H == InRows(t.history, Len(t.history), o)
            R == InRows(t.rows, Height, o)
            B == InRows(t.backup.rows, Height, o)
            l == One(t.link, o)
            m == One(p, o)
            k == One(a, o)
<1>1. t.history \in Seq(Rows) /\ t.rows \in Screens /\ t.backup.rows \in Screens /\ Len(t.history) \in Nat
  BY DEF Good, Terminals
<1>2. /\ H \in Nat /\ R \in Nat /\ B \in Nat /\ l \in Nat /\ m \in Nat /\ k \in Nat
      /\ f[o] = H + R + B + l + m + k
  BY <1>1, RefsSum
<1>3. f[o] = 0
  <2>1. t.heap[o].live = (f[o] > 0) /\ f[o] \in Nat
    BY DEF Good, Sound, Counts
  <2>2. ~ (f[o] > 0)
    BY <2>1, Zenon
  <2>. HIDE DEF f
  <2>. QED
    BY <2>1, <2>2
<1>4. H = 0 /\ R = 0 /\ B = 0
  <2>. HIDE DEF f, H, R, B, l, m, k
  <2>1. H + R + B + l + m + k = 0
    BY <1>2, <1>3
  <2>. QED
    BY ONLY <1>2, <2>1
<1>. HIDE DEF f, l, m, k
<1>5. \A j \in 1..Len(t.history), i \in 1..Width : t.history[j][i].so # o
  <2>1. Width \in Nat
    BY Sizes
  <2>2. (\E j \in 1..Len(t.history), i \in 1..Width : t.history[j][i].so = o) => H > 0
    BY <1>1, <2>1, InRowsNat
  <2>. HIDE DEF H
  <2>. QED
    BY <1>4, <2>2
<1>6. \A j \in 1..Height, i \in 1..Width : t.rows[j][i].so # o /\ t.backup.rows[j][i].so # o
  <2>1. /\ \A j \in 1..Height, i \in 1..Width : t.rows[j][i].so = o => R > 0
        /\ \A j \in 1..Height, i \in 1..Width : t.backup.rows[j][i].so = o => B > 0
    BY <1>1, RowsCount
  <2>. HIDE DEF R, B
  <2>. QED
    BY <1>4, <2>1
<1>. QED
  BY <1>5, <1>6

\* A link whose cells are on the screen only.
LEMMA OnScreenOnly ==
  ASSUME NEW t \in Terminals, NEW o, NEW url, NEW f, ShowsAs(f, t.rows, o, url),
         \A j \in 1..Len(t.history) : \A i \in 1..Width : t.history[j][i].so # o,
         \A j \in 1..Height : \A i \in 1..Width : t.backup.rows[j][i].so # o
  PROVE  OnOne(NormalRows(t), OtherRows(t), o, url)
<1>. DEFINE n == Len(t.history)
            N == NormalRows(t)
<1>1. /\ n \in Nat /\ Height \in Nat /\ Len(N) = n + Height /\ Len(OtherRows(t)) = Height
      /\ (\A j \in 1..n : N[j] = t.history[j])
      /\ \A j \in 1..Height : N[n + j] = (IF t.alternate THEN t.backup.rows ELSE t.rows)[j]
  BY RowsFacts, Sizes
<1>2. Len(t.rows) = Height
  BY RowsCount DEF Terminals
<1>. HIDE DEF n
<1>3. \A j \in 1..(n + Height) : j \in 1..n \/ (j - n \in 1..Height /\ n + (j - n) = j)
  BY <1>1
<1>4. CASE t.alternate
  <2>1. OtherRows(t) = t.rows /\ Shows(OtherRows(t), o, url)
    BY <1>4 DEF OtherRows, Shows
  <2>2. ASSUME NEW j \in 1..(n + Height), NEW i \in 1..Width PROVE N[j][i].so # o
    <3>1. CASE j \in 1..n
      BY <1>1, <3>1 DEF n
    <3>2. CASE j - n \in 1..Height /\ n + (j - n) = j
      <4>1. N[j] = t.backup.rows[j - n]
        BY <1>1, <1>4, <3>2
      <4>. QED
        BY <3>2, <4>1
    <3>. QED
      BY <1>3, <3>1, <3>2
  <2>3. Without(N, o)
    BY <1>1, <2>2 DEF Without
  <2>. QED
    BY <2>1, <2>3 DEF OnOne
<1>5. CASE ~ t.alternate
  <2>1. Without(OtherRows(t), o)
    <3>1. OtherRows(t) = t.backup.rows
      BY <1>5 DEF OtherRows
    <3>. QED
      BY <1>1, <3>1 DEF Without
  <2>. DEFINE g == [j \in 1..(n + Height) |-> f[j - n]]
  <2>2. \A j \in 1..(n + Height) : g[j] = f[j - n]
    OBVIOUS
  <2>. HIDE DEF g
  <2>3. ASSUME NEW j \in 1..(n + Height), NEW i \in 1..Width, N[j][i].so = o
        PROVE  j - n \in 1..Height /\ N[j] = t.rows[j - n]
    <3>1. j \notin 1..n
      BY <1>1, <2>3 DEF n
    <3>2. j - n \in 1..Height /\ n + (j - n) = j
      BY <1>3, <3>1
    <3>. QED
      BY <1>1, <1>5, <3>2
  <2>4. ASSUME NEW j \in 1..(n + Height), NEW i \in 1..Width, N[j][i].so = o
        PROVE  /\ g[j][i] \in 1..Len(url) /\ url[g[j][i]] = N[j][i].c
               /\ \A l \in 1..(n + Height) : \A m \in 1..Width :
                    N[l][m].so = o /\ Earlier(j, i, l, m) => g[j][i] < g[l][m]
    <3>1. j - n \in 1..Height /\ N[j] = t.rows[j - n]
      BY <2>3, <2>4
    <3>2. /\ f[j - n][i] \in 1..Len(url) /\ url[f[j - n][i]] = N[j][i].c
          /\ \A l \in 1..Height : \A m \in 1..Width :
               t.rows[l][m].so = o /\ Earlier(j - n, i, l, m) => f[j - n][i] < f[l][m]
      BY <1>2, <2>4, <3>1 DEF ShowsAs
    <3>3. ASSUME NEW l \in 1..(n + Height), NEW m \in 1..Width, N[l][m].so = o, Earlier(j, i, l, m)
          PROVE  g[j][i] < g[l][m]
      <4>1. l - n \in 1..Height /\ N[l] = t.rows[l - n]
        BY <2>3, <3>3
      <4>2. Earlier(j - n, i, l - n, m)
        <5>1. j \in Nat /\ l \in Nat
          BY <1>1
        <5>. QED
          BY <1>1, <3>3, <5>1 DEF Earlier
      <4>3. f[j - n][i] < f[l - n][m]
        BY <3>2, <3>3, <4>1, <4>2
      <4>. QED
        BY <2>2, <4>3
    <3>. QED
      BY <2>2, <3>2, <3>3
  <2>. HIDE DEF N
  <2>5. ShowsAs(g, N, o, url)
    BY <1>1, <2>4 DEF ShowsAs
  <2>. QED
    BY <2>1, <2>5 DEF OnOne, Shows, N
<1>. QED
  BY <1>4, <1>5

\* An object that OSC 8 named, or one that has no address yet, is new.
LEMMA NewShown ==
  ASSUME NEW t \in Terminals, NEW o \in Objects, NEW url \in Urls \cup {None}, LinksShown(t),
         NEW v \in Terminals, v.history = t.history, v.alternate = t.alternate, v.backup.rows = t.backup.rows,
         v.rows = t.rows, v.heap = New(t.heap, o, url), t.mixed \subseteq v.mixed \cup {o}
  PROVE  LinksShown(v)
<1>. DEFINE r == [Free EXCEPT !.live = TRUE, !.refs = 1, !.url = url]
<1>1. NormalRows(v) = NormalRows(t) /\ OtherRows(v) = OtherRows(t)
  BY DEF NormalRows, OtherRows
<1>2. t.heap \in Heaps
  BY DEF Terminals
<1>3. r.url = url
  BY DEF Free
<1>4. v.heap = [t.heap EXCEPT ![o] = r]
  BY DEF New
<1>. HIDE DEF r
<1>5. \A x \in Objects : v.heap[x] = IF x = o THEN r ELSE t.heap[x]
  BY <1>2, <1>4 DEF Heaps
<1>6. ASSUME NEW x \in Objects, x \notin v.mixed, FoundLink(v.heap, x)
      PROVE  IsUrl(v.heap[x].url) /\ OnOne(NormalRows(v), OtherRows(v), x, v.heap[x].url)
  <2>1. x # o
    BY <1>3, <1>5, <1>6 DEF FoundLink
  <2>2. v.heap[x] = t.heap[x]
    BY <1>5, <2>1
  <2>3. FoundLink(t.heap, x) /\ x \notin t.mixed
    BY <1>6, <2>1, <2>2 DEF FoundLink
  <2>. QED
    BY <1>1, <2>2, <2>3 DEF LinksShown
<1>. QED
  BY <1>6 DEF LinksShown

\* The cells before the cursor that were linked show what they spell.
LEMMA LinkSpells ==
  ASSUME NEW t \in Terminals, NEW R \in Screens, SameChars(t.rows, R), NEW o,
         NEW n \in Nat, n <= Place(t, 0),
         \A j \in 1..Height : \A i \in 1..Width : R[j][i].so = o =>
           \E k \in 1..n : PlaceAt(j, i) = Place(t, k)
  PROVE  \E f : ShowsAs(f, R, o, [i \in 1..n |-> CellAt(t, Place(t, n + 1 - i)).c])
<1>. DEFINE url == [i \in 1..n |-> CellAt(t, Place(t, n + 1 - i)).c]
            p == Place(t, 0)
            f == [j \in 1..Height |-> [i \in 1..Width |-> n + 1 - (p - PlaceAt(j, i))]]
<1>1. t.x \in 0..Width /\ t.y \in 0..(Height - 1)
  BY DEF Terminals
<1>2. p \in Nat /\ \A k \in 1..n : Place(t, k) = p - k
  <2>1. p \in Nat
    BY <1>1, Places1
  <2>2. \A k \in 1..n : Place(t, k) = p - k
    <3>1. t.y * Width \in Nat
      BY <1>1, Sizes
    <3>. DEFINE q == t.y * Width
    <3>2. q \in Nat
      BY <3>1
    <3>. HIDE DEF q
    <3>3. ASSUME NEW k PROVE Place(t, k) = q + t.x - k
      BY DEF Place, q
    <3>. QED
      BY <1>1, <3>2, <3>3
  <2>. QED
    BY <2>1, <2>2
<1>3. \A j \in 1..Height : \A i \in 1..Width : f[j][i] = n + 1 - (p - PlaceAt(j, i)) /\ PlaceAt(j, i) \in Nat
  <2>1. \A j \in 1..Height : \A i \in 1..Width : PlaceAt(j, i) \in Nat
    BY PlaceAtFacts, Sizes DEF Places
  <2>. QED
    BY <2>1
<1>4. Len(R) = Height
  BY RowsCount
<1>5. Len(url) = n /\ \A i \in 1..n : url[i] = CellAt(t, Place(t, n + 1 - i)).c
  OBVIOUS
<1>. HIDE DEF f, url, p
<1>6. ASSUME NEW j \in 1..Height, NEW i \in 1..Width, R[j][i].so = o
      PROVE  /\ f[j][i] \in 1..n /\ url[f[j][i]] = R[j][i].c
             /\ \A l \in 1..Height : \A m \in 1..Width :
                  R[l][m].so = o /\ Earlier(j, i, l, m) => f[j][i] < f[l][m]
  <2>1. PICK k \in 1..n : PlaceAt(j, i) = Place(t, k)
    BY <1>6
  <2>2. f[j][i] = n + 1 - k
    BY <1>2, <1>3, <2>1
  <2>3. n + 1 - k \in 1..n /\ n + 1 - (n + 1 - k) = k
    OBVIOUS
  <2>4. url[f[j][i]] = CellAt(t, PlaceAt(j, i)).c
    BY <1>5, <2>1, <2>2, <2>3
  <2>5. CellAt(t, PlaceAt(j, i)).c = R[j][i].c
    <3>1. CellAt(t, PlaceAt(j, i)) = t.rows[j][i]
      BY PlaceAtFacts DEF CellAt
    <3>. QED
      BY <3>1 DEF SameChars
  <2>6. ASSUME NEW l \in 1..Height, NEW m \in 1..Width, Earlier(j, i, l, m) PROVE f[j][i] < f[l][m]
    <3>1. PlaceAt(j, i) < PlaceAt(l, m)
      BY <2>6, PlaceAtFacts
    <3>. QED
      BY <1>2, <1>3, <3>1
  <2>. QED
    BY <2>2, <2>3, <2>4, <2>5, <2>6
<1>7. ShowsAs(f, R, o, url)
  BY <1>4, <1>5, <1>6 DEF ShowsAs
<1>. QED
  BY <1>7 DEF url

\* What was matched is what the cells before the cursor spell: an address.
LEMMA MatchedIsUrl ==
  ASSUME NEW t \in Terminals, Matched(t), ~ t.cut, NEW c, NEW n, n = MatchSize(t.matcher, c), n # 0, n <= Place(t, 0)
  PROVE  IsUrl([i \in 1..n |-> CellAt(t, Place(t, n + 1 - i)).c])
<1>. DEFINE url == [i \in 1..n |-> CellAt(t, Place(t, n + 1 - i)).c]
<1>1. t.matcher \in Matchers /\ n = t.matcher.size /\ n \in Nat /\ t.matcher.state \in Valid
  <2>1. t.matcher \in Matchers
    BY DEF Terminals
  <2>2. n = t.matcher.size /\ t.matcher.state \in Valid
    BY DEF MatchSize
  <2>. QED
    BY <2>1, <2>2 DEF Matchers
<1>2. PICK w \in Seq(Characters) : MatchedAs(t, w)
  BY DEF Matched
<1>3. Len(w) = n /\ Spelled(w, t.matcher.state)
      /\ \A k \in 1..n : CellAt(t, Place(t, k)).c = w[n + 1 - k]
  <2>1. Len(w) = n /\ Spelled(w, t.matcher.state)
        /\ \A k \in 1..n : k <= Place(t, 0) => CellAt(t, Place(t, k)).c = w[n + 1 - k]
    BY <1>1, <1>2 DEF MatchedAs, Before
  <2>2. Place(t, 0) \in Nat
    <3>1. t.x \in 0..Width /\ t.y \in 0..(Height - 1)
      BY DEF Terminals
    <3>. QED
      BY <3>1, Places1
  <2>3. \A k \in 1..n : k <= Place(t, 0)
    BY <1>1, <2>2
  <2>. QED
    BY <2>1, <2>3
<1>4. \A i \in 1..n : url[i] = w[i]
  <2>. TAKE i \in 1..n
  <2>1. n + 1 - i \in 1..n /\ n + 1 - (n + 1 - i) = i
    BY <1>1
  <2>. QED
    BY <1>3, <2>1
<1>5. w = url
  <2>1. w = [i \in 1..n |-> w[i]]
    BY <1>3
  <2>2. url = [i \in 1..n |-> url[i]]
    OBVIOUS
  <2>. HIDE DEF url
  <2>. QED
    BY <1>4, <2>1, <2>2
<1>6. IsUrl(w)
  BY <1>1, <1>2, <1>3, SpelledIsUrl
<1>. QED
  BY <1>5, <1>6

\* The text before the cursor of t is the address of an object o that is new in e,
\* unless o is marked there,
AddressFound(t, o, n, e, url) ==
  /\ t \in Terminals /\ o \in Objects /\ n \in Nat /\ n <= Place(t, 0)
  /\ url = [i \in 1..n |-> CellAt(t, Place(t, n + 1 - i)).c] /\ (IsUrl(url) \/ o \in e.mixed) /\ url \in Texts
  /\ e.rows = t.rows
  /\ \A j \in 1..Len(e.history) : \A i \in 1..Width : e.history[j][i].so # o
  /\ \A j \in 1..Height : \A i \in 1..Width : e.backup.rows[j][i].so # o

\* and it gets it.
AddressGiven(d, o, url, v) ==
  /\ v \in Terminals /\ SameElsewhere(d, v) /\ v.rows = d.rows
  /\ KeepsUrls([d.heap EXCEPT ![o].url = url], v.heap)

\* The cells of that link spell it.
LEMMA FoundShown ==
  ASSUME NEW t, NEW o, NEW a, NEW u, NEW n, NEW e, NEW d, NEW url, NEW v,
         AddressFound(t, o, n, e, url), d \in Linking(t, o, a, u, n, e), AddressGiven(d, o, url, v)
  PROVE  LinksShown(v)
<1>0. /\ t \in Terminals /\ o \in Objects /\ n \in Nat /\ n <= Place(t, 0)
      /\ url = [i \in 1..n |-> CellAt(t, Place(t, n + 1 - i)).c] /\ (IsUrl(url) \/ o \in e.mixed) /\ url \in Texts
      /\ e.rows = t.rows
      /\ \A j \in 1..Len(e.history) : \A i \in 1..Width : e.history[j][i].so # o
      /\ \A j \in 1..Height : \A i \in 1..Width : e.backup.rows[j][i].so # o
      /\ v \in Terminals /\ SameElsewhere(d, v) /\ v.rows = d.rows
      /\ KeepsUrls([d.heap EXCEPT ![o].url = url], v.heap)
  BY DEF AddressFound, AddressGiven
<1>. DEFINE k == [d.heap EXCEPT ![o].url = url]
<1>1. /\ d \in Terminals /\ LinksShown(d) /\ SameElsewhere(e, d) /\ SameChars(e.rows, d.rows)
      /\ \A j \in 1..Height : \A i \in 1..Width : d.rows[j][i].so = o =>
           \E m \in 1..n : PlaceAt(j, i) = Place(t, m)
  BY DEF Linking
<1>2. d.heap \in Heaps /\ d.rows \in Screens
  BY <1>1 DEF Terminals
<1>3. k[o].url = url /\ \A x \in Objects : x # o => k[x] = d.heap[x]
  <2>1. d.heap[o] \in [live : BOOLEAN, refs : Int, url : Texts, active : BOOLEAN]
    BY <1>0, <1>2 DEF Heaps
  <2>. QED
    BY <1>0, <1>2, <2>1 DEF Heaps
<1>4. KeepsUrls(k, v.heap)
  BY <1>0
<1>. HIDE DEF k
<1>5. NormalRows(v) = NormalRows(d) /\ OtherRows(v) = OtherRows(d)
  BY <1>0 DEF NormalRows, OtherRows, SameElsewhere
<1>55. v.mixed = d.mixed /\ d.mixed = e.mixed
  BY <1>0, <1>1 DEF SameElsewhere
<1>6. ASSUME NEW x \in Objects, x \notin v.mixed, x # o, FoundLink(v.heap, x)
      PROVE  IsUrl(v.heap[x].url) /\ OnOne(NormalRows(v), OtherRows(v), x, v.heap[x].url)
  <2>1. d.heap[x].live /\ v.heap[x].url = d.heap[x].url
    BY <1>3, <1>4, <1>6 DEF KeepsUrls, FoundLink
  <2>2. FoundLink(d.heap, x)
    BY <1>6, <2>1 DEF FoundLink
  <2>. QED
    BY <1>1, <1>5, <1>55, <1>6, <2>1, <2>2 DEF LinksShown
<1>7. ASSUME o \notin v.mixed, FoundLink(v.heap, o)
      PROVE  IsUrl(v.heap[o].url) /\ OnOne(NormalRows(v), OtherRows(v), o, v.heap[o].url)
  <2>1. v.heap[o].url = url
    BY <1>0, <1>3, <1>4, <1>7 DEF KeepsUrls, FoundLink
  <2>2. PICK f : ShowsAs(f, d.rows, o, url)
    <3>1. SameChars(t.rows, d.rows)
      BY <1>0, <1>1
    <3>. QED
      BY <1>0, <1>1, <1>2, <3>1, LinkSpells
  <2>3. /\ \A j \in 1..Len(v.history) : \A i \in 1..Width : v.history[j][i].so # o
        /\ \A j \in 1..Height : \A i \in 1..Width : v.backup.rows[j][i].so # o
    BY <1>0, <1>1 DEF SameElsewhere
  <2>4. OnOne(NormalRows(v), OtherRows(v), o, url)
    <3>1. ShowsAs(f, v.rows, o, url)
      BY <1>0, <2>2
    <3>. QED
      BY <1>0, <2>3, <3>1, OnScreenOnly
  <2>5. IsUrl(url)
    BY <1>0, <1>55, <1>7
  <2>. QED
    BY <2>1, <2>4, <2>5
<1>. QED
  BY <1>6, <1>7 DEF LinksShown

\* detectHyperlink() leaves the characters; a link that it makes shows its address.
LEMMA DetectShown ==
  ASSUME EnoughObjects, NEW t, NEW a, NEW u, Good(t, NoObject, a, u), LinksShown(t), LinkNamed(t), Matched(t),
         NEW c, NEW half
  PROVE  LET v == DetectHyperlink(t, c, half) IN
         /\ LinksShown(v) /\ LinkNamed(v) /\ SameChars(t.rows, v.rows) /\ v.alternate = t.alternate
         /\ v.matcher = IF t.link # NoObject THEN t.matcher ELSE Transition(t.matcher, c)
         /\ v.cut <=> IF t.link # NoObject THEN t.cut ELSE t.cut /\ Transition(t.matcher, c).size > 0
<1>. DEFINE v == DetectHyperlink(t, c, half)
            size == MatchSize(t.matcher, c)
            still == t.cut /\ Transition(t.matcher, c).size > 0
            next == [t EXCEPT !.matcher = Transition(t.matcher, c), !.cut = still]
            found == Min({size, Place(t, 0)})
            o == NewAddress(t.heap)
            marks == IF t.cut THEN t.mixed \cup {o} ELSE t.mixed \ {o}
            fresh == [next EXCEPT !.heap = New(t.heap, o, None), !.mixed = marks]
            linked == Linked(t, found, fresh, o)
            url == [i \in 1..size |-> CellAt(t, Place(t, size + 1 - i)).c]
            done == IF found < size THEN DetachFromAllCells(linked, o, half)
                    ELSE [linked EXCEPT !.heap[o].url = url]
<1>0. v = IF t.link # NoObject THEN t ELSE IF size = 0 THEN next
          ELSE [done EXCEPT !.heap = Detach(done.heap, o)]
  BY DEF DetectHyperlink, Linked
<1>00. Good(v, NoObject, a, u) /\ v.link = t.link
  BY DetectGood
<1>. HIDE DEF v
<1>1. t \in Terminals /\ t.matcher \in Matchers /\ t.x \in 0..Width /\ t.y \in 0..(Height - 1)
      /\ v \in Terminals /\ t.heap \in Heaps
  BY <1>00 DEF Good, Terminals
<1>2. size \in Nat /\ Transition(t.matcher, c) \in Matchers /\ still \in BOOLEAN /\ t.mixed \in SUBSET Objects
  BY <1>1, MatcherGood DEF Terminals
<1>. HIDE DEF still
<1>3. /\ next \in Terminals /\ next.history = t.history /\ next.rows = t.rows /\ next.backup = t.backup
      /\ next.heap = t.heap /\ next.link = t.link /\ next.x = t.x /\ next.y = t.y
      /\ next.alternate = t.alternate /\ next.mixed = t.mixed /\ next.matcher = Transition(t.matcher, c)
      /\ next.cut = still
  BY <1>1, <1>2 DEF Terminals
<1>. HIDE DEF next, size
<1>4. Good(next, NoObject, a, u) /\ LinksShown(next)
  <2>1. LinksShown(next)
    BY <1>1, <1>3, UrlsSame, HeapShown DEF SameElsewhere
  <2>. QED
    BY <1>3, <2>1, GoodSame
<1>44. next.cut <=> t.cut /\ Transition(t.matcher, c).size > 0
  BY <1>3 DEF still
<1>5. Place(t, 0) \in Nat /\ \A k \in 1..Place(t, 0) : Place(t, k) \in Places
  BY <1>1, Places1
<1>6. found = (IF size <= Place(t, 0) THEN size ELSE Place(t, 0)) /\ found \in Nat
      /\ \A k \in 1..found : Place(t, k) \in Places
  <2>1. found = IF size <= Place(t, 0) THEN size ELSE Place(t, 0)
    BY <1>2, <1>5, TwoNumbers
  <2>. HIDE DEF found
  <2>2. found \in Nat /\ 1..found \subseteq 1..Place(t, 0)
    BY <1>2, <1>5, <2>1
  <2>. QED
    BY <1>5, <2>1, <2>2
<1>. HIDE DEF found
<1>7. o \in Objects /\ ~ next.heap[o].live
  BY <1>3, FreeAddress
<1>. HIDE DEF o
<1>8. /\ Good(fresh, o, a, u) /\ o # a /\ fresh.link = t.link /\ fresh.x = t.x /\ fresh.y = t.y
      /\ fresh.rows = t.rows
  <2>. DEFINE new == [next EXCEPT !.heap = New(next.heap, o, None)]
  <2>1. None \in Texts
    BY DEF Texts
  <2>2. /\ Good(new, o, a, u) /\ o # a /\ new.link = t.link /\ new.x = t.x /\ new.y = t.y
        /\ new.rows = t.rows
    BY <1>3, <1>4, <1>7, <2>1, PointerComes
  <2>3. fresh = [new EXCEPT !.mixed = marks]
    BY <1>3 DEF Terminals
  <2>4. marks \in SUBSET Objects
    BY <1>2, <1>7
  <2>. HIDE DEF fresh, marks, new
  <2>5. new \in Terminals
    BY <2>2 DEF Good
  <2>6. /\ fresh \in Terminals /\ fresh.history = new.history /\ fresh.rows = new.rows
        /\ fresh.backup = new.backup /\ fresh.heap = new.heap /\ fresh.link = new.link
        /\ fresh.x = new.x /\ fresh.y = new.y
    BY <2>3, <2>4, <2>5 DEF Terminals
  <2>. QED
    BY <2>2, <2>6, GoodSame
<1>. HIDE DEF marks
<1>9. /\ fresh.heap = New(t.heap, o, None) /\ fresh.history = t.history /\ fresh.backup = t.backup
      /\ fresh.alternate = t.alternate /\ fresh.mixed = marks /\ fresh.matcher = next.matcher
      /\ fresh.cut = next.cut
  BY <1>3 DEF Terminals
<1>99. t.mixed \subseteq fresh.mixed \cup {o} /\ (t.cut => o \in fresh.mixed)
  BY <1>9 DEF marks
<1>. HIDE DEF fresh
<1>10. fresh \in Terminals /\ fresh.heap[o].url = None
  <2>1. fresh \in Terminals
    BY <1>8 DEF Good
  <2>2. [Free EXCEPT !.live = TRUE, !.refs = 1, !.url = None].url = None
    BY DEF Free
  <2>. QED
    BY <1>1, <1>7, <1>9, <2>1, <2>2 DEF New, Heaps
<1>11. LinksShown(fresh)
  BY <1>1, <1>3, <1>4, <1>7, <1>8, <1>9, <1>99, <1>10, NewShown
<1>12. /\ \A j \in 1..Len(fresh.history) : \A i \in 1..Width : fresh.history[j][i].so # o
       /\ \A j \in 1..Height : \A i \in 1..Width : fresh.rows[j][i].so # o /\ fresh.backup.rows[j][i].so # o
  BY <1>3, <1>4, <1>7, <1>8, <1>9, NotLiveNowhere
<1>13. fresh \in Linking(t, o, a, u, found, fresh)
  BY <1>8, <1>10, <1>11, <1>12, UrlsSame DEF Linking, SameElsewhere, SameChars
<1>14. linked \in Linking(t, o, a, u, found, fresh)
  BY <1>6, <1>7, <1>10, <1>13, AllLinked
<1>. HIDE DEF linked
<1>15. linked \in Terminals /\ linked.heap \in Heaps
  BY <1>14 DEF Linking, Terminals
<1>16. CASE t.link # NoObject
  <2>1. v = t
    BY <1>0, <1>16
  <2>. QED
    BY <1>16, <2>1 DEF v, SameChars
<1>17. CASE t.link = NoObject /\ size = 0
  <2>1. v = next
    BY <1>0, <1>17
  <2>2. LinkNamed(v)
    BY <1>00, <1>17, ObjectsAssumption DEF LinkNamed
  <2>. QED
    BY <1>3, <1>4, <1>44, <1>17, <2>1, <2>2 DEF v, SameChars
<1>18. CASE t.link = NoObject /\ size # 0
  <2>1. v = [done EXCEPT !.heap = Detach(done.heap, o)]
    BY <1>0, <1>18
  <2>2. LinkNamed(v)
    BY <1>00, <1>18, ObjectsAssumption DEF LinkNamed
  <2>3. CASE found < size
    <3>1. done = DetachFromAllCells(linked, o, half)
      BY <2>3
    <3>. HIDE DEF done
    <3>2. done \in Linking(t, o, a, u, found, fresh)
      BY <1>6, <1>7, <1>10, <1>14, <3>1, GivenUp
    <3>3. /\ done \in Terminals /\ LinksShown(done) /\ done.matcher = fresh.matcher /\ done.cut = fresh.cut
          /\ SameChars(fresh.rows, done.rows) /\ done.heap \in Heaps
          /\ done.alternate = fresh.alternate /\ done.mixed = fresh.mixed
      BY <3>2 DEF Linking, Terminals, SameElsewhere
    <3>4. /\ v.heap = Detach(done.heap, o) /\ v.rows = done.rows /\ v.matcher = done.matcher /\ v.cut = done.cut
          /\ SameElsewhere(done, v)
      BY <2>1, <3>3 DEF Terminals, SameElsewhere
    <3>5. KeepsUrls(done.heap, v.heap)
      BY <1>7, <3>3, <3>4, DetachKeeps DEF Pointers
    <3>6. LinksShown(v) /\ v.alternate = t.alternate
      BY <1>1, <1>9, <3>3, <3>4, <3>5, HeapShown DEF SameElsewhere
    <3>. QED
      BY <1>3, <1>44, <1>8, <1>9, <1>18, <2>2, <3>3, <3>4, <3>6 DEF v
  <2>4. CASE ~ (found < size)
    <3>1. found = size /\ size <= Place(t, 0)
      BY <1>2, <1>5, <1>6, <2>4
    <3>2. url \in Texts
      <4>1. \A i \in 1..size : size + 1 - i \in 1..Place(t, 0)
        BY <1>2, <1>5, <3>1
      <4>2. \A i \in 1..size : CellAt(t, Place(t, size + 1 - i)).c \in Characters
        BY <1>1, <1>5, <4>1, CellFacts
      <4>3. url \in Seq(Characters)
        BY <1>2, <4>2
      <4>. HIDE DEF url
      <4>. QED
        BY <4>3 DEF Texts
    <3>3. IsUrl(url) \/ o \in fresh.mixed
      <4>1. size = MatchSize(t.matcher, c)
        BY DEF size
      <4>2. ~ t.cut => IsUrl(url)
        BY <1>1, <1>18, <3>1, <4>1, MatchedIsUrl
      <4>. HIDE DEF url
      <4>. QED
        BY <1>99, <4>2
    <3>. DEFINE k == [linked.heap EXCEPT ![o].url = url]
    <3>4. done = [linked EXCEPT !.heap = k]
      BY <1>15, <2>4 DEF Terminals
    <3>5. k \in Heaps
      <4>. DEFINE r == [linked.heap[o] EXCEPT !.url = url]
      <4>1. linked.heap[o] \in [live : BOOLEAN, refs : Int, url : Texts, active : BOOLEAN]
        BY <1>7, <1>15 DEF Heaps
      <4>. HIDE DEF url
      <4>2. r \in [live : BOOLEAN, refs : Int, url : Texts, active : BOOLEAN]
        BY <3>2, <4>1
      <4>3. k = [linked.heap EXCEPT ![o] = r]
        BY <1>7, <1>15 DEF Heaps
      <4>. HIDE DEF k, r
      <4>. QED
        BY <1>15, <4>2, <4>3 DEF Heaps
    <3>6. url = [i \in 1..found |-> CellAt(t, Place(t, found + 1 - i)).c]
      BY <3>1
    <3>. HIDE DEF url, done
    <3>7. /\ done.heap = k /\ done.rows = linked.rows /\ done.matcher = linked.matcher
          /\ done.cut = linked.cut /\ SameElsewhere(linked, done)
          /\ done \in Terminals
      BY <1>15, <3>4, <3>5 DEF Terminals, SameElsewhere
    <3>. HIDE DEF k
    <3>8. /\ v.heap = Detach(k, o) /\ v.rows = linked.rows /\ v.matcher = linked.matcher /\ v.cut = linked.cut
          /\ SameElsewhere(linked, v)
      BY <2>1, <3>7 DEF Terminals, SameElsewhere
    <3>9. KeepsUrls(k, v.heap)
      BY <1>7, <3>5, <3>8, DetachKeeps DEF Pointers
    <3>10. found \in Nat /\ found <= Place(t, 0)
      BY <1>6, <3>1
    <3>11. LinksShown(v)
      <4>1. AddressFound(t, o, found, fresh, url)
        BY <1>1, <1>7, <1>8, <1>12, <3>2, <3>3, <3>6, <3>10 DEF AddressFound
      <4>2. AddressGiven(linked, o, url, v)
        BY <1>1, <3>8, <3>9 DEF AddressGiven, k
      <4>. QED
        BY ONLY <1>14, <4>1, <4>2, FoundShown
    <3>12. linked.matcher = fresh.matcher /\ linked.cut = fresh.cut /\ SameChars(fresh.rows, linked.rows)
      BY <1>14 DEF Linking
    <3>13. v.alternate = t.alternate
      BY <1>9, <1>14, <3>8 DEF Linking, SameElsewhere
    <3>. QED
      BY <1>3, <1>44, <1>8, <1>9, <1>18, <2>2, <3>8, <3>11, <3>12, <3>13 DEF v
  <2>. QED
    BY <2>3, <2>4
<1>. QED
  BY <1>16, <1>17, <1>18

\* Places count back from the cursor.
LEMMA PlaceIs ==
  ASSUME NEW t, t.x \in 0..Width, t.y \in 0..(Height - 1)
  PROVE  /\ Place(t, 0) \in Nat /\ Place(t, 0) = t.y * Width + t.x /\ t.y * Width \in Nat
         /\ \A k \in Int : Place(t, k) = Place(t, 0) - k
<1>. DEFINE q == t.y * Width
<1>1. q \in Nat
  BY Sizes
<1>. HIDE DEF q
<1>2. \A k : Place(t, k) = q + t.x - k
  BY DEF Place, q
<1>3. Place(t, 0) = q + t.x /\ Place(t, 0) \in Nat /\ \A k \in Int : Place(t, k) = Place(t, 0) - k
  BY <1>1, <1>2, Sizes
<1>. QED
  BY <1>1, <1>3 DEF q

\* Where the characters and the cursor are the same, so is what is before it.
LEMMA BeforeSame ==
  ASSUME NEW t, NEW v, NEW w, Before(t, w), v.x = t.x, v.y = t.y, SameChars(t.rows, v.rows),
         t.x \in 0..Width, t.y \in 0..(Height - 1), Len(w) \in Nat
  PROVE  Before(v, w)
<1>1. Place(t, 0) \in Nat /\ \A k \in 1..Place(t, 0) : Place(t, k) \in Places
  BY Places1
<1>2. \A k : Place(v, k) = Place(t, k)
  BY DEF Place
<1>3. ASSUME NEW k \in 1..Len(w), k <= Place(v, 0) PROVE CellAt(v, Place(v, k)).c = w[Len(w) + 1 - k]
  <2>1. k \in 1..Place(t, 0)
    BY <1>1, <1>2, <1>3
  <2>2. CellAt(t, Place(t, k)).c = w[Len(w) + 1 - k]
    BY <1>2, <1>3 DEF Before
  <2>3. RowOf(Place(t, k)) \in 1..Height /\ ColumnOf(Place(t, k)) \in 1..Width
    BY <1>1, <2>1, PlaceFacts
  <2>. QED
    BY <1>2, <2>2, <2>3 DEF CellAt, SameChars
<1>. QED
  BY <1>3 DEF Before

\* A line further down there is the place one width on.
LEMMA NextLine ==
  ASSUME NEW p \in Nat
  PROVE  RowOf(p + Width) = RowOf(p) + 1 /\ ColumnOf(p + Width) = ColumnOf(p)
<1>. DEFINE q == p \div Width
            r == p % Width
<1>1. q \in Nat /\ r \in 0..(Width - 1) /\ p = Width * q + r
  BY Sizes
<1>. HIDE DEF q, r
<1>2. p + Width = Width * (q + 1) + r /\ q + 1 \in Nat /\ p + Width \in Nat
  <2>1. Width * (q + 1) = Width * q + Width /\ Width * q \in Nat
    BY <1>1, Sizes
  <2>. QED
    BY <1>1, <2>1, Sizes
<1>3. (p + Width) \div Width = q + 1 /\ (p + Width) % Width = r
  BY <1>1, <1>2, DivisionIs
<1>. QED
  BY <1>3 DEF RowOf, ColumnOf, q, r

\* updateCursorPosition() moves what is before the cursor with it.
LEMMA BeforeMoves ==
  ASSUME NEW t \in Terminals, NEW v \in Terminals, NEW w, Before(t, w), Len(w) \in Nat,
         t.x = Width, v.x = 0,
         \/ v.y = t.y + 1 /\ v.rows = t.rows
         \/ t.y = Height - 1 /\ v.y = t.y /\ v.rows = Append(Tail(t.rows), BlankRow)
  PROVE  Before(v, w)
<1>1. /\ t.x \in 0..Width /\ t.y \in 0..(Height - 1) /\ v.x \in 0..Width /\ v.y \in 0..(Height - 1)
      /\ t.rows \in Screens
  BY DEF Terminals
<1>2. /\ Place(t, 0) \in Nat /\ Place(v, 0) \in Nat
      /\ Place(t, 0) = t.y * Width + Width /\ Place(v, 0) = v.y * Width
      /\ \A k \in Int : Place(t, k) = Place(t, 0) - k /\ Place(v, k) = Place(v, 0) - k
  <2>. DEFINE b == v.y * Width
  <2>1. Place(v, 0) = b + v.x /\ b \in Nat
    BY <1>1, PlaceIs
  <2>2. Place(t, 0) \in Nat /\ Place(t, 0) = t.y * Width + t.x
    BY <1>1, PlaceIs
  <2>3. \A k \in Int : Place(t, k) = Place(t, 0) - k /\ Place(v, k) = Place(v, 0) - k
    BY <1>1, PlaceIs
  <2>. HIDE DEF b
  <2>4. Place(v, 0) = b
    BY <2>1
  <2>. QED
    BY <2>1, <2>2, <2>3, <2>4 DEF b
<1>3. CASE v.y = t.y + 1 /\ v.rows = t.rows
  <2>1. v.y * Width = t.y * Width + Width
    BY <1>1, <1>3, Sizes
  <2>2. Place(v, 0) = Place(t, 0) /\ \A k \in Int : Place(v, k) = Place(t, k)
    BY <1>2, <2>1
  <2>. QED
    BY <1>3, <2>2 DEF Before, CellAt
<1>4. CASE t.y = Height - 1 /\ v.y = t.y /\ v.rows = Append(Tail(t.rows), BlankRow)
  <2>1. Place(t, 0) = Place(v, 0) + Width
    BY <1>2, <1>4
  <2>2. ASSUME NEW k \in 1..Len(w), k <= Place(v, 0) PROVE CellAt(v, Place(v, k)).c = w[Len(w) + 1 - k]
    <3>. DEFINE p == Place(v, k)
    <3>1. k \in 1..Place(t, 0) /\ k <= Place(t, 0) /\ p \in Nat /\ Place(t, k) = p + Width /\ Place(t, k) \in Places
      <4>1. k \in 1..Place(t, 0) /\ k <= Place(t, 0) /\ p \in Nat /\ Place(t, k) = p + Width
        <5>. DEFINE P == Place(t, 0)
                    Q == Place(v, 0)
        <5>1. k \in Int /\ k >= 1 /\ k <= Q /\ Q \in Nat /\ P = Q + Width
          BY <1>2, <2>1, <2>2
        <5>2. p = Q - k /\ Place(t, k) = P - k
          BY <1>2, <5>1
        <5>. HIDE DEF P, Q, p
        <5>3. k \in 1..P /\ k <= P /\ p \in Nat /\ P - k = p + Width
          BY <5>1, <5>2, Sizes
        <5>. QED
          BY <5>2, <5>3 DEF P
      <4>. HIDE DEF p
      <4>. QED
        BY <1>1, <4>1, Places1
    <3>. HIDE DEF p
    <3>2. CellAt(t, p + Width).c = w[Len(w) + 1 - k]
      BY <3>1 DEF Before
    <3>3. RowOf(p) + 1 \in 1..Height /\ ColumnOf(p) \in 1..Width
      <4>1. RowOf(p + Width) \in 1..Height /\ ColumnOf(p + Width) \in 1..Width
        BY <3>1, PlaceFacts
      <4>. QED
        BY <3>1, <4>1, NextLine
    <3>4. RowOf(p) \in 1..Height /\ RowOf(p) < Height
      <4>1. RowOf(p) \in Nat /\ RowOf(p) >= 1
        <5>1. p \div Width \in Nat
          BY <3>1, Sizes
        <5>. QED
          BY <5>1 DEF RowOf
      <4>. QED
        BY <3>3, <4>1, Sizes
    <3>5. v.rows[RowOf(p)] = t.rows[RowOf(p) + 1]
      BY <1>1, <1>4, <3>4, ScrolledRows
    <3>6. CellAt(v, p) = CellAt(t, p + Width)
      BY <3>1, <3>5, NextLine DEF CellAt
    <3>. QED
      BY <3>2, <3>6 DEF p
  <2>. QED
    BY <2>2 DEF Before
<1>. QED
  BY <1>3, <1>4

\* A character at the cursor comes behind what was before it.
LEMMA BeforeGrows ==
  ASSUME NEW t, NEW v, NEW w \in Seq(Characters), NEW c \in Characters, Before(t, w),
         t.x \in 0..Width, t.x < Width, t.y \in 0..(Height - 1), v.x = t.x + 1, v.y = t.y,
         \A j \in 1..Height : \A i \in 1..Width :
           v.rows[j][i].c = IF j = RowOf(Place(t, 0)) /\ i = ColumnOf(Place(t, 0)) THEN c ELSE t.rows[j][i].c
  PROVE  Before(v, Append(w, c))
<1>. DEFINE n == Len(w)
            s == Append(w, c)
<1>1. n \in Nat /\ Len(s) = n + 1 /\ s[n + 1] = c /\ \A i \in 1..n : s[i] = w[i]
  OBVIOUS
<1>. HIDE DEF n, s
<1>2. /\ Place(t, 0) \in Nat /\ Place(t, 0) = t.y * Width + t.x /\ t.y * Width \in Nat
      /\ \A k \in Int : Place(t, k) = Place(t, 0) - k
  BY PlaceIs
<1>3. Place(t, 0) \in Places /\ \A k \in 1..Place(t, 0) : Place(t, k) \in Places
  BY Places1
<1>4. Place(v, 0) = Place(t, 0) + 1 /\ \A k \in Int : Place(v, k) = Place(t, 0) + 1 - k
  <2>1. v.x \in 0..Width /\ v.y \in 0..(Height - 1)
    BY Sizes
  <2>. DEFINE b == t.y * Width
  <2>2. Place(v, 0) = b + (t.x + 1) /\ \A k \in Int : Place(v, k) = Place(v, 0) - k
    BY <2>1, PlaceIs
  <2>3. b \in Nat /\ Place(t, 0) = b + t.x
    BY <1>2
  <2>. HIDE DEF b
  <2>4. Place(v, 0) = Place(t, 0) + 1
    BY <2>2, <2>3
  <2>5. \A k \in Int : Place(v, k) = Place(t, 0) + 1 - k
    <3>1. Place(t, 0) \in Nat /\ \A k \in Int : Place(v, k) = (Place(t, 0) + 1) - k
      BY <1>2, <2>2, <2>4
    <3>. QED
      BY <3>1
  <2>. QED
    BY <2>4, <2>5
<1>5. ASSUME NEW k \in 1..(n + 1), k <= Place(v, 0) PROVE CellAt(v, Place(v, k)).c = s[n + 1 + 1 - k]
  <2>1. CASE k = 1
    <3>1. Place(v, k) = Place(t, 0) /\ n + 1 + 1 - k = n + 1
      BY <1>1, <1>2, <1>4, <2>1
    <3>2. RowOf(Place(t, 0)) \in 1..Height /\ ColumnOf(Place(t, 0)) \in 1..Width
      BY <1>3, PlaceFacts
    <3>. QED
      BY <1>1, <3>1, <3>2 DEF CellAt
  <2>2. CASE k # 1
    <3>. DEFINE l == k - 1
    <3>1. l \in 1..n /\ l <= Place(t, 0) /\ Place(v, k) = Place(t, l) /\ l \in 1..Place(t, 0)
          /\ n + 1 + 1 - k = n + 1 - l /\ n + 1 - l \in 1..n /\ Place(t, l) # Place(t, 0)
      <4>. DEFINE q == Place(t, 0)
      <4>1. q \in Nat /\ k \in Int /\ k > 1 /\ k <= n + 1 /\ k <= q + 1
        BY <1>1, <1>2, <1>4, <1>5, <2>2
      <4>2. l \in Int /\ Place(v, k) = q + 1 - k /\ Place(t, l) = q - l
        BY <1>2, <1>4, <4>1
      <4>. HIDE DEF q
      <4>. QED
        BY <1>1, <4>1, <4>2 DEF q
    <3>. HIDE DEF l
    <3>2. CellAt(t, Place(t, l)).c = w[n + 1 - l]
      BY <3>1 DEF Before, n
    <3>. DEFINE p == Place(t, l)
                q == Place(t, 0)
    <3>3. p \in Places /\ q \in Places /\ p # q
      BY <1>3, <3>1
    <3>. HIDE DEF p, q
    <3>4. ~ (RowOf(p) = RowOf(q) /\ ColumnOf(p) = ColumnOf(q))
      BY <3>3, PlaceAtFacts
    <3>5. RowOf(p) \in 1..Height /\ ColumnOf(p) \in 1..Width
      BY <3>3, PlaceFacts
    <3>6. CellAt(v, p).c = CellAt(t, p).c
      BY <3>4, <3>5 DEF CellAt, q
    <3>. QED
      BY <1>1, <3>1, <3>2, <3>6 DEF p
  <2>. QED
    BY <2>1, <2>2
<1>6. Before(v, s)
  BY <1>1, <1>5 DEF Before
<1>. QED
  BY <1>6 DEF s

\* A reference that comes or goes leaves the link that OSC 8 named.
LEMMA NamedKept ==
  ASSUME NEW t, NEW v, NEW p, NEW a, NEW u, Good(v, p, a, u), LinkNamed(t), v.link = t.link,
         KeepsUrls(t.heap, v.heap)
  PROVE  LinkNamed(v)
<1>. SUFFICES ASSUME v.link \in Objects PROVE v.heap[v.link].url \in Urls
  BY DEF LinkNamed
<1>1. v.heap[v.link].live
  <2>. DEFINE f == Refs(v, p, a)
  <2>1. v \in Terminals /\ v.heap[v.link].live = (f[v.link] > 0)
    BY DEF Good, Sound
  <2>2. f[v.link] > 0
    BY <2>1, RefsNat
  <2>3. (f[v.link] > 0) = TRUE
    BY <2>2
  <2>. HIDE DEF f
  <2>. QED
    BY <2>1, <2>3
<1>2. t.heap[t.link].url \in Urls
  BY DEF LinkNamed
<1>. QED
  BY <1>1, <1>2 DEF KeepsUrls

\* What parseCodepoint() does once there is place: the cell at the cursor is written.
Written(w, c) ==
  LET place == Place(w, 0)
      blank == SetObject(w, place, NoObject)
      cell == IF w.link = NoObject THEN blank ELSE SetObject(blank, place, w.link)
  IN [cell EXCEPT !.rows[RowOf(place)][ColumnOf(place)].c = c, !.x = @ + 1]

\* The character of the cell at the cursor changes, and of no other cell. A link
\* it had is taken from it.
LEMMA WrittenFacts ==
  ASSUME NEW w, NEW a, NEW u, Good(w, NoObject, a, u), w.x < Width, LinksShown(w), LinkNamed(w),
         NEW c \in Characters, Written(w, c) \in Terminals
  PROVE  LET v == Written(w, c)
             q == Place(w, 0)
         IN /\ LinksShown(v) /\ v.matcher = w.matcher /\ v.cut = w.cut
            /\ v.link = w.link /\ v.x = w.x + 1 /\ v.y = w.y
            /\ KeepsUrls(w.heap, v.heap)
            /\ \A j \in 1..Height : \A i \in 1..Width :
                 v.rows[j][i].c = IF j = RowOf(q) /\ i = ColumnOf(q) THEN c ELSE w.rows[j][i].c
<1>. DEFINE place == Place(w, 0)
            j == RowOf(place)
            i == ColumnOf(place)
            blank == SetObject(w, place, NoObject)
            cell == IF w.link = NoObject THEN blank ELSE SetObject(blank, place, w.link)
            v == Written(w, c)
<1>1. w \in Terminals /\ w.x \in 0..Width /\ w.y \in 0..(Height - 1) /\ w.link \in Pointers
      /\ NoObject \in Pointers /\ NoObject \notin Objects /\ v \in Terminals
  BY ObjectsAssumption DEF Good, Terminals, Pointers
<1>2. place \in Places
  BY <1>1, Places1
<1>3. j \in 1..Height /\ i \in 1..Width
  BY <1>2, PlaceFacts
<1>4. v = [cell EXCEPT !.rows[j][i].c = c, !.x = @ + 1]
  BY DEF Written
<1>. HIDE DEF place, v
<1>5. Good(blank, NoObject, a, u) /\ blank.link = w.link /\ blank.x = w.x /\ blank.y = w.y
  BY <1>1, <1>2, SetObjectGood
<1>6. blank \in Terminals
  BY <1>5 DEF Good
<1>7. /\ blank.rows \in Screens /\ SameChars(w.rows, blank.rows) /\ blank.rows[j][i].so = NoObject
      /\ blank.matcher = w.matcher /\ blank.cut = w.cut /\ KeepsUrls(w.heap, blank.heap)
      /\ SameElsewhere(w, blank)
  BY <1>1, <1>2, SetObjectFacts DEF SameElsewhere
<1>8. LinksShown(blank)
  BY <1>1, <1>2, <1>6, SetObjectShown
<1>9. LinkNamed(blank)
  BY <1>5, <1>7, NamedKept
<1>. HIDE DEF blank
<1>10. /\ Good(cell, NoObject, a, u) /\ cell.link = w.link /\ cell.x = w.x /\ cell.y = w.y
       /\ cell \in Terminals /\ cell.rows \in Screens /\ SameChars(w.rows, cell.rows)
       /\ cell.rows[j][i].so = w.link /\ cell.matcher = w.matcher /\ cell.cut = w.cut
       /\ KeepsUrls(w.heap, cell.heap)
       /\ LinksShown(cell) /\ LinkNamed(cell)
  <2>1. CASE w.link = NoObject
    <3>1. cell = blank
      BY <2>1
    <3>. HIDE DEF cell
    <3>. QED
      BY <1>5, <1>6, <1>7, <1>8, <1>9, <2>1, <3>1
  <2>2. CASE w.link # NoObject
    <3>1. cell = SetObject(blank, place, w.link) /\ w.link \in Objects
      BY <1>1, <2>2 DEF Pointers
    <3>. HIDE DEF cell
    <3>2. Refs(blank, NoObject, a)[w.link] > 0
      BY <1>5, <1>6, <3>1, RefsNat
    <3>3. Good(cell, NoObject, a, u) /\ cell.link = w.link /\ cell.x = w.x /\ cell.y = w.y
      BY <1>1, <1>2, <1>5, <3>1, <3>2, SetObjectGood
    <3>4. cell \in Terminals
      BY <3>3 DEF Good
    <3>5. /\ cell.rows \in Screens /\ SameChars(blank.rows, cell.rows) /\ cell.rows[j][i].so = w.link
          /\ cell.matcher = blank.matcher /\ cell.cut = blank.cut /\ KeepsUrls(blank.heap, cell.heap)
      BY <1>1, <1>2, <1>6, <3>1, SetObjectFacts
    <3>6. LinkNamed(cell)
      BY <1>5, <1>9, <3>3, <3>5, NamedKept
    <3>7. ~ FoundLink(cell.heap, w.link)
      BY <3>1, <3>3, <3>6 DEF LinkNamed, FoundLink
    <3>8. LinksShown(cell)
      BY <1>1, <1>2, <1>6, <1>8, <3>1, <3>4, <3>7, SetObjectShown
    <3>9. KeepsUrls(w.heap, cell.heap)
      BY <1>7, <3>5, UrlsKept
    <3>10. SameChars(w.rows, cell.rows)
      BY <1>7, <3>5 DEF SameChars
    <3>. QED
      BY <1>7, <3>3, <3>4, <3>5, <3>6, <3>8, <3>9, <3>10
  <2>. QED
    BY <2>1, <2>2
<1>. HIDE DEF cell, j, i
<1>. DEFINE R == cell.rows
            new == [R[j][i] EXCEPT !.c = c]
            row == [R[j] EXCEPT ![i] = new]
            Q == [R EXCEPT ![j] = row]
<1>11. R \in [1..Height -> [1..Width -> Cells]] /\ R[j] \in [1..Width -> Cells] /\ R[j][i] \in Cells
  BY <1>3, <1>10 DEF Screens, Rows
<1>12. v = [cell EXCEPT !.rows = Q, !.x = cell.x + 1]
  BY <1>3, <1>4, <1>10, <1>11 DEF Terminals
<1>13. new.c = c /\ new.so = w.link
  BY <1>10, <1>11 DEF Cells
<1>. HIDE DEF R, new
<1>14. row[i] = new /\ \A m \in 1..Width : m # i => row[m] = R[j][m]
  BY <1>3, <1>11
<1>. HIDE DEF row
<1>15. Q[j] = row /\ \A l \in 1..Height : l # j => Q[l] = R[l]
  BY <1>3, <1>11
<1>. HIDE DEF Q
<1>16. /\ v.rows = Q /\ v.x = w.x + 1 /\ v.y = w.y /\ v.link = w.link /\ v.matcher = w.matcher /\ v.cut = w.cut
       /\ v.heap = cell.heap /\ SameElsewhere(cell, v)
  BY <1>10, <1>12 DEF Terminals, SameElsewhere
<1>17. \A l \in 1..Height : \A m \in 1..Width :
         Q[l][m].c = IF l = j /\ m = i THEN c ELSE w.rows[l][m].c
  <2>1. \A l \in 1..Height : \A m \in 1..Width : R[l][m].c = w.rows[l][m].c
    BY <1>10 DEF SameChars, R
  <2>. QED
    BY <1>13, <1>14, <1>15, <2>1
<1>18. ASSUME NEW o \in Objects, FoundLink(v.heap, o) PROVE FewerCells(R, Q, o)
  <2>1. o # w.link
    <3>1. v.heap = cell.heap /\ cell.link = w.link /\ LinkNamed(cell)
      BY <1>10, <1>16
    <3>. QED
      BY <1>18, <3>1 DEF FoundLink, LinkNamed
  <2>. QED
    BY <1>13, <1>14, <1>15, <2>1 DEF FewerCells
<1>19. LinksShown(v)
  <2>1. KeepsUrls(cell.heap, v.heap)
    BY <1>16, UrlsSame
  <2>2. \A o \in Objects : FoundLink(v.heap, o) => FewerCells(cell.rows, v.rows, o)
    BY <1>16, <1>18 DEF R
  <2>. QED
    BY <1>1, <1>10, <1>16, <2>1, <2>2, ScreenShown
<1>20. KeepsUrls(w.heap, v.heap)
  BY <1>10, <1>16
<1>. QED
  BY <1>16, <1>17, <1>19, <1>20 DEF v, place, j, i

\* The matcher has read nothing, or OSC 8 came while it read: the text before the
\* cursor does not matter.
Unmatched(t) ==
  IF t.cut THEN t.matcher.size > 0 ELSE t.matcher.size = 0 /\ Spelled(<< >>, t.matcher.state)

\* In the former case it spells the empty text.
LEMMA UnmatchedIs ==
  ASSUME NEW t, Unmatched(t)
  PROVE  Matched(t)
<1>. SUFFICES ASSUME ~ t.cut PROVE Matched(t)
  BY DEF Unmatched, Matched
<1>. DEFINE w == << >>
<1>1. w \in Seq(Characters) /\ Len(w) = 0
  OBVIOUS
<1>2. Spelled(w, t.matcher.state) /\ t.matcher.size = 0
  BY DEF Unmatched
<1>. HIDE DEF w
<1>3. MatchedAs(t, w)
  BY <1>1, <1>2 DEF MatchedAs, Before
<1>4. \E x \in Seq(Characters) : MatchedAs(t, x)
  BY <1>1, <1>3
<1>5. ~ (t.matcher.size > 0)
  BY <1>2
<1>. QED
  BY <1>4, <1>5 DEF Matched

\* The empty text is spelled by a matcher that is ready or has failed.
LEMMA EmptySpelled ==
  ASSUME NEW s \in {"ready", "invalid"}
  PROVE  Spelled(<< >>, s)
BY DEF Spelled, Begun, HostStates, PartStates

\* A matcher that has read nothing of the text spells nothing.
LEMMA NothingRead ==
  ASSUME NEW t, Matched(t), t.matcher.size = 0
  PROVE  Unmatched(t)
<1>0. ~ t.cut
  BY DEF Matched
<1>1. PICK w \in Seq(Characters) : MatchedAs(t, w)
  BY <1>0 DEF Matched
<1>2. w = << >>
  BY <1>1 DEF MatchedAs
<1>. QED
  BY <1>0, <1>1, <1>2 DEF MatchedAs, Unmatched

\* Links show their addresses, and the text before the cursor is what was matched.
Shown(t) == LinksShown(t) /\ LinkNamed(t) /\ Matched(t)

\* parseCodepoint() gives the matcher the character that it writes.
LEMMA CodepointShown ==
  ASSUME EnoughObjects, NEW t, NEW a, NEW u, Good(t, NoObject, a, u), Shown(t),
         NEW c \in Characters, NEW half
  PROVE  Shown(ParseCodepoint(t, c, half))
<1>. DEFINE d == DetectHyperlink(t, c, half)
            x == UpdateCursorPosition(d)
            v == ParseCodepoint(t, c, half)
            q == Place(x, 0)
<1>1. Good(d, NoObject, a, u) /\ d.link = t.link /\ d.x = t.x /\ d.y = t.y
  BY DetectGood
<1>2. /\ LinksShown(d) /\ LinkNamed(d) /\ SameChars(t.rows, d.rows)
      /\ d.matcher = IF t.link # NoObject THEN t.matcher ELSE Transition(t.matcher, c)
      /\ d.cut <=> IF t.link # NoObject THEN t.cut ELSE t.cut /\ Transition(t.matcher, c).size > 0
  BY DetectShown DEF Shown
<1>. HIDE DEF d
<1>3. Good(x, NoObject, a, u) /\ x.x < Width /\ x.link = d.link
  BY <1>1, UpdateCursorGood
<1>4. /\ LinksShown(x) /\ KeepsUrls(d.heap, x.heap) /\ x.matcher = d.matcher /\ x.cut = d.cut
      /\ \/ x = d
         \/ /\ d.x = Width /\ x.x = 0 /\ x.y = d.y + 1 /\ x.rows = d.rows
         \/ /\ d.x = Width /\ x.x = 0 /\ d.y = Height - 1 /\ x.y = d.y
            /\ x.rows = Append(Tail(d.rows), BlankRow)
  BY <1>1, <1>2, UpdateCursorFacts
<1>5. v = Written(x, c)
  BY DEF ParseCodepoint, Written, d
<1>6. Good(v, NoObject, a, u)
  BY ParseCodepointGood
<1>. HIDE DEF x, v
<1>7. LinkNamed(x)
  BY <1>2, <1>3, <1>4, NamedKept
<1>8. /\ LinksShown(v) /\ v.matcher = x.matcher /\ v.cut = x.cut /\ v.link = x.link /\ v.x = x.x + 1
      /\ v.y = x.y
      /\ KeepsUrls(x.heap, v.heap)
      /\ \A j \in 1..Height : \A i \in 1..Width :
           v.rows[j][i].c = IF j = RowOf(q) /\ i = ColumnOf(q) THEN c ELSE x.rows[j][i].c
  <2>1. v \in Terminals
    BY <1>6 DEF Good
  <2>. QED
    BY <1>3, <1>4, <1>5, <1>7, <2>1, WrittenFacts
<1>9. LinkNamed(v)
  BY <1>6, <1>7, <1>8, NamedKept
<1>01. CASE t.cut
  <2>1. Matched(t) /\ t.matcher \in Matchers
    BY DEF Shown, Good, Terminals
  <2>2. CASE t.link # NoObject
    <3>1. Matched(v)
      BY <1>2, <1>4, <1>8, <1>01, <2>1, <2>2 DEF Matched
    <3>. QED
      BY <1>8, <1>9, <3>1 DEF Shown, v
  <2>3. CASE t.link = NoObject
    <3>1. v.matcher = Transition(t.matcher, c) /\ (v.cut <=> v.matcher.size > 0) /\ v.matcher.size \in Nat
      <4>1. Transition(t.matcher, c).size \in Nat
        BY <2>1, MatcherGood DEF Matchers
      <4>. QED
        BY <1>2, <1>4, <1>8, <1>01, <2>3, <4>1
    <3>2. v.matcher.size = 0 => v.matcher.state \in {"ready", "invalid"}
      BY <2>1, <3>1, MatcherGood
    <3>3. Unmatched(v)
      BY <3>1, <3>2, EmptySpelled DEF Unmatched
    <3>4. Matched(v)
      BY <3>3, UnmatchedIs
    <3>. QED
      BY <1>8, <1>9, <3>4 DEF Shown, v
  <2>. QED
    BY <2>2, <2>3
<1>02. SUFFICES ASSUME ~ t.cut PROVE Shown(v)
  BY <1>01 DEF v
<1>03. ~ v.cut
  BY <1>2, <1>4, <1>8, <1>02
<1>10. PICK w \in Seq(Characters) : MatchedAs(t, w)
  BY <1>02 DEF Shown, Matched
<1>11. Len(w) = t.matcher.size /\ Spelled(w, t.matcher.state) /\ Before(t, w) /\ Len(w) \in Nat
       /\ t.matcher \in Matchers /\ t.x \in 0..Width /\ t.y \in 0..(Height - 1)
  BY <1>10 DEF MatchedAs, Good, Terminals
<1>12. Matched(v)
  <2>1. CASE t.link # NoObject
    <3>1. t.matcher.size = 0
      <4>1. t.matcher.size > 0 => t.link = NoObject
        BY <1>02 DEF Shown, Matched
      <4>2. t.matcher.size \in Nat
        BY <1>11
      <4>. QED
        BY <2>1, <4>1, <4>2
    <3>2. Unmatched(t)
      BY <3>1, NothingRead DEF Shown
    <3>3. v.matcher = t.matcher
      BY <1>2, <1>4, <1>8, <2>1
    <3>. QED
      BY <1>02, <1>03, <3>2, <3>3, UnmatchedIs DEF Unmatched
  <2>2. CASE t.link = NoObject
    <3>1. v.matcher = Transition(t.matcher, c) /\ v.link = NoObject
      BY <1>1, <1>2, <1>3, <1>4, <1>8, <2>2
    <3>2. CASE v.matcher.size = 0 /\ v.matcher.state \in {"ready", "invalid"}
      BY <1>03, <3>2, EmptySpelled, UnmatchedIs DEF Unmatched
    <3>3. CASE v.matcher.size = t.matcher.size + 1 /\ Spelled(Append(w, c), v.matcher.state)
      <4>1. Before(d, w)
        BY <1>1, <1>2, <1>11, BeforeSame
      <4>2. Before(x, w)
        <5>1. d \in Terminals /\ x \in Terminals
          BY <1>1, <1>3 DEF Good
        <5>. QED
          BY <1>4, <1>11, <4>1, <5>1, BeforeMoves
      <4>3. Before(v, Append(w, c))
        <5>1. x.x \in 0..Width /\ x.y \in 0..(Height - 1)
          BY <1>3 DEF Good, Terminals
        <5>. QED
          BY <1>3, <1>8, <4>2, <5>1, BeforeGrows
      <4>4. Append(w, c) \in Seq(Characters) /\ Len(Append(w, c)) = v.matcher.size
        BY <1>11, <3>3
      <4>5. MatchedAs(v, Append(w, c))
        BY <3>3, <4>3, <4>4 DEF MatchedAs
      <4>. QED
        BY <1>03, <3>1, <4>4, <4>5 DEF Matched
    <3>4. \/ v.matcher.size = 0 /\ v.matcher.state \in {"ready", "invalid"}
          \/ v.matcher.size = t.matcher.size + 1 /\ Spelled(Append(w, c), v.matcher.state)
      BY <1>11, <3>1, TransitionSpelled
    <3>. QED
      BY <3>2, <3>3, <3>4
  <2>. QED
    BY <2>1, <2>2
<1>. QED
  BY <1>8, <1>9, <1>12 DEF Shown

\* received() takes a piece of text character by character.
LEMMA ReceivedShown ==
  ASSUME EnoughObjects, NEW t, NEW a, NEW u, Good(t, NoObject, a, u), Shown(t), NEW word \in Words, NEW half
  PROVE  Shown(Received(t, word, half))
<1>. DEFINE X == {e \in Terminals : Good(e, NoObject, a, u) /\ Shown(e)}
            n == Len(word)
<1>1. n \in Nat /\ DOMAIN word = 1..n /\ \A k \in 1..n : word[k] \in Characters
  <2>1. word \in Seq(Range(word))
    BY ScreenAssumption
  <2>2. n \in Nat /\ DOMAIN word = 1..n /\ \A k \in 1..n : word[k] \in Range(word)
    BY <2>1
  <2>3. Range(word) \subseteq Characters
    BY DEF Characters
  <2>. QED
    BY <2>2, <2>3
<1>. HIDE DEF n
<1>2. \A e \in X : \A k \in 1..n : ParseCodepoint(e, word[k], half) \in X
  <2>. SUFFICES ASSUME NEW e \in X, NEW k \in 1..n PROVE ParseCodepoint(e, word[k], half) \in X
    OBVIOUS
  <2>1. Good(ParseCodepoint(e, word[k], half), NoObject, a, u)
    BY <1>1, ParseCodepointGood
  <2>2. Shown(ParseCodepoint(e, word[k], half))
    BY <1>1, CodepointShown
  <2>. QED
    BY <2>1, <2>2 DEF Good
<1>3. t \in X
  BY DEF Good
<1>. HIDE DEF X
<1>4. TextIn(X, word, n, half)
  BY <1>2 DEF TextIn
<1>5. Received(t, word, half) \in X
  BY <1>1, <1>3, <1>4, TextSteps
<1>. QED
  BY <1>5 DEF X

\* No address goes on behind a space.
LEMMA SpaceEnds ==
  ASSUME NEW m
  PROVE  Transition(m, " ").size = 0 /\ Transition(m, " ").state \in {"ready", "invalid"}
<1>. DEFINE to == {t[3] : t \in {q \in Transitions : q[1] = m.state /\ " " \in q[2]}}
<1>. DEFINE st == IF " " \in Separators THEN "ready" ELSE "invalid"
            on == [state |-> CHOOSE state \in to : TRUE, size |-> m.size + 1]
            over == [state |-> st, size |-> 0]
<1>1. Transition(m, " ") = IF to # {} THEN on ELSE over
  BY DEF Transition
<1>. HIDE DEF on
<1>2. \A s : ~ EarlySteps(m.state, " ", s) /\ ~ LateSteps(m.state, " ", s)
  BY DEF EarlySteps, LateSteps, DomainLetters, ArgsLetters, AddressLetters, LowerLetters, UpperLetters,
    Digits, Hexadecimals
<1>3. to = {}
  <2>1. \A s \in to : Steps(m.state, " ", s)
    BY DEF Steps
  <2>. HIDE DEF to
  <2>. QED
    BY <1>2, <2>1, StepCases
<1>. HIDE DEF to
<1>4. st \in {"ready", "invalid"}
  OBVIOUS
<1>. HIDE DEF st
<1>5. over.size = 0 /\ over.state = st
  OBVIOUS
<1>. HIDE DEF over
<1>6. Transition(m, " ") = over
  BY <1>1, <1>3
<1>. QED
  BY <1>4, <1>5, <1>6

\* resetHyperlinkDetection() is followed by nothing that was read.
LEMMA ResetShown ==
  ASSUME EnoughObjects, NEW t, NEW a, NEW u, Good(t, NoObject, a, u), Shown(t), NEW half
  PROVE  LET v == ResetHyperlinkDetection(t, half) IN
         /\ LinksShown(v) /\ LinkNamed(v) /\ Unmatched(v) /\ v.alternate = t.alternate
<1>. DEFINE v == ResetHyperlinkDetection(t, half)
<1>1. /\ LinksShown(v) /\ LinkNamed(v) /\ v.alternate = t.alternate
      /\ v.matcher = IF t.link # NoObject THEN t.matcher ELSE Transition(t.matcher, " ")
      /\ v.cut <=> IF t.link # NoObject THEN t.cut ELSE t.cut /\ Transition(t.matcher, " ").size > 0
  BY DetectShown DEF Shown, ResetHyperlinkDetection
<1>. HIDE DEF v
<1>2. CASE t.link # NoObject
  <2>1. CASE t.cut
    BY <1>1, <1>2, <2>1 DEF Shown, Matched, Unmatched, v
  <2>2. CASE ~ t.cut
    <3>1. t.matcher.size = 0
      BY <1>2, <2>2 DEF Shown, Matched, Good, Terminals, Matchers
    <3>. QED
      BY <1>1, <1>2, <2>2, <3>1, NothingRead DEF Shown, Unmatched, v
  <2>. QED
    BY <2>1, <2>2
<1>3. CASE t.link = NoObject
  BY <1>1, <1>3, SpaceEnds, EmptySpelled DEF Unmatched, v
<1>. QED
  BY <1>2, <1>3

-----------------------------------------------------------------------------
(* The actions *)

\* While the text does not matter only the links count.
LEMMA StillShown ==
  ASSUME NEW t, NEW v, Unmatched(t), v.matcher = t.matcher /\ v.cut = t.cut, LinksShown(v), LinkNamed(v)
  PROVE  Shown(v)
<1>1. Matched(v)
  BY UnmatchedIs DEF Unmatched
<1>. QED
  BY <1>1 DEF Shown

\* What the reader does is the next state.
LEMMA ReaderShown ==
  ASSUME NEW t \in Terminals, Becomes(t)
  PROVE  Now' = t
<1>1. /\ rows' = t.rows /\ backup' = t.backup /\ alternate' = t.alternate /\ history' = t.history
      /\ cursor' = <<t.x, t.y>> /\ matcher' = t.matcher /\ heap' = t.heap /\ inProgress' = t.link
      /\ status' = t.status /\ cut' = t.cut /\ mixed' = t.mixed
  BY DEF Becomes
<1>2. cursor'[1] = t.x /\ cursor'[2] = t.y
  BY <1>1
<1>3. Now' = [rows |-> t.rows, backup |-> t.backup, alternate |-> t.alternate, history |-> t.history,
              x |-> t.x, y |-> t.y, matcher |-> t.matcher, heap |-> t.heap, link |-> t.link,
              status |-> t.status, cut |-> t.cut, mixed |-> t.mixed]
  BY <1>1, <1>2 DEF Now
<1>. QED
  BY <1>3 DEF Terminals

\* A line feed
LEMMA LineFeedShown ==
  ASSUME NEW t, NEW a, NEW u, Good(t, NoObject, a, u), LinksShown(t), LinkNamed(t), Unmatched(t),
         NEW w, w = IF t.y + 1 = Height THEN DeleteLine(t) ELSE [t EXCEPT !.y = @ + 1],
         Good(w, NoObject, a, u)
  PROVE  Shown(UpdateCursorPosition(w))
<1>. DEFINE v == UpdateCursorPosition(w)
<1>1. t \in Terminals /\ w \in Terminals
  BY DEF Good
<1>2. LinksShown(w) /\ KeepsUrls(t.heap, w.heap) /\ w.matcher = t.matcher /\ w.cut = t.cut /\ w.link = t.link
  <2>1. CASE t.y + 1 = Height
    <3>1. w = DeleteLine(t)
      BY <2>1
    <3>2. LinksShown(w)
      BY <1>1, <3>1, DeleteLineShown
    <3>3. KeepsUrls(t.heap, w.heap) /\ w.matcher = t.matcher /\ w.cut = t.cut
      BY <1>1, <3>1, DeletedFacts
    <3>4. w.link = t.link
      BY <3>1, DeleteLineGood
    <3>. QED
      BY <3>2, <3>3, <3>4
  <2>2. CASE t.y + 1 # Height
    <3>1. w = [t EXCEPT !.y = @ + 1]
      BY <2>2
    <3>2. w.heap = t.heap /\ w.rows = t.rows /\ SameElsewhere(t, w) /\ w.matcher = t.matcher /\ w.cut = t.cut
          /\ w.link = t.link
      BY <1>1, <3>1 DEF Terminals, SameElsewhere
    <3>3. KeepsUrls(t.heap, w.heap)
      BY <3>2, UrlsSame
    <3>. QED
      BY <1>1, <3>2, <3>3, HeapShown
  <2>. QED
    BY <2>1, <2>2
<1>3. Good(v, NoObject, a, u) /\ v.link = w.link
  BY UpdateCursorGood
<1>4. LinksShown(v) /\ KeepsUrls(w.heap, v.heap) /\ v.matcher = w.matcher /\ v.cut = w.cut
  BY <1>2, UpdateCursorFacts
<1>. HIDE DEF v
<1>5. KeepsUrls(t.heap, v.heap)
  BY <1>2, <1>4, UrlsKept
<1>6. LinkNamed(v)
  BY <1>2, <1>3, <1>5, NamedKept
<1>7. Shown(v)
  BY <1>2, <1>4, <1>6, StillShown
<1>. QED
  BY <1>7 DEF v

\* CSI H
LEMMA HomeShown ==
  ASSUME NEW t \in Terminals, LinksShown(t), LinkNamed(t), Unmatched(t), NEW v \in Terminals,
         SameElsewhere(t, v), v.rows = t.rows, v.heap = t.heap, v.link = t.link, v.matcher = t.matcher /\ v.cut = t.cut
  PROVE  Shown(v)
<1>1. KeepsUrls(t.heap, v.heap)
  BY UrlsSame
<1>2. LinksShown(v)
  BY <1>1, HeapShown
<1>3. LinkNamed(v)
  BY DEF LinkNamed
<1>. QED
  BY <1>2, <1>3, StillShown

\* CSI 2 J
LEMMA EraseShown ==
  ASSUME NEW t, NEW a, NEW u, Good(t, NoObject, a, u), LinksShown(t), LinkNamed(t), Unmatched(t), NEW v,
         v = [t EXCEPT !.heap = FillCells(t.heap, FlattenSeq(t.rows)), !.rows = [j \in 1..Height |-> BlankRow]]
  PROVE  Shown(v)
<1>. DEFINE s == FlattenSeq(t.rows)
            B == [j \in 1..Height |-> BlankRow]
            k == FillCells(t.heap, s)
<1>1. Good(v, NoObject, a, u)
  BY EraseGood
<1>2. t \in Terminals /\ v \in Terminals /\ t.heap \in Heaps /\ t.rows \in Screens
  BY <1>1 DEF Good, Terminals
<1>3. s \in Seq(Cells)
  <2>1. t.rows \in Seq(Rows) /\ Len(t.rows) = Height /\ Height > 0 /\ Width \in Nat
    BY <1>2, RowsCount, Sizes
  <2>2. t.rows # << >>
    BY <2>1
  <2>. QED
    BY <2>1, <2>2, FlattenCount
<1>. HIDE DEF s
<1>4. KeepsUrls(t.heap, k)
  BY <1>2, <1>3, FillKeeps
<1>. HIDE DEF k
<1>5. v = [t EXCEPT !.heap = k, !.rows = B]
  BY DEF s, k
<1>6. \A o \in Objects : FewerCells(t.rows, B, o)
  <2>1. \A j \in 1..Height : \A i \in 1..Width : B[j][i].so = NoObject
    BY DEF BlankRow, Cell
  <2>. HIDE DEF B
  <2>. QED
    BY <2>1, ObjectsAssumption DEF FewerCells
<1>. HIDE DEF B
<1>7. v.heap = k /\ v.rows = B /\ SameElsewhere(t, v) /\ v.matcher = t.matcher /\ v.cut = t.cut /\ v.link = t.link
  BY <1>2, <1>5 DEF Terminals, SameElsewhere
<1>8. LinksShown(v)
  BY <1>2, <1>4, <1>6, <1>7, ScreenShown
<1>9. LinkNamed(v)
  BY <1>1, <1>4, <1>7, NamedKept
<1>. QED
  BY <1>7, <1>8, <1>9, StillShown

\* A link ends,
LEMMA EndShown ==
  ASSUME NEW t, NEW a, NEW u, Good(t, NoObject, a, u), LinksShown(t), Matched(t), NEW v,
         v = [t EXCEPT !.heap = Assign(t.heap, t.link, NoObject), !.link = NoObject]
  PROVE  LinksShown(v) /\ LinkNamed(v) /\ Matched(v) /\ (Unmatched(t) => Unmatched(v))
<1>. DEFINE k == Assign(t.heap, t.link, NoObject)
<1>1. Good(v, NoObject, a, u)
  BY LinkEnds
<1>2. t \in Terminals /\ v \in Terminals /\ t.heap \in Heaps /\ t.link \in Pointers
  BY <1>1 DEF Good, Terminals
<1>3. KeepsUrls(t.heap, k)
  BY <1>2, AssignKeeps DEF Pointers
<1>. HIDE DEF k
<1>4. v = [t EXCEPT !.heap = k, !.link = NoObject]
  BY DEF k
<1>5. v.heap = k /\ v.rows = t.rows /\ SameElsewhere(t, v) /\ v.matcher = t.matcher /\ v.cut = t.cut /\ v.link = NoObject
  BY <1>2, <1>4 DEF Terminals, SameElsewhere
<1>6. LinksShown(v)
  BY <1>2, <1>3, <1>5, HeapShown
<1>7. Matched(v)
  <2>1. CASE t.cut
    BY <1>5, <2>1 DEF Matched
  <2>2. CASE ~ t.cut
    <3>1. PICK w \in Seq(Characters) : MatchedAs(t, w)
      BY <2>2 DEF Matched
    <3>2. v.x = t.x /\ v.y = t.y
      BY <1>2, <1>4 DEF Terminals
    <3>3. MatchedAs(v, w)
      BY <1>5, <3>1, <3>2 DEF MatchedAs, Before, Place, CellAt
    <3>. QED
      BY <1>5, <2>2, <3>3 DEF Matched
  <2>. QED
    BY <2>1, <2>2
<1>. QED
  BY <1>5, <1>6, <1>7, ObjectsAssumption DEF LinkNamed, Unmatched

\* and begins, in the middle of what is matched or not.
LEMMA BeginShown ==
  ASSUME EnoughObjects, NEW t, NEW a, NEW u, Good(t, NoObject, a, u), LinksShown(t), Matched(t),
         NEW url \in Urls, NEW v, NEW o, o = NewAddress(t.heap),
         NEW b \in BOOLEAN, b <=> t.cut \/ t.matcher.size > 0,
         v = [t EXCEPT !.heap = Detach(New(t.heap, o, url), t.link), !.link = o, !.cut = b]
  PROVE  Shown(v)
<1>. DEFINE w == [t EXCEPT !.heap = New(t.heap, o, url)]
            k == Detach(w.heap, t.link)
<1>1. o \in Objects /\ ~ t.heap[o].live /\ url \in Texts /\ url \in Urls \cup {None}
  BY FreeAddress DEF Texts
<1>2. Good(w, o, a, u) /\ w.link = t.link
  BY <1>1, PointerComes
<1>3. Good(v, NoObject, a, u)
  BY <1>1, LinkBegins
<1>4. t \in Terminals /\ w \in Terminals /\ v \in Terminals /\ w.heap \in Heaps /\ t.heap \in Heaps
      /\ t.link \in Pointers
  BY <1>2, <1>3 DEF Good, Terminals
<1>5. w.heap = New(t.heap, o, url) /\ w.rows = t.rows /\ SameElsewhere(t, w)
  BY <1>4 DEF Terminals, SameElsewhere
<1>6. LinksShown(w)
  BY <1>1, <1>4, <1>5, NewShown DEF SameElsewhere
<1>7. KeepsUrls(w.heap, k)
  BY <1>4, DetachKeeps
<1>8. v = [t EXCEPT !.heap = k, !.link = o, !.cut = b]
  BY <1>5
<1>9. w.heap[o].url = url
  <2>1. [Free EXCEPT !.live = TRUE, !.refs = 1, !.url = url].url = url
    BY DEF Free
  <2>. QED
    BY <1>1, <1>4, <1>5, <2>1 DEF New, Heaps
<1>. HIDE DEF k
<1>10. v.heap = k /\ v.rows = t.rows /\ SameElsewhere(t, v) /\ v.matcher = t.matcher /\ v.cut = b /\ v.link = o
  BY <1>4, <1>8 DEF Terminals, SameElsewhere
<1>. HIDE DEF w
<1>11. v.rows = w.rows /\ SameElsewhere(w, v) /\ KeepsUrls(w.heap, v.heap)
  BY <1>5, <1>7, <1>10 DEF SameElsewhere
<1>12. LinksShown(v)
  BY <1>4, <1>6, <1>11, HeapShown
<1>13. LinkNamed(v)
  <2>1. v.heap[o].live
    <3>. DEFINE f == Refs(v, NoObject, a)
    <3>1. v.heap[o].live = (f[o] > 0)
      BY <1>1, <1>3 DEF Good, Sound
    <3>2. f[o] > 0
      <4>1. v.link \in Objects /\ v.link = o
        BY <1>1, <1>10
      <4>2. Refs(v, NoObject, a)[v.link] > 0
        BY ONLY <1>4, <4>1, RefsNat
      <4>. QED
        BY <4>1, <4>2
    <3>3. (f[o] > 0) = TRUE
      BY <3>2
    <3>. HIDE DEF f
    <3>. QED
      BY <3>1, <3>3
  <2>2. v.heap[o].url = url
    BY <1>1, <1>9, <1>11, <2>1 DEF KeepsUrls
  <2>. QED
    BY <1>10, <2>2 DEF LinkNamed
<1>14. Unmatched(v)
  <2>1. CASE v.cut
    BY <1>10, <2>1 DEF Matched, Unmatched
  <2>2. CASE ~ v.cut
    <3>1. ~ t.cut /\ ~ (t.matcher.size > 0) /\ t.matcher \in Matchers
      BY <1>4, <1>10, <2>2 DEF Terminals
    <3>2. Unmatched(t)
      BY <3>1, NothingRead DEF Matchers
    <3>. QED
      BY <1>10, <2>2, <3>1, <3>2 DEF Unmatched
  <2>. QED
    BY <2>1, <2>2
<1>. QED
  BY <1>12, <1>13, <1>14, UnmatchedIs DEF Shown

\* The modes change places: each has its rows.
LEMMA SwapShown ==
  ASSUME NEW t, NEW v, LinksShown(t), LinkNamed(t), Unmatched(t), t.alternate \in BOOLEAN,
         v.rows = t.backup.rows, v.backup.rows = t.rows, v.alternate = (~ t.alternate), v.history = t.history,
         v.mixed = t.mixed,
         v.heap = t.heap, v.link = t.link, v.matcher = t.matcher /\ v.cut = t.cut
  PROVE  LinksShown(v) /\ LinkNamed(v) /\ Unmatched(v)
<1>1. NormalRows(v) = NormalRows(t) /\ OtherRows(v) = OtherRows(t)
  <2>1. CASE t.alternate
    BY <2>1 DEF NormalRows, OtherRows
  <2>2. CASE ~ t.alternate
    BY <2>2 DEF NormalRows, OtherRows
  <2>. QED
    BY <2>1, <2>2
<1>2. LinksShown(v)
  BY <1>1 DEF LinksShown
<1>. QED
  BY <1>2 DEF LinkNamed, Unmatched

\* It holds at first,
LEMMA InitShown ==
  ASSUME Init
  PROVE  Shown(Now)
<1>. DEFINE v == Now
<1>1. /\ v.heap = [o \in Objects |-> Free] /\ v.link = NoObject /\ v.matcher = Ready /\ ~ v.cut
  BY DEF Init, Now
<1>. HIDE DEF v
<1>2. \A o \in Objects : ~ v.heap[o].live
  <2>1. Free.live = FALSE
    BY DEF Free
  <2>. QED
    BY <1>1, <2>1
<1>3. LinksShown(v)
  BY <1>2 DEF LinksShown, FoundLink
<1>4. LinkNamed(v)
  BY <1>1, ObjectsAssumption DEF LinkNamed
<1>5. v.matcher.size = 0 /\ v.matcher.state = "ready"
  BY <1>1 DEF Ready
<1>6. Unmatched(v)
  BY <1>1, <1>5, EmptySpelled DEF Unmatched
<1>7. Shown(v)
  BY <1>3, <1>4, <1>6, StillShown
<1>. QED
  BY <1>7 DEF v

\* and each action of the reader keeps it.
LEMMA ReceiveShows ==
  ASSUME EnoughObjects, LinksInv, Shown(Now), NEW word \in Words, NEW half, Receive(word, half)
  PROVE  Shown(Now')
<1>. DEFINE v == Received(Now, word, half)
<1>1. Becomes(v)
  BY DEF Receive, Received
<1>2. Good(v, NoObject, active, hovered)
  BY ReceivedGood DEF LinksInv
<1>3. Shown(v)
  BY ReceivedShown DEF LinksInv
<1>. HIDE DEF v
<1>4. Now' = v
  BY <1>1, <1>2, ReaderShown DEF Good
<1>. QED
  BY <1>3, <1>4

\* A line feed ends what was matched and may scroll,
LEMMA ParseLFShows ==
  ASSUME EnoughObjects, LinksInv, Shown(Now), NEW half, ParseLF(half)
  PROVE  Shown(Now')
<1>. DEFINE t == ResetHyperlinkDetection(Now, half)
            down == [t EXCEPT !.y = @ + 1]
            w == IF t.y + 1 = Height THEN DeleteLine(t) ELSE down
            v == UpdateCursorPosition(w)
<1>0. Becomes(v)
  BY DEF ParseLF
<1>1. Good(t, NoObject, active, hovered)
  BY ResetGood DEF LinksInv
<1>2. LinksShown(t) /\ LinkNamed(t) /\ Unmatched(t)
  BY ResetShown DEF LinksInv
<1>. HIDE DEF t
<1>3. t \in Terminals /\ t.y \in 0..(Height - 1)
  BY <1>1 DEF Good, Terminals
<1>4. t.y + 1 # Height => Good(down, NoObject, active, hovered)
  <2>. SUFFICES ASSUME t.y + 1 # Height PROVE Good(down, NoObject, active, hovered)
    OBVIOUS
  <2>1. t.y + 1 \in 0..(Height - 1)
    BY <1>3, Sizes
  <2>2. down \in Terminals /\ down.history = t.history /\ down.rows = t.rows
        /\ down.backup.rows = t.backup.rows /\ down.heap = t.heap /\ down.link = t.link
    BY <1>3, <2>1 DEF Terminals
  <2>. HIDE DEF down
  <2>. QED
    BY <1>1, <2>2, GoodSame
<1>5. Good(w, NoObject, active, hovered)
  <2>1. Good(DeleteLine(t), NoObject, active, hovered)
    BY <1>1, DeleteLineGood
  <2>. HIDE DEF down
  <2>. QED
    BY <1>4, <2>1
<1>6. w = IF t.y + 1 = Height THEN DeleteLine(t) ELSE [t EXCEPT !.y = @ + 1]
  OBVIOUS
<1>. HIDE DEF w
<1>7. Shown(v)
  BY <1>1, <1>2, <1>5, <1>6, LineFeedShown
<1>8. Good(v, NoObject, active, hovered)
  BY <1>5, UpdateCursorGood
<1>. HIDE DEF v
<1>9. Now' = v
  BY <1>0, <1>8, ReaderShown DEF Good
<1>. QED
  BY <1>7, <1>9

\* the cursor goes home,
LEMMA MoveHomeShows ==
  ASSUME EnoughObjects, LinksInv, Shown(Now), NEW half, MoveHome(half)
  PROVE  Shown(Now')
<1>. DEFINE t == ResetHyperlinkDetection(Now, half)
            v == [t EXCEPT !.x = 0, !.y = 0]
<1>1. Good(t, NoObject, active, hovered)
  BY ResetGood DEF LinksInv
<1>2. Becomes(v)
  BY DEF MoveHome
<1>3. LinksShown(t) /\ LinkNamed(t) /\ Unmatched(t)
  BY ResetShown DEF LinksInv
<1>. HIDE DEF t
<1>4. t \in Terminals /\ 0 \in 0..(Height - 1) /\ 0 \in 0..Width
  BY <1>1, Sizes DEF Good
<1>5. /\ v \in Terminals /\ SameElsewhere(t, v) /\ v.rows = t.rows /\ v.heap = t.heap /\ v.link = t.link
      /\ v.matcher = t.matcher /\ v.cut = t.cut
  BY <1>4 DEF Terminals, SameElsewhere
<1>. HIDE DEF v
<1>6. Now' = v
  BY <1>2, <1>5, ReaderShown
<1>. QED
  BY <1>3, <1>4, <1>5, <1>6, HomeShown

\* the screen is erased,
LEMMA EraseShows ==
  ASSUME EnoughObjects, LinksInv, Shown(Now), NEW half, EraseDisplay(half)
  PROVE  Shown(Now')
<1>. DEFINE t == ResetHyperlinkDetection(Now, half)
            v == [t EXCEPT !.heap = FillCells(t.heap, FlattenSeq(t.rows)), !.rows = [j \in 1..Height |-> BlankRow]]
<1>1. Good(t, NoObject, active, hovered)
  BY ResetGood DEF LinksInv
<1>2. Becomes([t EXCEPT !.rows = [j \in 1..Height |-> BlankRow],
                       !.heap = FillCells(@, FlattenSeq(t.rows))])
  BY DEF EraseDisplay
<1>3. LinksShown(t) /\ LinkNamed(t) /\ Unmatched(t)
  BY ResetShown DEF LinksInv
<1>. HIDE DEF t
<1>4. t \in Terminals
  BY <1>1 DEF Good
<1>5. v = [t EXCEPT !.rows = [j \in 1..Height |-> BlankRow],
                    !.heap = FillCells(@, FlattenSeq(t.rows))]
  BY <1>4 DEF Terminals
<1>6. Becomes(v)
  BY <1>2, <1>5
<1>7. Good(v, NoObject, active, hovered)
  BY <1>1, EraseGood
<1>8. Shown(v)
  BY <1>1, <1>3, EraseShown
<1>. HIDE DEF v
<1>9. Now' = v
  BY <1>6, <1>7, ReaderShown DEF Good
<1>. QED
  BY <1>8, <1>9

\* a link is named or ends,
LEMMA SequenceShows ==
  ASSUME EnoughObjects, LinksInv, Shown(Now), NEW url \in Urls \cup {None}, HyperlinkSequence(url)
  PROVE  Shown(Now')
<1>. DEFINE t == Now
            o == NewAddress(t.heap)
            b == t.cut \/ t.matcher.size > 0
            ended == [t EXCEPT !.heap = Assign(t.heap, t.link, NoObject), !.link = NoObject]
            begun == [t EXCEPT !.heap = Detach(New(t.heap, o, url), t.link), !.link = o, !.cut = b]
<1>1. Good(t, NoObject, active, hovered) /\ t.link = inProgress /\ t.heap = heap /\ t.matcher = matcher
  BY DEF LinksInv, Now
<1>2. Becomes(IF url = None THEN [t EXCEPT !.heap = Assign(@, inProgress, NoObject), !.link = NoObject]
              ELSE [t EXCEPT !.heap = Detach(New(@, NewAddress(heap), url), inProgress),
                             !.link = NewAddress(heap), !.cut = @ \/ matcher.size > 0])
  BY DEF HyperlinkSequence
<1>3. LinksShown(t) /\ LinkNamed(t) /\ Matched(t) /\ b \in BOOLEAN
  BY <1>1 DEF Shown, Good, Terminals
<1>. HIDE DEF t
<1>4. Becomes(IF url = None THEN ended ELSE begun)
  BY <1>1, <1>2
<1>44. b <=> t.cut \/ t.matcher.size > 0
  OBVIOUS
<1>. HIDE DEF b
<1>5. url \in Texts
  BY DEF Texts
<1>6. Good(ended, NoObject, active, hovered) /\ Shown(ended)
  <2>1. LinksShown(ended) /\ LinkNamed(ended) /\ Matched(ended)
    BY <1>1, <1>3, EndShown
  <2>2. Good(ended, NoObject, active, hovered)
    BY <1>1, LinkEnds
  <2>. HIDE DEF ended
  <2>. QED
    BY <2>1, <2>2 DEF Shown
<1>7. Good(begun, NoObject, active, hovered)
  BY <1>1, <1>3, <1>5, LinkBegins
<1>8. url # None => Shown(begun)
  <2>. SUFFICES ASSUME url # None PROVE Shown(begun)
    OBVIOUS
  <2>1. url \in Urls
    OBVIOUS
  <2>. QED
    BY <1>1, <1>3, <1>44, <2>1, BeginShown
<1>. HIDE DEF ended, begun
<1>9. CASE url = None
  <2>1. Now' = ended
    BY <1>4, <1>6, <1>9, ReaderShown DEF Good
  <2>. QED
    BY <1>6, <2>1
<1>10. CASE url # None
  <2>1. Now' = begun
    BY <1>4, <1>7, <1>10, ReaderShown DEF Good
  <2>. QED
    BY <1>8, <1>10, <2>1
<1>. QED
  BY <1>9, <1>10

\* and the modes change.
LEMMA AlternateShows ==
  ASSUME EnoughObjects, LinksInv, Shown(Now), NEW value \in BOOLEAN, NEW half, SetAlternateMode(value, half)
  PROVE  Shown(Now')
<1>. DEFINE t == ResetHyperlinkDetection(Now, half)
            u == [t EXCEPT !.heap = Assign(t.heap, t.link, NoObject), !.link = NoObject]
            swapped == [u EXCEPT !.rows = u.backup.rows, !.x = u.backup.x, !.y = u.backup.y,
                                 !.backup = [rows |-> u.rows, x |-> u.x, y |-> u.y],
                                 !.alternate = value]
            erased == [swapped EXCEPT !.heap = FillCells(swapped.heap, FlattenSeq(swapped.rows)),
                                      !.rows = [j \in 1..Height |-> BlankRow]]
            reset == [erased EXCEPT !.x = 0, !.y = 0]
            reset1 == [swapped EXCEPT !.heap = FillCells(@, FlattenSeq(swapped.rows)),
                                     !.rows = [j \in 1..Height |-> BlankRow],
                                     !.x = 0, !.y = 0]
<1>1. Good(t, NoObject, active, hovered) /\ t.alternate = alternate
  <2>1. Good(t, NoObject, active, hovered)
    BY ResetGood DEF LinksInv
  <2>2. t.alternate = alternate
    BY ResetShown DEF LinksInv, Now
  <2>. QED
    BY <2>1, <2>2
<1>2. Becomes(IF value = alternate THEN u ELSE IF ~ value THEN swapped ELSE reset1)
  <2>1. u = [t EXCEPT !.heap = Assign(@, t.link, NoObject), !.link = NoObject]
    OBVIOUS
  <2>. QED
    BY <2>1 DEF SetAlternateMode
<1>3. LinksShown(t) /\ LinkNamed(t) /\ Unmatched(t)
  BY ResetShown DEF LinksInv
<1>. HIDE DEF t
<1>4. LinksShown(u) /\ LinkNamed(u) /\ Unmatched(u)
  BY <1>1, <1>3, UnmatchedIs, EndShown
<1>5. Good(u, NoObject, active, hovered) /\ u.alternate = alternate
  <2>1. Good(u, NoObject, active, hovered)
    BY <1>1, LinkEnds
  <2>2. u.alternate = alternate
    BY <1>1 DEF Good, Terminals
  <2>. QED
    BY <2>1, <2>2
<1>. HIDE DEF u
<1>6. /\ u \in Terminals /\ u.backup.rows \in Screens /\ u.backup.x \in 0..Width
      /\ u.backup.y \in 0..(Height - 1) /\ u.rows \in Screens /\ u.x \in 0..Width /\ u.y \in 0..(Height - 1)
      /\ u.alternate \in BOOLEAN
  BY <1>5 DEF Good, Terminals
<1>7. /\ swapped \in Terminals /\ swapped.rows = u.backup.rows /\ swapped.backup.rows = u.rows
      /\ swapped.history = u.history /\ swapped.heap = u.heap /\ swapped.link = u.link
      /\ swapped.alternate = value /\ swapped.matcher = u.matcher /\ swapped.cut = u.cut
      /\ swapped.mixed = u.mixed
  BY <1>6 DEF Terminals
<1>. HIDE DEF swapped
<1>8. Good(swapped, NoObject, active, hovered)
  BY <1>5, <1>7, SwapGood
<1>9. CASE value = alternate
  <2>1. Now' = u
    BY <1>2, <1>6, <1>9, ReaderShown
  <2>. QED
    BY <1>4, <2>1, StillShown
<1>10. CASE value # alternate
  <2>1. swapped.alternate = (~ u.alternate)
    BY <1>5, <1>6, <1>7, <1>10
  <2>2. LinksShown(swapped) /\ LinkNamed(swapped) /\ Unmatched(swapped)
    BY <1>4, <1>6, <1>7, <2>1, SwapShown
  <2>3. CASE ~ value
    <3>1. Now' = swapped
      BY <1>2, <1>7, <1>10, <2>3, ReaderShown
    <3>. QED
      BY <2>2, <3>1, StillShown
  <2>4. CASE value
    <3>1. Good(erased, NoObject, active, hovered)
      BY <1>8, EraseGood
    <3>2. Shown(erased)
      BY <1>8, <2>2, EraseShown
    <3>3. reset1 = reset
      BY <1>7 DEF Terminals
    <3>4. erased.matcher = swapped.matcher /\ erased.cut = swapped.cut
      BY <1>7 DEF Terminals
    <3>. HIDE DEF erased, reset1
    <3>5. erased \in Terminals /\ 0 \in 0..(Height - 1) /\ 0 \in 0..Width
      BY <3>1, Sizes DEF Good
    <3>6. reset \in Terminals /\ SameElsewhere(erased, reset) /\ reset.rows = erased.rows
          /\ reset.heap = erased.heap /\ reset.link = erased.link /\ reset.matcher = erased.matcher
          /\ reset.cut = erased.cut
      BY <3>5 DEF Terminals, SameElsewhere
    <3>7. Now' = reset
      BY <1>2, <1>10, <2>4, <3>3, <3>6, ReaderShown
    <3>. HIDE DEF reset
    <3>8. LinksShown(erased) /\ LinkNamed(erased) /\ Unmatched(erased)
      BY <2>2, <3>2, <3>4 DEF Shown, Unmatched
    <3>. QED
      BY <3>5, <3>6, <3>7, <3>8, HomeShown
  <2>. QED
    BY <2>3, <2>4
<1>. QED
  BY <1>9, <1>10

\* The mouse changes which link is highlighted, and no address.
LEMMA PointsKeep ==
  ASSUME NEW h \in Heaps, NEW old \in Pointers, NEW new \in Pointers
  PROVE  KeepsUrls(h, Activated(Assign(Deactivated(h, old), old, new), new))
<1>1. ASSUME NEW g \in Heaps, NEW o \in Pointers, NEW value \in BOOLEAN
      PROVE  /\ KeepsUrls(g, IF o = NoObject THEN g ELSE [g EXCEPT ![o].active = value])
             /\ (IF o = NoObject THEN g ELSE [g EXCEPT ![o].active = value]) \in Heaps
  <2>1. CASE o = NoObject
    BY <2>1, UrlsSame
  <2>2. CASE o # NoObject
    <3>. DEFINE r == [g[o] EXCEPT !.active = value]
                k == [g EXCEPT ![o].active = value]
    <3>1. o \in Objects
      BY <2>2 DEF Pointers
    <3>2. g[o] \in [live : BOOLEAN, refs : Int, url : Texts, active : BOOLEAN]
      BY <3>1 DEF Heaps
    <3>3. /\ r.live = g[o].live /\ r.url = g[o].url
          /\ r \in [live : BOOLEAN, refs : Int, url : Texts, active : BOOLEAN]
      BY <3>2
    <3>4. k = [g EXCEPT ![o] = r]
      BY <3>1 DEF Heaps
    <3>. HIDE DEF r, k
    <3>5. KeepsUrls(g, k) /\ k \in Heaps
      BY <3>1, <3>3, <3>4 DEF KeepsUrls, Heaps
    <3>. QED
      BY <2>2, <3>5 DEF k
  <2>. QED
    BY <2>1, <2>2
<1>. DEFINE d == Deactivated(h, old)
            e == Assign(d, old, new)
            k == Activated(e, new)
<1>2. KeepsUrls(h, d) /\ d \in Heaps
  BY <1>1 DEF Deactivated
<1>. HIDE DEF d
<1>4. KeepsUrls(d, e) /\ e \in Heaps
  <2>1. Detach(d, old) \in Heaps
    BY <1>2, HeapSteps
  <2>2. e \in Heaps
    BY <1>2, <2>1, HeapSteps DEF Assign
  <2>. QED
    BY <1>2, <2>2, AssignKeeps
<1>. HIDE DEF e
<1>3. KeepsUrls(e, k)
  BY <1>1, <1>4 DEF Activated
<1>. HIDE DEF k
<1>5. KeepsUrls(h, e)
  BY <1>2, <1>4, UrlsKept
<1>6. KeepsUrls(h, k)
  BY <1>3, <1>5, UrlsKept
<1>. QED
  BY <1>6 DEF d, e, k

\* Where the screen and the cursor are the same, so is what was matched.
LEMMA MatchedSame ==
  ASSUME NEW t \in Terminals, NEW v \in Terminals, Matched(t), v.rows = t.rows, v.x = t.x, v.y = t.y,
         v.matcher = t.matcher /\ v.cut = t.cut, v.link = t.link
  PROVE  Matched(v)
<1>. SUFFICES ASSUME ~ t.cut PROVE Matched(v)
  BY DEF Matched
<1>1. PICK w \in Seq(Characters) : MatchedAs(t, w)
  BY DEF Matched
<1>2. Before(v, w)
  <2>1. Before(t, w) /\ SameChars(t.rows, v.rows)
    BY <1>1 DEF MatchedAs, SameChars
  <2>2. t.x \in 0..Width /\ t.y \in 0..(Height - 1) /\ Len(w) \in Nat
    BY DEF Terminals
  <2>. QED
    BY <2>1, <2>2, BeforeSame
<1>3. MatchedAs(v, w)
  BY <1>1, <1>2 DEF MatchedAs
<1>. QED
  BY <1>3 DEF Matched

\* The mouse goes to another link, or to none;
LEMMA PointedShows ==
  ASSUME LinksInv, LinksInv', Shown(Now), NEW over \in Pointers,
         UNCHANGED <<rows, backup, alternate, history, cursor, matcher, inProgress, status, cut, mixed>>,
         heap' = Activated(Assign(Deactivated(heap, active), active, over), over)
  PROVE  Shown(Now')
<1>. DEFINE t == Now
            v == Now'
<1>1. t \in Terminals /\ t.heap = heap /\ active \in Pointers /\ heap \in Heaps
      /\ Good(v, NoObject, active', hovered') /\ v \in Terminals
  BY DEF LinksInv, Good, Terminals, Now
<1>2. KeepsUrls(heap, heap')
  BY <1>1, PointsKeep
<1>3. /\ v.heap = heap' /\ SameElsewhere(t, v) /\ v.rows = t.rows /\ v.x = t.x /\ v.y = t.y
      /\ v.matcher = t.matcher /\ v.cut = t.cut /\ v.link = t.link
  BY DEF Now, SameElsewhere
<1>4. LinksShown(t) /\ LinkNamed(t) /\ Matched(t)
  BY DEF Shown
<1>. HIDE DEF t, v
<1>5. LinksShown(v)
  BY <1>1, <1>2, <1>3, <1>4, HeapShown
<1>6. LinkNamed(v)
  BY <1>1, <1>2, <1>3, <1>4, NamedKept
<1>7. Matched(v)
  BY <1>1, <1>3, <1>4, MatchedSame
<1>8. Shown(v)
  BY <1>5, <1>6, <1>7 DEF Shown
<1>. QED
  BY <1>8 DEF v

\* whatever it does, what is shown stays.
LEMMA UIShows ==
  ASSUME LinksInv, LinksInv', Shown(Now), UI
  PROVE  Shown(Now')
<1>1. ASSUME NEW j \in DOMAIN Contents, NEW i \in 1..Width, MouseMove(Contents[j][i].so)
      PROVE  Shown(Now')
  <2>. DEFINE over == Contents[j][i].so
  <2>1. over \in Pointers
    BY OverFacts
  <2>2. /\ UNCHANGED <<rows, backup, alternate, history, cursor, matcher, inProgress, status, cut, mixed>>
        /\ heap' = Activated(Assign(Deactivated(heap, active), active, over), over)
    BY <1>1 DEF MouseMove, UIOnly
  <2>. HIDE DEF over
  <2>. QED
    BY <2>1, <2>2, PointedShows
<1>2. CASE MouseOut
  <2>. DEFINE over == NoObject
  <2>1. over \in Pointers
    BY DEF Pointers
  <2>2. /\ UNCHANGED <<rows, backup, alternate, history, cursor, matcher, inProgress, status, cut, mixed>>
        /\ heap' = Activated(Assign(Deactivated(heap, active), active, over), over)
    BY <1>2 DEF MouseOut, UIOnly, Activated
  <2>. HIDE DEF over
  <2>. QED
    BY <2>1, <2>2, PointedShows
<1>3. CASE MouseClick
  <2>1. Now' = Now
    BY <1>3 DEF MouseClick, UIOnly, Now
  <2>. QED
    BY <2>1
<1>. QED
  BY <1>1, <1>2, <1>3 DEF UI

\* Every step keeps it.
LEMMA NextShows ==
  ASSUME EnoughObjects, LinksInv, Shown(Now), [Next]_vars
  PROVE  Shown(Now')
<1>1. CASE Reader
  BY <1>1, ReceiveShows, AlternateShows, ParseLFShows, MoveHomeShows, EraseShows, SequenceShows DEF Reader
<1>2. CASE UI
  <2>1. LinksInv'
    BY NextLinks
  <2>. QED
    BY <1>2, <2>1, UIShows
<1>3. CASE UNCHANGED vars
  <2>1. Now' = Now
    BY <1>3 DEF vars, Now
  <2>. QED
    BY <2>1
<1>. QED
  BY <1>1, <1>2, <1>3 DEF Next

-----------------------------------------------------------------------------
(* What is shown is text of the address. *)

\* The characters of s are some of those of t, in order: g says which.
PickedBy(g, s, t) ==
  \A i \in 1..Len(s) :
    /\ g[i] \in 1..Len(t) /\ t[g[i]] = s[i]
    /\ \A j \in 1..Len(s) : i < j => g[i] < g[j]

\* How many characters of s were found in the first characters of t.
FoundIn(r, s, t) ==
  /\ r \in [0..Len(t) -> 0..Len(s)] /\ r[0] = 0
  /\ \A k \in 1..Len(t) :
       r[k] = IF r[k - 1] < Len(s) /\ s[r[k - 1] + 1] = t[k] THEN r[k - 1] + 1 ELSE r[k - 1]

\* IsSubsequence() counts step by step.
LEMMA SubsequenceUnrolled ==
  ASSUME NEW s, NEW t, Len(s) \in Nat, Len(t) \in Nat, DOMAIN t = 1..Len(t)
  PROVE  \E r : FoundIn(r, s, t) /\ (IsSubsequence(s, t) <=> r[Len(t)] = Len(s))
<1>. DEFINE m == Len(s)
            n == Len(t)
            X == 0..m
            On(v, k) == IF v < m /\ s[v + 1] = t[k] THEN v + 1 ELSE v
            step == [k \in 1..n |-> [v \in X |-> On(v, k)]]
            Iter(f) == f = [S \in SUBSET (DOMAIN t) |-> IF S = {} THEN 0
                              ELSE IF f[S \ {Max(S)}] < m /\ s[f[S \ {Max(S)}] + 1] = t[Max(S)]
                                   THEN f[S \ {Max(S)}] + 1 ELSE f[S \ {Max(S)}]]
            iter == CHOOSE f : Iter(f)
<1>0. m \in Nat /\ n \in Nat /\ DOMAIN t = 1..n
  OBVIOUS
<1>1. IsSubsequence(s, t) <=> iter[DOMAIN t] = m
  BY DEF IsSubsequence, FoldLeft, MapThenFoldSet
<1>2. \A v \in X : \A k \in 1..n : On(v, k) \in X
  BY <1>0
<1>3. step \in [1..n -> [X -> X]] /\ 0 \in X
  BY <1>0, <1>2
<1>4. PICK f : FoldsTo(f, X, 0, step, n)
  BY <1>0, <1>3, FoldExists
<1>5. \A S \in SUBSET (1..n) : S # {} => Max(S) \in 1..n
  <2>. SUFFICES ASSUME NEW S \in SUBSET (1..n), S # {} PROVE Max(S) \in S
    OBVIOUS
  <2>1. S \subseteq 0..n
    BY <1>0
  <2>. QED
    BY <1>0, <2>1, GreatestNumber
<1>. HIDE DEF m, n
<1>10. \A v \in X : \A k \in 1..n : step[k][v] = On(v, k)
  OBVIOUS
<1>. HIDE DEF step
<1>6. Iter(f)
  <2>1. ASSUME NEW S \in SUBSET (1..n)
        PROVE  f[S] = IF S = {} THEN 0 ELSE On(f[S \ {Max(S)}], Max(S))
    <3>1. f[S] = IF S = {} THEN 0 ELSE step[Max(S)][f[S \ {Max(S)}]]
      BY <1>4 DEF FoldsTo
    <3>2. f[S \ {Max(S)}] \in X
      BY <1>4 DEF FoldsTo
    <3>. QED
      BY <1>5, <1>10, <3>1, <3>2
  <2>2. f = [S \in SUBSET (1..n) |-> f[S]]
    BY <1>4 DEF FoldsTo
  <2>. QED
    BY <1>0, <2>1, <2>2
<1>7. Iter(iter)
  <2>. HIDE DEF Iter
  <2>. QED
    BY <1>6
<1>. HIDE DEF iter
<1>8. \A S \in SUBSET (1..n) : iter[S] = IF S = {} THEN 0 ELSE On(iter[S \ {Max(S)}], Max(S))
  BY <1>0, <1>5, <1>7
<1>. HIDE DEF Iter
<1>9. iter[{}] = 0
  BY <1>8
<1>. HIDE DEF On
<1>11. \A S \in SUBSET (1..n) : S # {} /\ iter[S \ {Max(S)}] \in X
                                 => iter[S] = step[Max(S)][iter[S \ {Max(S)}]]
  BY <1>5, <1>8, <1>10
<1>12. FoldsOn(iter, X, 0, step, n)
  BY <1>3, <1>9, <1>11 DEF FoldsOn
<1>13. PICK r \in [0..n -> X] :
         r[0] = 0 /\ (\A k \in 1..n : r[k] = step[k][r[k - 1]]) /\ iter[1..n] = r[n]
  BY <1>0, <1>12, FoldUnrolled
<1>14. \A k \in 1..n : r[k] = On(r[k - 1], k)
  <2>1. \A k \in 1..n : k - 1 \in 0..n
    BY <1>0
  <2>. QED
    BY <1>10, <1>13, <2>1
<1>15. FoundIn(r, s, t)
  BY <1>13, <1>14 DEF FoundIn, On, n, m
<1>16. IsSubsequence(s, t) <=> r[n] = m
  BY <1>0, <1>1, <1>13
<1>. QED
  BY <1>15, <1>16 DEF n, m

\* What was picked is found.
LEMMA PickedIsSubsequence ==
  ASSUME NEW s, NEW t, Len(s) \in Nat, Len(t) \in Nat, DOMAIN t = 1..Len(t), NEW g, PickedBy(g, s, t)
  PROVE  IsSubsequence(s, t)
<1>. DEFINE m == Len(s)
            n == Len(t)
<1>1. PICK r : FoundIn(r, s, t) /\ (IsSubsequence(s, t) <=> r[Len(t)] = Len(s))
  BY SubsequenceUnrolled
<1>2. /\ r \in [0..n -> 0..m] /\ r[0] = 0
      /\ \A k \in 1..n : r[k] = IF r[k - 1] < m /\ s[r[k - 1] + 1] = t[k] THEN r[k - 1] + 1 ELSE r[k - 1]
  BY <1>1 DEF FoundIn
<1>3. /\ \A i \in 1..m : g[i] \in 1..n /\ t[g[i]] = s[i]
      /\ \A i \in 1..m : \A j \in 1..m : i < j => g[i] < g[j]
  BY DEF PickedBy
<1>4. m \in Nat /\ n \in Nat
  OBVIOUS
<1>. HIDE DEF m, n
<1>. DEFINE T == {k \in 0..n : \A i \in 1..m : g[i] <= k => i <= r[k]}
<1>5. 0 \in T
  BY <1>2, <1>3, <1>4
<1>6. ASSUME NEW k \in 1..n, k - 1 \in T PROVE k \in T
  <2>1. k \in 0..n /\ k - 1 \in 0..n /\ \A i \in 1..m : g[i] <= k - 1 => i <= r[k - 1]
    BY <1>6
  <2>. DEFINE v == r[k - 1]
  <2>2. v \in 0..m /\ r[k] = IF v < m /\ s[v + 1] = t[k] THEN v + 1 ELSE v
    BY <1>2, <2>1
  <2>. HIDE DEF v
  <2>3. ASSUME NEW i \in 1..m, g[i] <= k PROVE i <= r[k]
    <3>1. CASE i <= v
      BY <1>4, <2>2, <3>1
    <3>2. CASE v < i
      <4>1. ~ (g[i] <= k - 1)
        BY <1>4, <2>1, <2>2, <3>2 DEF v
      <4>2. g[i] = k
        BY <1>3, <2>3, <4>1
      <4>3. i = v + 1
        <5>. SUFFICES ASSUME v + 1 < i PROVE FALSE
          BY <1>4, <2>2, <3>2
        <5>. DEFINE j == v + 1
        <5>1. j \in 1..m /\ j < i /\ ~ (j <= v)
          BY <1>4, <2>2
        <5>. HIDE DEF j
        <5>2. g[j] < g[i] /\ g[j] \in 1..n
          BY <1>3, <5>1
        <5>3. g[j] <= k - 1
          BY <4>2, <5>2
        <5>. QED
          BY <2>1, <5>1, <5>3 DEF v
      <4>4. v < m /\ s[v + 1] = t[k]
        BY <1>3, <1>4, <2>2, <4>2, <4>3
      <4>. QED
        BY <2>2, <4>3, <4>4
    <3>. QED
      BY <1>4, <2>2, <3>1, <3>2
  <2>. QED
    BY <2>1, <2>3
<1>. HIDE DEF T
<1>7. n \in T
  BY <1>4, <1>5, <1>6, StepByStep
<1>8. r[n] = m
  <2>1. r[n] \in 0..m /\ \A i \in 1..m : g[i] <= n => i <= r[n]
    BY <1>2, <1>4, <1>7 DEF T
  <2>2. m \in 1..m => m <= r[n]
    BY <1>3, <1>4, <2>1
  <2>. QED
    BY <1>4, <2>1, <2>2
<1>. QED
  BY <1>1, <1>8 DEF m, n

\* The cells that o has in the rows Q are those it has in the rows R, in the same
\* order: p says where the rows are.
Lie(p, Q, R, o) ==
  \A j \in 1..Len(Q) : \A i \in 1..Width : Q[j][i].so = o =>
    /\ p[j] \in 1..Len(R) /\ R[p[j]] = Q[j]
    /\ \A l \in 1..Len(Q) : \A m \in 1..Width : Q[l][m].so = o /\ j < l => p[j] < p[l]

\* Such rows show what those show.
LEMMA LieShows ==
  ASSUME NEW R, NEW Q, NEW o, NEW url, NEW p, Lie(p, Q, R, o), Shows(R, o, url),
         Len(R) \in Nat, Len(Q) \in Nat, Width \in Nat
  PROVE  Shows(Q, o, url)
<1>1. PICK f : ShowsAs(f, R, o, url)
  BY DEF Shows
<1>. DEFINE g == [j \in 1..Len(Q) |-> f[p[j]]]
<1>2. \A j \in 1..Len(Q) : g[j] = f[p[j]]
  OBVIOUS
<1>. HIDE DEF g
<1>3. ASSUME NEW j \in 1..Len(Q), NEW i \in 1..Width, Q[j][i].so = o
      PROVE  /\ g[j][i] \in 1..Len(url) /\ url[g[j][i]] = Q[j][i].c
             /\ \A l \in 1..Len(Q) : \A m \in 1..Width :
                  Q[l][m].so = o /\ Earlier(j, i, l, m) => g[j][i] < g[l][m]
  <2>1. p[j] \in 1..Len(R) /\ R[p[j]] = Q[j]
    BY <1>3 DEF Lie
  <2>2. /\ f[p[j]][i] \in 1..Len(url) /\ url[f[p[j]][i]] = R[p[j]][i].c
        /\ \A l \in 1..Len(R) : \A m \in 1..Width :
             R[l][m].so = o /\ Earlier(p[j], i, l, m) => f[p[j]][i] < f[l][m]
    BY <1>1, <1>3, <2>1 DEF ShowsAs
  <2>3. ASSUME NEW l \in 1..Len(Q), NEW m \in 1..Width, Q[l][m].so = o, Earlier(j, i, l, m)
        PROVE  g[j][i] < g[l][m]
    <3>1. p[l] \in 1..Len(R) /\ R[p[l]][m].so = o
      BY <2>3 DEF Lie
    <3>2. Earlier(p[j], i, p[l], m)
      <4>1. j < l => p[j] < p[l]
        BY <1>3, <2>3 DEF Lie
      <4>. QED
        BY <2>3, <4>1 DEF Earlier
    <3>3. f[p[j]][i] < f[p[l]][m]
      BY <2>2, <3>1, <3>2
    <3>. QED
      BY <1>2, <3>3
  <2>. QED
    BY <1>2, <2>1, <2>2, <2>3
<1>4. ShowsAs(g, Q, o, url)
  BY <1>3 DEF ShowsAs
<1>. QED
  BY <1>4 DEF Shows

\* Of all that is kept the rows of a link are on its screen.
LEMMA AllShows ==
  ASSUME NEW t \in Terminals, NEW o, NEW url, OnOne(NormalRows(t), OtherRows(t), o, url)
  PROVE  Shows(AllOf(t), o, url)
<1>. DEFINE Q == AllOf(t)
            N == NormalRows(t)
            A == OtherRows(t)
            n == Len(t.history)
            h == Height
<1>1. /\ n \in Nat /\ h \in Nat /\ Width \in Nat /\ Len(N) = n + h /\ Len(A) = h
      /\ (\A j \in 1..n : N[j] = t.history[j])
      /\ \A j \in 1..h : N[n + j] = (IF t.alternate THEN t.backup.rows ELSE t.rows)[j]
  BY RowsFacts, Sizes
<1>2. /\ Len(Q) = n + h + h
      /\ (\A j \in 1..n : Q[j] = t.history[j])
      /\ (\A j \in 1..h : Q[n + j] = t.rows[j])
      /\ (\A j \in 1..h : Q[n + h + j] = t.backup.rows[j])
  <2>. DEFINE H == t.history
              R == t.rows
              B == t.backup.rows
  <2>1. H \in Seq(Rows) /\ R \in Seq(Rows) /\ Len(R) = h /\ B \in Seq(Rows) /\ Len(B) = h
    BY RowsCount DEF Terminals
  <2>. HIDE DEF H, R, B, h
  <2>2. /\ H \o R \in Seq(Rows) /\ Len(H \o R) = Len(H) + h /\ Len(H) \in Nat /\ h \in Nat
        /\ (\A j \in 1..Len(H) : (H \o R)[j] = H[j])
        /\ (\A j \in 1..h : (H \o R)[Len(H) + j] = R[j])
    BY <2>1
  <2>. DEFINE G == H \o R
  <2>3. G \in Seq(Rows) /\ Len(G) = Len(H) + h
    BY <2>2
  <2>4. /\ Len(G \o B) = Len(H) + h + h
        /\ (\A j \in 1..Len(G) : (G \o B)[j] = G[j])
        /\ (\A j \in 1..h : (G \o B)[Len(G) + j] = B[j])
    <3>1. G \in Seq(Rows) /\ B \in Seq(Rows) /\ Len(B) = h
      BY <2>1, <2>3
    <3>. HIDE DEF G
    <3>2. /\ Len(G \o B) = Len(G) + Len(B)
          /\ (\A j \in 1..Len(G) : (G \o B)[j] = G[j])
          /\ (\A j \in 1..Len(B) : (G \o B)[Len(G) + j] = B[j])
      BY ONLY <3>1
    <3>. QED
      BY <2>3, <3>1, <3>2
  <2>5. /\ (\A j \in 1..Len(H) : (G \o B)[j] = H[j])
        /\ (\A j \in 1..h : (G \o B)[Len(H) + j] = R[j])
    <3>1. \A j \in 1..Len(H) : j \in 1..Len(G)
      BY <2>2, <2>3
    <3>2. \A j \in 1..h : Len(H) + j \in 1..Len(G)
      BY <2>2, <2>3
    <3>. QED
      BY <2>2, <2>4, <3>1, <3>2
  <2>6. Q = G \o B
    BY DEF AllOf, H, R, B
  <2>. HIDE DEF G
  <2>. QED
    BY <2>3, <2>4, <2>5, <2>6 DEF H, R, B
<1>. HIDE DEF Q, N, A, n, h
<1>3. \A j \in 1..(n + h + h) : \/ j \in 1..n
                                \/ j - n \in 1..h /\ n + (j - n) = j
                                \/ j - n - h \in 1..h /\ n + h + (j - n - h) = j
  <2>. SUFFICES ASSUME NEW j \in 1..(n + h + h)
                PROVE  \/ j \in 1..n
                       \/ j - n \in 1..h /\ n + (j - n) = j
                       \/ j - n - h \in 1..h /\ n + h + (j - n - h) = j
    OBVIOUS
  <2>1. n \in Nat /\ h \in Nat /\ j \in Int
    BY <1>1
  <2>. QED
    BY ONLY <2>1, j \in 1..(n + h + h)
<1>4. ASSUME t.alternate, Shows(N, o, url), Without(A, o) PROVE Shows(Q, o, url)
  <2>. DEFINE p == [j \in 1..(n + h + h) |-> IF j <= n THEN j ELSE j - h]
  <2>1. A = t.rows
    BY <1>4 DEF OtherRows, A
  <2>2. ASSUME NEW j \in 1..Len(Q), NEW i \in 1..Width, Q[j][i].so = o
        PROVE  /\ p[j] \in 1..Len(N) /\ N[p[j]] = Q[j] /\ (j <= n \/ j - n - h \in 1..h)
    <3>1. CASE j \in 1..n
      BY <1>1, <1>2, <3>1
    <3>2. CASE j - n \in 1..h /\ n + (j - n) = j
      <4>1. A[j - n][i].so = o
        BY <1>2, <2>1, <2>2, <3>2
      <4>. QED
        BY <1>1, <1>4, <3>2, <4>1 DEF Without
    <3>3. CASE j - n - h \in 1..h /\ n + h + (j - n - h) = j
      <4>. DEFINE k == j - n - h
      <4>1. k \in 1..h /\ j = n + h + k /\ ~ (j <= n) /\ j - h = n + k
        BY <1>1, <3>3
      <4>2. p[j] = n + k
        BY <1>2, <4>1
      <4>. HIDE DEF k, p
      <4>3. Q[j] = t.backup.rows[k] /\ N[n + k] = t.backup.rows[k] /\ n + k \in 1..Len(N)
        BY <1>1, <1>2, <1>4, <4>1
      <4>. QED
        BY <3>3, <4>2, <4>3
    <3>. QED
      BY <1>2, <1>3, <3>1, <3>2, <3>3
  <2>3. ASSUME NEW j \in 1..Len(Q), NEW l \in 1..Len(Q), j < l,
               j <= n \/ j - n - h \in 1..h, l <= n \/ l - n - h \in 1..h
        PROVE  p[j] < p[l]
    BY <1>1, <1>2, <2>3
  <2>. HIDE DEF p
  <2>4. Lie(p, Q, N, o)
    BY <2>2, <2>3 DEF Lie
  <2>. QED
    BY <1>1, <1>2, <1>4, <2>4, LieShows
<1>5. ASSUME ~ t.alternate, Shows(N, o, url), Without(A, o) PROVE Shows(Q, o, url)
  <2>. DEFINE p == [j \in 1..(n + h + h) |-> j]
  <2>1. A = t.backup.rows
    BY <1>5 DEF OtherRows, A
  <2>2. ASSUME NEW j \in 1..Len(Q), NEW i \in 1..Width, Q[j][i].so = o
        PROVE  p[j] \in 1..Len(N) /\ N[p[j]] = Q[j]
    <3>1. CASE j \in 1..n
      BY <1>1, <1>2, <3>1
    <3>2. CASE j - n \in 1..h /\ n + (j - n) = j
      <4>. DEFINE k == j - n
      <4>1. k \in 1..h /\ j = n + k /\ p[j] = j
        BY <1>1, <1>2, <3>2
      <4>. HIDE DEF k, p
      <4>2. Q[j] = t.rows[k] /\ N[j] = t.rows[k] /\ j \in 1..Len(N)
        BY <1>1, <1>2, <1>5, <4>1
      <4>. QED
        BY <4>1, <4>2
    <3>3. CASE j - n - h \in 1..h /\ n + h + (j - n - h) = j
      <4>1. A[j - n - h][i].so = o
        BY <1>2, <2>1, <2>2, <3>3
      <4>. QED
        BY <1>1, <1>5, <3>3, <4>1 DEF Without
    <3>. QED
      BY <1>2, <1>3, <3>1, <3>2, <3>3
  <2>3. \A j \in 1..Len(Q) : p[j] = j
    BY <1>2
  <2>. HIDE DEF p
  <2>4. Lie(p, Q, N, o)
    BY <2>2, <2>3 DEF Lie
  <2>. QED
    BY <1>1, <1>2, <1>5, <2>4, LieShows
<1>6. ASSUME Without(N, o), Shows(A, o, url) PROVE Shows(Q, o, url)
  <2>. DEFINE d == IF t.alternate THEN n ELSE n + h
              p == [j \in 1..(n + h + h) |-> j - d]
  <2>1. A = IF t.alternate THEN t.rows ELSE t.backup.rows
    BY DEF OtherRows, A
  <2>2. ASSUME NEW j \in 1..Len(Q), NEW i \in 1..Width, Q[j][i].so = o
        PROVE  j - d \in 1..Len(A) /\ A[j - d] = Q[j]
    <3>1. CASE j \in 1..n
      BY <1>1, <1>2, <1>6, <2>2, <3>1 DEF Without
    <3>2. CASE j - n \in 1..h /\ n + (j - n) = j
      <4>. DEFINE k == j - n
      <4>1. k \in 1..h /\ j = n + k
        BY <1>1, <3>2
      <4>. HIDE DEF k
      <4>2. Q[j] = t.rows[k] /\ n + k \in 1..(n + h)
        BY <1>1, <1>2, <4>1
      <4>3. t.alternate
        <5>. SUFFICES ASSUME ~ t.alternate PROVE FALSE
          OBVIOUS
        <5>1. N[n + k] = t.rows[k]
          BY <1>1, <4>1
        <5>. QED
          BY <1>1, <1>6, <2>2, <4>2, <5>1 DEF Without
      <4>4. j - d = k
        BY <1>1, <4>1, <4>3
      <4>. QED
        BY <1>1, <2>1, <4>1, <4>2, <4>3, <4>4
    <3>3. CASE j - n - h \in 1..h /\ n + h + (j - n - h) = j
      <4>. DEFINE k == j - n - h
      <4>1. k \in 1..h /\ j = n + h + k
        BY <1>1, <3>3
      <4>. HIDE DEF k
      <4>2. Q[j] = t.backup.rows[k] /\ n + k \in 1..(n + h)
        BY <1>1, <1>2, <4>1
      <4>3. ~ t.alternate
        <5>. SUFFICES ASSUME t.alternate PROVE FALSE
          OBVIOUS
        <5>1. N[n + k] = t.backup.rows[k]
          BY <1>1, <4>1
        <5>. QED
          BY <1>1, <1>6, <2>2, <4>2, <5>1 DEF Without
      <4>4. j - d = k
        BY <1>1, <4>1, <4>3
      <4>. QED
        BY <1>1, <2>1, <4>1, <4>2, <4>3, <4>4
    <3>. QED
      BY <1>2, <1>3, <3>1, <3>2, <3>3
  <2>3. d \in Nat
    BY <1>1
  <2>4. \A j \in 1..Len(Q) : p[j] = j - d
    BY <1>2
  <2>. HIDE DEF p, d
  <2>5. \A j \in 1..Len(Q) : \A l \in 1..Len(Q) : j < l => p[j] < p[l]
    BY <1>1, <1>2, <2>3, <2>4
  <2>6. Lie(p, Q, A, o)
    BY <2>2, <2>4, <2>5 DEF Lie
  <2>. QED
    BY <1>1, <1>2, <1>6, <2>6, LieShows
<1>7. OnOne(N, A, o, url)
  BY DEF N, A
<1>8. Shows(Q, o, url)
  BY <1>4, <1>5, <1>6, <1>7 DEF OnOne
<1>. QED
  BY <1>8 DEF Q

\* The cells of s are some of the first n rows of R, in the order of the screen:
\* p and q say in which row and column.
FromRows(p, q, s, R, n) ==
  \A k \in 1..Len(s) :
    /\ p[k] \in 1..n /\ q[k] \in 1..Width /\ s[k] = R[p[k]][q[k]]
    /\ \A l \in 1..Len(s) : k < l => Earlier(p[k], q[k], p[l], q[l])

InOrder(s, R, n) == \E p, q : FromRows(p, q, s, R, n)

\* One more row comes behind those before it.
LEMMA RowFollows ==
  ASSUME NEW R, NEW n \in Nat, NEW s \in Seq(Cells), InOrder(s, R, n), R[n + 1] \in Rows, Width \in Nat
  PROVE  InOrder(Cat(s, R[n + 1]), R, n + 1)
<1>1. PICK p, q : FromRows(p, q, s, R, n)
  BY DEF InOrder
<1>. DEFINE m == Len(s)
            row == R[n + 1]
            c == Cat(s, row)
            P == [k \in 1..(m + Width) |-> IF k <= m THEN p[k] ELSE n + 1]
            Q == [k \in 1..(m + Width) |-> IF k <= m THEN q[k] ELSE k - m]
<1>2. row \in Seq(Cells) /\ Len(row) = Width
  BY RowFacts DEF Rows
<1>. HIDE DEF row
<1>3. /\ m \in Nat /\ Len(c) = m + Width
      /\ \A k \in 1..m : c[k] = s[k]
      /\ \A k \in (m + 1)..(m + Width) : k - m \in 1..Width /\ c[k] = row[k - m]
  BY <1>2, ConcatFacts DEF Cat
<1>. HIDE DEF m, c
<1>4. ASSUME NEW k \in 1..(m + Width)
      PROVE  \/ k \in 1..m /\ P[k] = p[k] /\ Q[k] = q[k]
             \/ k \in (m + 1)..(m + Width) /\ P[k] = n + 1 /\ Q[k] = k - m
  BY <1>3
<1>. HIDE DEF P, Q
<1>5. ASSUME NEW k \in 1..m
      PROVE  /\ p[k] \in 1..n /\ q[k] \in 1..Width /\ s[k] = R[p[k]][q[k]]
             /\ \A l \in 1..m : k < l => Earlier(p[k], q[k], p[l], q[l])
  BY <1>1 DEF FromRows, m
<1>6. ASSUME NEW k \in 1..(m + Width)
      PROVE  /\ P[k] \in 1..(n + 1) /\ Q[k] \in 1..Width /\ c[k] = R[P[k]][Q[k]]
             /\ \A l \in 1..(m + Width) : k < l => Earlier(P[k], Q[k], P[l], Q[l])
  <2>1. CASE k \in 1..m /\ P[k] = p[k] /\ Q[k] = q[k]
    <3>1. p[k] \in 1..n /\ q[k] \in 1..Width /\ c[k] = R[p[k]][q[k]]
      BY <1>3, <1>5, <2>1
    <3>2. ASSUME NEW l \in 1..(m + Width), k < l PROVE Earlier(P[k], Q[k], P[l], Q[l])
      <4>1. CASE l \in 1..m /\ P[l] = p[l] /\ Q[l] = q[l]
        BY <1>5, <2>1, <3>2, <4>1
      <4>2. CASE P[l] = n + 1
        BY <2>1, <3>1, <4>2 DEF Earlier
      <4>. QED
        BY <1>4, <4>1, <4>2
    <3>. QED
      BY <2>1, <3>1, <3>2
  <2>2. CASE k \in (m + 1)..(m + Width) /\ P[k] = n + 1 /\ Q[k] = k - m
    <3>1. k - m \in 1..Width /\ c[k] = row[k - m]
      BY <1>3, <2>2
    <3>2. ASSUME NEW l \in 1..(m + Width), k < l PROVE Earlier(P[k], Q[k], P[l], Q[l])
      <4>1. P[l] = n + 1 /\ Q[l] = l - m
        <5>1. l \notin 1..m
          BY <1>3, <2>2, <3>2
        <5>. QED
          BY <1>4, <5>1
      <4>. QED
        BY <1>3, <2>2, <3>2, <4>1 DEF Earlier
    <3>. QED
      BY <2>2, <3>1, <3>2 DEF row
  <2>. QED
    BY <1>4, <2>1, <2>2
<1>7. FromRows(P, Q, c, R, n + 1)
  BY <1>3, <1>6 DEF FromRows
<1>. QED
  BY <1>7 DEF InOrder, c, row

\* All the cells are in the order of the screen.
LEMMA CellsInOrder ==
  ASSUME NEW R \in Seq(Rows), Width \in Nat
  PROVE  FlattenSeq(R) \in Seq(Cells) /\ InOrder(FlattenSeq(R), R, Len(R))
<1>. DEFINE n == Len(R)
<1>1. n \in Nat /\ R \in Seq(Seq(Cells)) /\ \A i \in 1..n : R[i] \in Rows
  <2>1. n \in Nat /\ \A i \in 1..n : R[i] \in Rows
    OBVIOUS
  <2>2. Rows \subseteq Seq(Cells)
    BY RowFacts
  <2>. QED
    BY <2>1, <2>2
<1>2. PICK f \in [0..n -> Seq(Cells)] :
         /\ f[0] = << >> /\ (\A i \in 1..n : f[i] = Cat(f[i - 1], R[i])) /\ FlattenSeq(R) = f[n]
  BY <1>1, FlattenUnrolled
<1>. DEFINE T == {k \in 0..n : InOrder(f[k], R, k)}
<1>. HIDE DEF n
<1>3. 0 \in T
  <2>1. FromRows(<< >>, << >>, << >>, R, 0)
    BY DEF FromRows
  <2>2. InOrder(f[0], R, 0)
    BY <1>2, <2>1 DEF InOrder
  <2>. QED
    BY <1>1, <2>2
<1>4. ASSUME NEW k \in 1..n, k - 1 \in T PROVE k \in T
  <2>. DEFINE m == k - 1
  <2>1. m \in Nat /\ m + 1 = k /\ k \in 0..n /\ m \in 0..n
    BY <1>1
  <2>2. InOrder(f[m], R, m)
    BY <1>4
  <2>3. f[k] = Cat(f[m], R[k]) /\ f[m] \in Seq(Cells) /\ R[m + 1] \in Rows /\ R[m + 1] = R[k]
    BY <1>1, <1>2, <2>1
  <2>. HIDE DEF m
  <2>4. InOrder(Cat(f[m], R[m + 1]), R, m + 1)
    BY <2>1, <2>2, <2>3, RowFollows
  <2>. QED
    BY <2>1, <2>3, <2>4
<1>. HIDE DEF T
<1>5. n \in T
  BY <1>1, <1>3, <1>4, StepByStep
<1>6. InOrder(f[n], R, n) /\ f[n] \in Seq(Cells)
  BY <1>1, <1>2, <1>5 DEF T
<1>. QED
  BY <1>2, <1>6 DEF n

\* The characters of text are those of cells of o among the first n of s, in
\* their order: g says which.
FromCells(g, text, s, o, n) ==
  \A i \in 1..Len(text) :
    /\ g[i] \in 1..n /\ s[g[i]].so = o /\ s[g[i]].c = text[i]
    /\ \A j \in 1..Len(text) : i < j => g[i] < g[j]

CharacterOf(c, o) == IF c.so = o THEN <<c.c>> ELSE << >>

\* One more cell may add its character.
LEMMA CellFollows ==
  ASSUME NEW s, NEW o, NEW n \in Nat, NEW text \in Seq(Characters), s[n + 1] \in Cells,
         NEW g, FromCells(g, text, s, o, n)
  PROVE  \E f : FromCells(f, Cat(text, CharacterOf(s[n + 1], o)), s, o, n + 1)
<1>. DEFINE m == Len(text)
            cell == s[n + 1]
            one == CharacterOf(cell, o)
<1>1. \A i \in 1..m : /\ g[i] \in 1..n /\ s[g[i]].so = o /\ s[g[i]].c = text[i]
                      /\ \A j \in 1..m : i < j => g[i] < g[j]
  BY DEF FromCells
<1>2. CASE cell.so # o
  <2>1. one = << >>
    BY <1>2 DEF CharacterOf
  <2>2. Cat(text, one) = text
    BY <2>1, CatFacts
  <2>3. FromCells(g, text, s, o, n + 1)
    BY <1>1 DEF FromCells
  <2>. QED
    BY <2>2, <2>3
<1>3. CASE cell.so = o
  <2>. DEFINE c == cell.c
              w == Append(text, c)
              f == [i \in 1..(m + 1) |-> IF i <= m THEN g[i] ELSE n + 1]
  <2>1. one = <<c>> /\ c \in Characters
    BY <1>3 DEF CharacterOf, Cells
  <2>. HIDE DEF c, one
  <2>2. Cat(text, one) = w
    BY <2>1 DEF Cat
  <2>3. Len(w) = m + 1 /\ m \in Nat /\ w[m + 1] = c /\ \A i \in 1..m : w[i] = text[i]
    BY <2>1
  <2>. HIDE DEF m, w
  <2>4. f[m + 1] = n + 1 /\ \A i \in 1..m : f[i] = g[i]
    BY <2>3
  <2>5. \A i \in 1..(m + 1) : i \in 1..m \/ i = m + 1
    BY <2>3
  <2>. HIDE DEF f
  <2>6. ASSUME NEW i \in 1..(m + 1)
        PROVE  /\ f[i] \in 1..(n + 1) /\ s[f[i]].so = o /\ s[f[i]].c = w[i]
               /\ \A j \in 1..(m + 1) : i < j => f[i] < f[j]
    <3>1. CASE i \in 1..m
      <4>1. g[i] \in 1..n /\ s[g[i]].so = o /\ s[g[i]].c = text[i] /\ f[i] = g[i]
        BY <1>1, <2>4, <3>1
      <4>2. ASSUME NEW j \in 1..(m + 1), i < j PROVE f[i] < f[j]
        <5>1. CASE j \in 1..m
          BY <1>1, <2>4, <3>1, <4>2, <5>1
        <5>2. CASE j = m + 1
          BY <2>4, <4>1, <5>2
        <5>. QED
          BY <2>5, <5>1, <5>2
      <4>. QED
        BY <2>3, <3>1, <4>1, <4>2
    <3>2. CASE i = m + 1
      <4>1. f[i] = n + 1 /\ w[i] = c /\ n + 1 \in 1..(n + 1)
        BY <2>3, <2>4, <3>2
      <4>2. s[f[i]].so = o /\ s[f[i]].c = c
        BY <1>3, <4>1 DEF c
      <4>3. \A j \in 1..(m + 1) : ~ (i < j)
        BY <2>3, <3>2
      <4>. QED
        BY <4>1, <4>2, <4>3
    <3>. QED
      BY <2>5, <3>1, <3>2
  <2>7. FromCells(f, w, s, o, n + 1)
    BY <2>3, <2>6 DEF FromCells
  <2>8. Cat(text, CharacterOf(s[n + 1], o)) = w
    BY <2>2 DEF one
  <2>. QED
    BY <2>7, <2>8
<1>. QED
  BY <1>2, <1>3

\* What TextOf() makes of the cells s.
CharactersOf(s, o) == FlattenSeq([k \in DOMAIN s |-> IF s[k].so = o THEN <<s[k].c>> ELSE << >>])

\* It is the characters of the cells of o, in their order.
LEMMA TextFromCells ==
  ASSUME NEW s \in Seq(Cells), NEW o
  PROVE  CharactersOf(s, o) \in Seq(Characters) /\ \E g : FromCells(g, CharactersOf(s, o), s, o, Len(s))
<1>. DEFINE n == Len(s)
            q == [k \in DOMAIN s |-> IF s[k].so = o THEN <<s[k].c>> ELSE << >>]
<1>1. n \in Nat /\ DOMAIN s = 1..n /\ \A k \in 1..n : s[k] \in Cells
  OBVIOUS
<1>. HIDE DEF n
<1>2. /\ DOMAIN q = 1..n
      /\ \A k \in 1..n : q[k] = CharacterOf(s[k], o)
      /\ \A k \in 1..n : q[k] \in Seq(Characters)
  <2>1. DOMAIN q = 1..n /\ \A k \in 1..n : q[k] = CharacterOf(s[k], o)
    BY <1>1 DEF CharacterOf
  <2>2. ASSUME NEW c \in Cells PROVE CharacterOf(c, o) \in Seq(Characters)
    <3>1. c.c \in Characters
      BY DEF Cells
    <3>2. <<c.c>> \in Seq(Characters) /\ << >> \in Seq(Characters)
      BY <3>1
    <3>. QED
      BY <3>2 DEF CharacterOf
  <2>. HIDE DEF q
  <2>. QED
    BY <1>1, <2>1, <2>2
<1>3. CharactersOf(s, o) = FlattenSeq(q)
  BY DEF CharactersOf
<1>4. q = [k \in 1..n |-> q[k]]
  BY <1>2
<1>. HIDE DEF q
<1>5. q \in Seq(Seq(Characters)) /\ Len(q) = n
  BY <1>1, <1>2, <1>4
<1>6. PICK f \in [0..n -> Seq(Characters)] :
         /\ f[0] = << >> /\ (\A i \in 1..n : f[i] = Cat(f[i - 1], q[i])) /\ FlattenSeq(q) = f[n]
  BY <1>5, FlattenUnrolled
<1>. DEFINE T == {k \in 0..n : \E g : FromCells(g, f[k], s, o, k)}
<1>7. 0 \in T
  <2>1. FromCells(<< >>, << >>, s, o, 0)
    BY DEF FromCells
  <2>. QED
    BY <1>1, <1>6, <2>1
<1>8. ASSUME NEW k \in 1..n, k - 1 \in T PROVE k \in T
  <2>. DEFINE m == k - 1
  <2>1. m \in Nat /\ m + 1 = k /\ k \in 0..n /\ m \in 0..n
    BY <1>1
  <2>2. PICK g : FromCells(g, f[m], s, o, m)
    BY <1>8
  <2>3. f[k] = Cat(f[m], CharacterOf(s[m + 1], o)) /\ f[m] \in Seq(Characters) /\ s[m + 1] \in Cells
    BY <1>1, <1>2, <1>6, <2>1
  <2>. HIDE DEF m
  <2>4. \E h : FromCells(h, Cat(f[m], CharacterOf(s[m + 1], o)), s, o, m + 1)
    BY <2>1, <2>2, <2>3, CellFollows
  <2>. QED
    BY <2>1, <2>3, <2>4
<1>. HIDE DEF T
<1>9. n \in T
  BY <1>1, <1>7, <1>8, StepByStep
<1>10. (\E g : FromCells(g, f[n], s, o, n)) /\ f[n] \in Seq(Characters)
  BY <1>1, <1>6, <1>9 DEF T
<1>. QED
  BY <1>3, <1>6, <1>10 DEF n

\* A link that shows its address shows text of it.
LEMMA ShowsText ==
  ASSUME NEW R \in Seq(Rows), NEW o, NEW url \in Seq(Characters), Shows(R, o, url), Width \in Nat
  PROVE  IsSubsequence(CharactersOf(FlattenSeq(R), o), url)
<1>. DEFINE s == FlattenSeq(R)
            text == CharactersOf(s, o)
            n == Len(R)
<1>1. s \in Seq(Cells) /\ InOrder(s, R, n)
  BY CellsInOrder
<1>2. PICK p, q : FromRows(p, q, s, R, n)
  BY <1>1 DEF InOrder
<1>3. text \in Seq(Characters) /\ \E g : FromCells(g, text, s, o, Len(s))
  BY <1>1, TextFromCells
<1>4. PICK g : FromCells(g, text, s, o, Len(s))
  BY <1>3
<1>5. PICK f : ShowsAs(f, R, o, url)
  BY DEF Shows
<1>6. /\ url \in Seq(Characters) /\ Len(url) \in Nat /\ DOMAIN url = 1..Len(url) /\ Len(text) \in Nat
  <2>. HIDE DEF text
  <2>. QED
    BY <1>3
<1>. HIDE DEF s, text, n
<1>. DEFINE e == [i \in 1..Len(text) |-> f[p[g[i]]][q[g[i]]]]
<1>7. \A i \in 1..Len(text) : e[i] = f[p[g[i]]][q[g[i]]]
  OBVIOUS
<1>. HIDE DEF e
<1>8. ASSUME NEW i \in 1..Len(text)
      PROVE  /\ e[i] \in 1..Len(url) /\ url[e[i]] = text[i]
             /\ \A j \in 1..Len(text) : i < j => e[i] < e[j]
  <2>. DEFINE k == g[i]
  <2>1. /\ k \in 1..Len(s) /\ s[k].so = o /\ s[k].c = text[i]
        /\ \A j \in 1..Len(text) : i < j => k < g[j]
    BY <1>4 DEF FromCells
  <2>2. /\ p[k] \in 1..n /\ q[k] \in 1..Width /\ s[k] = R[p[k]][q[k]]
        /\ \A l \in 1..Len(s) : k < l => Earlier(p[k], q[k], p[l], q[l])
    BY <1>2, <2>1 DEF FromRows
  <2>3. e[i] = f[p[k]][q[k]]
    BY <1>7
  <2>. HIDE DEF k
  <2>4. /\ f[p[k]][q[k]] \in 1..Len(url) /\ url[f[p[k]][q[k]]] = R[p[k]][q[k]].c
        /\ \A l \in 1..n : \A m \in 1..Width :
             R[l][m].so = o /\ Earlier(p[k], q[k], l, m) => f[p[k]][q[k]] < f[l][m]
    BY <1>5, <2>1, <2>2 DEF ShowsAs, n
  <2>5. ASSUME NEW j \in 1..Len(text), i < j PROVE e[i] < e[j]
    <3>. DEFINE l == g[j]
    <3>1. l \in 1..Len(s) /\ s[l].so = o /\ k < l
      BY <1>4, <2>1, <2>5 DEF FromCells
    <3>2. e[j] = f[p[l]][q[l]]
      BY <1>7
    <3>. HIDE DEF l
    <3>3. p[l] \in 1..n /\ q[l] \in 1..Width /\ s[l] = R[p[l]][q[l]]
      BY <1>2, <3>1 DEF FromRows
    <3>4. Earlier(p[k], q[k], p[l], q[l])
      BY <2>2, <3>1
    <3>. QED
      BY <2>3, <2>4, <3>1, <3>2, <3>3, <3>4
  <2>. QED
    BY <2>1, <2>2, <2>3, <2>4, <2>5
<1>9. PickedBy(e, text, url)
  BY <1>8 DEF PickedBy
<1>10. IsSubsequence(text, url)
  BY <1>6, <1>9, PickedIsSubsequence
<1>. QED
  BY <1>10 DEF text, s

\* Then a link leads where the text says.
LEMMA ShownImplies ==
  ASSUME LinksInv, Shown(Now)
  PROVE  LinkedAsShown
<1>1. SUFFICES ASSUME NEW o \in Objects, o \notin mixed, heap[o].live, heap[o].url \notin Urls \cup {None}
               PROVE  IsUrl(heap[o].url) /\ IsSubsequence(TextOf(o), heap[o].url)
  BY DEF LinkedAsShown
<1>. DEFINE t == Now
            url == heap[o].url
<1>2. t \in Terminals /\ t.heap = heap /\ t.mixed = mixed /\ All = AllOf(t)
  BY DEF LinksInv, Good, Now, All, AllOf
<1>3. LinksShown(t)
  BY DEF Shown
<1>. HIDE DEF t
<1>4. IsUrl(url) /\ OnOne(NormalRows(t), OtherRows(t), o, url)
  BY <1>1, <1>2, <1>3 DEF LinksShown, FoundLink
<1>5. url \in Seq(Characters)
  <2>1. url \in Texts
    BY <1>2 DEF Terminals, Heaps
  <2>. QED
    BY <1>1, <2>1 DEF Texts
<1>6. All \in Seq(Rows)
  <2>1. t.history \in Seq(Rows) /\ t.rows \in Screens /\ t.backup.rows \in Screens
    BY <1>2 DEF Terminals
  <2>. QED
    BY <1>2, <2>1, AllCount
<1>7. Shows(All, o, url)
  BY <1>2, <1>4, AllShows
<1>8. TextOf(o) = CharactersOf(FlattenSeq(All), o)
  BY DEF TextOf, CharactersOf
<1>. QED
  BY <1>4, <1>5, <1>6, <1>7, <1>8, Sizes, ShowsText

\* A link that was found in the text leads where the text says, however its cells
\* are scrolled out, overwritten or taken to the other screen, and however lines
\* wrap within an address, if OSC 8 did not come in the middle of it.
THEOREM LinksShowText ==
  ASSUME EnoughObjects
  PROVE  Spec => []LinkedAsShown
<1>1. Init => LinksInv /\ Shown(Now)
  BY InitLinks, InitShown
<1>2. LinksInv /\ Shown(Now) /\ [Next]_vars => (LinksInv /\ Shown(Now))'
  BY NextLinks, NextShows
<1>3. LinksInv /\ Shown(Now) => LinkedAsShown
  BY ShownImplies
<1>. QED
  BY <1>1, <1>2, <1>3, PTL DEF Spec
=============================================================================
