-------------------------- MODULE FieldScanProofs ---------------------------
(***************************************************************************)
(* The scanning loops cut every text as the reference does, for every FS,  *)
(* every text and every size of the table at the start.                    *)
(*                                                                         *)
(* The reference takes all the separators of the text at once: the i-th    *)
(* piece lies between the i-th and the next of their places.  Its pieces   *)
(* are first unrolled from the left, as the loops find them (PiecesFirst,  *)
(* WordsNext, CharsNext); then ScanInv says that what is stored and what   *)
(* the reference makes of the rest are what it makes of the whole text.    *)
(***************************************************************************)
EXTENDS FieldScan, FiniteSetTheorems, FunctionTheorems, SequenceTheorems,
        WellFoundedInduction, TLAPS

\* A set of numbers that is not empty has a least one.
LEMMA LeastOf ==
  ASSUME NEW S, S \subseteq Nat, S # {}
  PROVE  \E n \in S : \A m \in S : n <= m
<1> DEFINE R == {ss \in Nat \X Nat : ss[1] < ss[2]}
<1>1. IsWellFoundedOn(R, Nat)
  BY NatLessThanWellFounded DEF OpToRel
<1>2. PICK n \in S : \A y \in S : ~(<<y, n>> \in R)
  BY <1>1, WFMin
<1>3. ASSUME NEW y \in S PROVE n <= y
  <2>1. <<y, n>> \in Nat \X Nat /\ <<y, n>>[1] = y /\ <<y, n>>[2] = n
    OBVIOUS
  <2>2. ~(y < n)
    BY <2>1, <1>2
  <2> QED
    BY <2>2
<1> QED
  BY <1>3
-----------------------------------------------------------------------------
(* The table: the lengths it goes through.                                 *)
Grows(len, f) == f = [j \in Nat |-> IF j = 0 THEN len ELSE 2 * (f[j - 1] + 1)]

\* Iterating a function of numbers.
Iterates(g, a, n, f) == /\ f \in [0..n -> Nat] /\ f[0] = a
                        /\ \A i \in 0..n : i # 0 => f[i] = g[f[i - 1]]

LEMMA IteratesOne ==
  ASSUME NEW g \in [Nat -> Nat], NEW a \in Nat, NEW n \in Nat
  PROVE  \E f : Iterates(g, a, n, f)
<1> DEFINE Bad == {k \in Nat : ~\E f : Iterates(g, a, k, f)}
<1> SUFFICES ASSUME Bad # {} PROVE FALSE
  OBVIOUS
<1>1. PICK k \in Bad : \A m \in Bad : k <= m
  BY LeastOf
<1>2. CASE k = 0
  <2>1. Iterates(g, a, 0, [i \in 0..0 |-> a])
    BY DEF Iterates
  <2> QED
    BY <1>1, <1>2, <2>1
<1>3. CASE k # 0
  <2>1. k - 1 \in Nat /\ ~(k <= k - 1)
    BY <1>3
  <2>2. PICK h : Iterates(g, a, k - 1, h)
    BY <1>1, <2>1
  <2> DEFINE f == [i \in 0..k |-> IF i = k THEN g[h[k - 1]] ELSE h[i]]
  <2>3. h \in [0..(k - 1) -> Nat] /\ h[0] = a /\ \A i \in 0..(k - 1) : i # 0 => h[i] = g[h[i - 1]]
    BY <2>2 DEF Iterates
  <2>4. f \in [0..k -> Nat] /\ f[0] = a
    <3>1. k - 1 \in 0..(k - 1) /\ 0 \in 0..k /\ \A i \in 0..k : i # k => i \in 0..(k - 1)
      BY <2>1
    <3>2. g[h[k - 1]] \in Nat
      BY <2>3, <3>1
    <3> QED
      BY <1>3, <2>3, <3>1, <3>2
  <2>5. ASSUME NEW i \in 0..k, i # 0 PROVE f[i] = g[f[i - 1]]
    <3>1. i - 1 \in 0..(k - 1) /\ i - 1 # k /\ i - 1 \in 0..k /\ (i # k => i \in 0..(k - 1))
      BY <2>5, <1>3
    <3>2. f[i - 1] = h[i - 1]
      BY <3>1
    <3> QED
      BY <2>3, <2>5, <3>1, <3>2
  <2>6. Iterates(g, a, k, f)
    BY <2>4, <2>5 DEF Iterates
  <2> QED
    BY <1>1, <2>6
<1> QED
  BY <1>2, <1>3

LEMMA IteratesAgree ==
  ASSUME NEW g \in [Nat -> Nat], NEW a \in Nat, NEW n \in Nat, NEW f, NEW h,
         Iterates(g, a, n, f), Iterates(g, a, n + 1, h)
  PROVE  h[n] = f[n]
<1> DEFINE Bad == {i \in 0..n : h[i] # f[i]}
<1> SUFFICES ASSUME Bad # {} PROVE FALSE
  BY DEF Bad
<1>1. PICK k \in Bad : \A i \in Bad : k <= i
  <2>1. Bad \subseteq Nat
    OBVIOUS
  <2> QED
    BY <2>1, LeastOf
<1>2. k # 0
  BY <1>1 DEF Iterates
<1>3. k \in 0..n /\ k \in 0..(n + 1) /\ k - 1 \in 0..n /\ ~(k <= k - 1)
  BY <1>1, <1>2
<1>4. h[k - 1] = f[k - 1]
  BY <1>1, <1>3
<1> QED
  BY <1>1, <1>2, <1>3, <1>4 DEF Iterates

LEMMA SizesAre ==
  ASSUME NEW len \in Nat
  PROVE  /\ Sizes(len) \in [Nat -> Nat]
         /\ Sizes(len)[0] = len
         /\ \A j \in Nat : Sizes(len)[j + 1] = 2 * (Sizes(len)[j] + 1)
<1> DEFINE g == [n \in Nat |-> 2 * (n + 1)]
           run(n) == CHOOSE f : Iterates(g, len, n, f)
           f == [n \in Nat |-> run(n)[n]]
<1>1. g \in [Nat -> Nat] /\ \A n \in Nat : g[n] = 2 * (n + 1)
  OBVIOUS
<1> HIDE DEF g
<1>2. \A n \in Nat : Iterates(g, len, n, run(n))
  BY <1>1, IteratesOne
<1> HIDE DEF run
<1>3. \A n \in Nat : run(n) \in [0..n -> Nat] /\ run(n)[n] \in Nat
  BY <1>2 DEF Iterates
<1>4. f \in [Nat -> Nat]
  BY <1>3
<1>5. ASSUME NEW n \in Nat PROVE f[n] = IF n = 0 THEN len ELSE 2 * (f[n - 1] + 1)
  <2>1. CASE n = 0
    BY <1>2, <2>1 DEF Iterates
  <2>2. CASE n # 0
    <3>1. n - 1 \in Nat /\ n \in 0..n /\ (n - 1) + 1 = n
      BY <2>2
    <3>2. run(n)[n] = g[run(n)[n - 1]]
      BY <1>2, <2>2, <3>1 DEF Iterates
    <3>3. run(n)[n - 1] = run(n - 1)[n - 1]
      BY <1>1, <1>2, <3>1, IteratesAgree
    <3>4. f[n - 1] = run(n - 1)[n - 1] /\ f[n - 1] \in Nat /\ f[n] = run(n)[n]
      BY <1>3, <3>1
    <3> QED
      BY <1>1, <2>2, <3>2, <3>3, <3>4
  <2> QED
    BY <2>1, <2>2
<1>6. Grows(len, f)
  <2>1. f = [j \in Nat |-> f[j]]
    BY <1>4
  <2> HIDE DEF f
  <2> QED
    BY <1>5, <2>1 DEF Grows
<1>7. Sizes(len) = CHOOSE h : Grows(len, h)
  BY Zenon DEF Sizes, Grows
<1> DEFINE s == Sizes(len)
<1>8. Grows(len, s)
  BY <1>6, <1>7
<1> HIDE DEF s, f
<1>9. \A j \in Nat : s[j] = IF j = 0 THEN len ELSE 2 * (s[j - 1] + 1)
  BY <1>8 DEF Grows
<1>10. DOMAIN s = Nat /\ s = [j \in Nat |-> s[j]]
  BY <1>8 DEF Grows
<1>11. s[0] = len /\ \A j \in Nat : s[j + 1] = 2 * (s[j] + 1)
  <2>1. \A j \in Nat : j + 1 \in Nat /\ j + 1 # 0 /\ (j + 1) - 1 = j
    OBVIOUS
  <2> QED
    BY <1>9, <2>1
<1>12. \A j \in Nat : s[j] \in Nat
  <2> DEFINE Bad == {j \in Nat : s[j] \notin Nat}
  <2> SUFFICES ASSUME Bad # {} PROVE FALSE
    OBVIOUS
  <2>1. PICK k \in Bad : \A m \in Bad : k <= m
    BY LeastOf
  <2>2. k # 0 /\ k - 1 \in Nat /\ ~(k <= k - 1) /\ s[k] = 2 * (s[k - 1] + 1)
    BY <1>9, <1>11, <2>1
  <2>3. s[k - 1] \in Nat
    BY <2>1, <2>2
  <2> QED
    BY <2>1, <2>2, <2>3
<1> QED
  BY <1>10, <1>11, <1>12 DEF s

\* The length for k fields: the first one that is enough.
LEMMA SizeFor ==
  ASSUME NEW len \in Nat, NEW k \in Nat
  PROVE  \E j \in 0..k : /\ TableAfter(len, k) = Sizes(len)[j] /\ Sizes(len)[j] >= k
                         /\ \A i \in 0..j - 1 : Sizes(len)[i] < k
<1> DEFINE s == Sizes(len)
           Enough == {j \in Nat : s[j] >= k}
<1>1. s \in [Nat -> Nat] /\ s[0] = len /\ \A j \in Nat : s[j + 1] = 2 * (s[j] + 1)
  BY SizesAre
<1> HIDE DEF s
<1>2. \A j \in Nat : s[j] >= j
  <2> DEFINE Bad == {j \in Nat : ~(s[j] >= j)}
  <2> SUFFICES ASSUME Bad # {} PROVE FALSE
    OBVIOUS
  <2>1. PICK m \in Bad : \A n \in Bad : m <= n
    BY LeastOf
  <2>2. m # 0
    BY <1>1, <2>1
  <2>3. m - 1 \in Nat /\ ~(m <= m - 1) /\ (m - 1) + 1 = m /\ m - 1 \notin Bad
    BY <2>1, <2>2
  <2>4. s[m] = 2 * (s[m - 1] + 1) /\ s[m - 1] \in Nat /\ s[m - 1] >= m - 1
    BY <1>1, <2>3
  <2> QED
    BY <2>1, <2>3, <2>4
<1>3. k \in Enough
  BY <1>2
<1>4. PICK j \in Enough : \A m \in Enough : j <= m
  BY <1>3, LeastOf
<1>5. j \in 0..k /\ s[j] >= k /\ \A i \in 0..j - 1 : s[i] < k
  <2>1. ASSUME NEW i \in 0..j - 1 PROVE s[i] < k
    <3>1. i \in Nat /\ ~(j <= i) /\ s[i] \in Nat
      BY <1>1
    <3>2. i \notin Enough
      BY <1>4, <3>1
    <3> QED
      BY <3>1, <3>2
  <2> QED
    BY <1>3, <1>4, <2>1
<1> DEFINE spare == {i \in k + 1 .. 2 * k : \A m \in 1..k : s[m] >= k => i <= s[m]}
<1>6. TableAfter(len, k) = IF k <= len THEN len ELSE k + Cardinality(spare)
  BY DEF TableAfter, s
<1>7. CASE k <= len
  <2>1. j = 0
    <3>1. j # 0 => 0 \in 0..j - 1
      BY <1>5
    <3> QED
      BY <1>1, <1>5, <1>7, <3>1
  <2> QED
    BY <1>1, <1>5, <1>6, <1>7, <2>1 DEF s
<1>8. CASE ~(k <= len)
  <2>1. j # 0 /\ j - 1 \in Nat /\ j - 1 \in 0..j - 1 /\ (j - 1) + 1 = j /\ j \in 1..k
        /\ s[j] \in Nat
    BY <1>1, <1>5, <1>8
  <2>2. s[j] = 2 * (s[j - 1] + 1) /\ s[j - 1] < k /\ s[j - 1] \in Nat
    BY <1>1, <1>5, <2>1
  <2>3. s[j] <= 2 * k
    BY <2>2
  <2>4. ASSUME NEW m \in 1..k, s[m] >= k PROVE s[j] <= s[m]
    <3> DEFINE Bad == {n \in Nat : n >= j /\ ~(s[j] <= s[n])}
    <3>1. Bad = {}
      <4> SUFFICES ASSUME Bad # {} PROVE FALSE
        OBVIOUS
      <4>1. PICK n \in Bad : \A i \in Bad : n <= i
        BY LeastOf
      <4>2. n # j
        BY <2>1, <4>1
      <4>3. n - 1 \in Nat /\ n - 1 >= j /\ ~(n <= n - 1) /\ (n - 1) + 1 = n /\ n - 1 \notin Bad
        BY <2>1, <4>1, <4>2
      <4>4. s[n] = 2 * (s[n - 1] + 1) /\ s[n - 1] \in Nat /\ s[j] <= s[n - 1]
        BY <1>1, <4>3
      <4> QED
        BY <2>1, <4>1, <4>4
    <3>2. m \in Nat /\ (m < j => m \in 0..j - 1) /\ s[m] \in Nat
      BY <1>1, <2>1
    <3>3. m >= j
      BY <1>5, <2>1, <2>4, <3>2
    <3> QED
      BY <3>1, <3>2, <3>3
  <2>5. spare = k + 1..s[j]
    <3>1. ASSUME NEW i \in spare PROVE i \in k + 1..s[j]
      BY <1>5, <2>1, <3>1
    <3>2. ASSUME NEW i \in k + 1..s[j] PROVE i \in spare
      <4>1. i \in k + 1..2 * k
        BY <2>1, <2>3
      <4>2. \A m \in 1..k : s[m] \in Nat
        BY <1>1
      <4>3. \A m \in 1..k : s[m] >= k => i <= s[m]
        BY <2>1, <2>4, <4>1, <4>2
      <4> QED
        BY <4>1, <4>3
    <3> QED
      BY <3>1, <3>2
  <2> HIDE DEF spare
  <2>6. Cardinality(k + 1..s[j]) = s[j] - k
    <3>1. Cardinality(k + 1..s[j]) = IF k + 1 > s[j] THEN 0 ELSE s[j] - (k + 1) + 1
      <4>1. k + 1 \in Int /\ s[j] \in Int
        BY <2>1
      <4> QED
        BY <4>1, FS_Interval
    <3> QED
      BY <1>5, <2>1, <3>1
  <2>7. TableAfter(len, k) = s[j]
    BY <1>6, <1>8, <2>1, <2>5, <2>6
  <2> QED
    BY <1>5, <2>7 DEF s
<1> QED
  BY <1>7, <1>8

LEMMA TableAfterTyped ==
  ASSUME NEW len \in Nat, NEW k \in Nat
  PROVE  TableAfter(len, k) \in Nat /\ TableAfter(len, k) >= k
<1>1. PICK j \in 0..k : TableAfter(len, k) = Sizes(len)[j] /\ Sizes(len)[j] >= k
  BY SizeFor
<1>2. Sizes(len) \in [Nat -> Nat] /\ j \in Nat
  BY SizesAre
<1> QED
  BY <1>1, <1>2

LEMMA TableStarts == ASSUME NEW len \in Nat PROVE TableAfter(len, 0) = len
<1>1. 0 \in Nat /\ \A j \in 0..0 : j = 0
  OBVIOUS
<1>2. PICK j \in 0..0 : TableAfter(len, 0) = Sizes(len)[j]
  BY <1>1, SizeFor
<1> QED
  BY <1>1, <1>2, SizesAre

\* One more field: the table grows once, and only when it is full.
LEMMA TableGrows ==
  ASSUME NEW len \in Nat, NEW k \in Nat
  PROVE  TableAfter(len, k + 1) = IF k + 1 > TableAfter(len, k)
                                    THEN Max2(2 * (TableAfter(len, k) + 1), k + 1)
                                    ELSE TableAfter(len, k)
<1> DEFINE s == Sizes(len)
<1>1. s \in [Nat -> Nat] /\ \A j \in Nat : s[j + 1] = 2 * (s[j] + 1)
  BY SizesAre
<1>2. PICK j \in 0..k : /\ TableAfter(len, k) = s[j] /\ s[j] >= k
                        /\ \A i \in 0..j - 1 : s[i] < k
  BY SizeFor
<1>3. PICK n \in 0..k + 1 : /\ TableAfter(len, k + 1) = s[n] /\ s[n] >= k + 1
                            /\ \A i \in 0..n - 1 : s[i] < k + 1
  <2>1. k + 1 \in Nat
    OBVIOUS
  <2> HIDE DEF s
  <2> QED
    BY <2>1, SizeFor DEF s
<1> HIDE DEF s
<1>4. CASE k + 1 > s[j]
  <2>1. j + 1 \in Nat /\ s[j] \in Nat /\ s[j + 1] = 2 * (s[j] + 1)
    BY <1>1
  <2>2. s[j + 1] >= k + 1 /\ Max2(s[j + 1], k + 1) = s[j + 1]
    BY <1>2, <2>1 DEF Max2
  <2>3. n = j + 1
    <3>1. ~(n > j + 1)
      <4>1. n > j + 1 => j + 1 \in 0..n - 1
        BY <1>3
      <4> QED
        BY <1>3, <2>1, <2>2, <4>1
    <3>2. ~(n < j)
      <4>1. n < j => n \in 0..j - 1 /\ s[n] \in Nat
        BY <1>1, <1>3
      <4> QED
        BY <1>2, <1>3, <4>1
    <3>3. n # j
      BY <1>3, <1>4, <2>1
    <3> QED
      BY <3>1, <3>2, <3>3
  <2> QED
    BY <1>2, <1>3, <1>4, <2>1, <2>2, <2>3
<1>5. CASE ~(k + 1 > s[j])
  <2>1. s[j] \in Nat /\ s[j] >= k + 1
    BY <1>1, <1>5
  <2>2. ~(n > j)
    <3>1. n > j => j \in 0..n - 1
      BY <1>3
    <3> QED
      BY <1>3, <2>1, <3>1
  <2>3. ~(n < j)
    <3>1. n < j => n \in 0..j - 1 /\ s[n] \in Nat
      BY <1>1, <1>3
    <3> QED
      BY <1>2, <1>3, <3>1
  <2>4. n = j
    BY <2>2, <2>3
  <2> QED
    BY <1>2, <1>3, <1>5, <2>4
<1> QED
  BY <1>4, <1>5
-----------------------------------------------------------------------------
(* The elements of a set of numbers, in their order.                       *)
Below(A, p) == {q \in A : q < p}

LEMMA BelowIs ==
  ASSUME NEW A, A \subseteq Nat, NEW p
  PROVE  /\ Below(A, p) \subseteq A
         /\ \A q \in A : q \in Nat /\ (q \in Below(A, p) <=> q < p)
BY DEF Below

LEMMA NthBy ==
  ASSUME NEW A, IsFiniteSet(A), A \subseteq Nat, NEW p \in A
  PROVE  Nth(A, Cardinality(Below(A, p))) = p
<1> DEFINE i == Cardinality(Below(A, p))
<1>1. ASSUME NEW r \in A, NEW q \in A, r < q, Cardinality(Below(A, r)) = Cardinality(Below(A, q))
      PROVE  FALSE
  <2>1. Below(A, r) \subseteq Below(A, q) /\ r \in Below(A, q) /\ r \notin Below(A, r)
    <3>1. r \in Nat /\ q \in Nat /\ ~(r < r)
      OBVIOUS
    <3>2. ASSUME NEW m \in Below(A, r) PROVE m \in Below(A, q)
      <4>1. m \in A /\ m \in Nat /\ m < r
        BY BelowIs
      <4>2. m < q
        BY <1>1, <3>1, <4>1
      <4> QED
        BY <4>1, <4>2, BelowIs
    <3> QED
      BY <1>1, <3>1, <3>2, BelowIs
  <2>2. IsFiniteSet(Below(A, q)) /\ IsFiniteSet(Below(A, r))
    BY FS_Subset DEF Below
  <2>3. Below(A, r) = Below(A, q)
    BY <1>1, <2>1, <2>2, FS_Subset
  <2> QED
    BY <2>1, <2>3
<1>2. ASSUME NEW q \in A, Cardinality(Below(A, q)) = i PROVE q = p
  <2>1. q < p \/ p < q \/ q = p
    OBVIOUS
  <2> QED
    BY <1>1, <1>2, <2>1
<1> HIDE DEF i
<1>3. Nth(A, i) = CHOOSE q \in A : Cardinality(Below(A, q)) = i
  BY Zenon DEF Nth, Below
<1>4. (CHOOSE q \in A : Cardinality(Below(A, q)) = i) = p
  <2>1. Cardinality(Below(A, p)) = i
    BY DEF i
  <2> QED
    BY <1>2, <2>1
<1> QED
  BY <1>3, <1>4 DEF i

\* There is one for each number below the cardinality.
LEMMA NthIs ==
  ASSUME NEW A, IsFiniteSet(A), A \subseteq Nat, NEW i \in Nat, i < Cardinality(A)
  PROVE  Nth(A, i) \in A /\ Cardinality(Below(A, Nth(A, i))) = i
<1> DEFINE Bad == {k \in Nat : k < Cardinality(A) /\ ~\E p \in A : Cardinality(Below(A, p)) = k}
<1>1. Bad = {}
  <2> SUFFICES ASSUME Bad # {} PROVE FALSE
    OBVIOUS
  <2>1. PICK k \in Bad : \A m \in Bad : k <= m
    BY LeastOf
  <2>2. CASE k = 0
    <3>1. A # {}
      BY <2>1, <2>2, FS_EmptySet
    <3>2. PICK p \in A : \A m \in A : p <= m
      BY <3>1, LeastOf
    <3>3. Below(A, p) = {}
      <4>1. \A m \in A : ~(m < p)
        BY <3>2
      <4> QED
        BY <4>1 DEF Below
    <3> QED
      BY <2>1, <2>2, <3>3, FS_EmptySet
  <2>3. CASE k # 0
    <3>1. k - 1 \in Nat /\ ~(k <= k - 1) /\ Cardinality(A) \in Nat
      BY <2>3, FS_CardinalityType
    <3>2. PICK p \in A : Cardinality(Below(A, p)) = k - 1
      BY <2>1, <3>1
    <3> DEFINE Past == {q \in A : q > p}
    <3>3. Past # {}
      <4> SUFFICES ASSUME Past = {} PROVE FALSE
        OBVIOUS
      <4>1. A = Below(A, p) \cup {p}
        <5>1. \A q \in A : q < p \/ q = p
          OBVIOUS
        <5> QED
          BY <5>1 DEF Below
      <4>2. IsFiniteSet(Below(A, p)) /\ p \notin Below(A, p)
        BY FS_Subset DEF Below
      <4>3. Cardinality(A) = (k - 1) + 1
        BY <3>2, <4>1, <4>2, FS_AddElement
      <4> QED
        BY <2>1, <3>1, <4>3
    <3>4. PICK q \in Past : \A m \in Past : q <= m
      BY <3>3, LeastOf
    <3>5. Below(A, q) = Below(A, p) \cup {p}
      <4>1. ASSUME NEW r \in A PROVE r < q <=> r < p \/ r = p
        <5>1. r \in Nat /\ q \in Nat /\ p \in Nat /\ q > p
          OBVIOUS
        <5>2. r > p => q <= r
          BY <3>4
        <5> QED
          BY <5>1, <5>2
      <4> QED
        BY <4>1 DEF Below
    <3>6. IsFiniteSet(Below(A, p)) /\ p \notin Below(A, p)
      BY FS_Subset DEF Below
    <3>7. Cardinality(Below(A, q)) = (k - 1) + 1
      <4>1. Cardinality(Below(A, p) \cup {p}) = Cardinality(Below(A, p)) + 1
        BY <3>6, FS_AddElement
      <4> QED
        BY <3>2, <3>5, <4>1
    <3> QED
      BY <2>1, <3>1, <3>4, <3>7
  <2> QED
    BY <2>2, <2>3
<1>2. PICK p \in A : Cardinality(Below(A, p)) = i
  BY <1>1
<1> QED
  BY <1>2, NthBy

\* Without the least one, the others come one earlier.
LEMMA NthRest ==
  ASSUME NEW A, IsFiniteSet(A), A \subseteq Nat, NEW a \in A, \A m \in A : a <= m
  PROVE  /\ Nth(A, 0) = a
         /\ Cardinality(A) = Cardinality(A \ {a}) + 1 /\ IsFiniteSet(A \ {a})
         /\ \A i \in Nat : i < Cardinality(A \ {a}) =>
              Nth(A, i + 1) = Nth(A \ {a}, i)
<1> DEFINE B == A \ {a}
<1>1. Nth(A, 0) = a
  <2>1. Below(A, a) = {}
    <3>1. \A m \in A : ~(m < a)
      OBVIOUS
    <3> QED
      BY <3>1 DEF Below
  <2> QED
    BY <2>1, NthBy, FS_EmptySet
<1>2. IsFiniteSet(B) /\ B \subseteq Nat /\ Cardinality(A) = Cardinality(B) + 1
  <2>1. A = B \cup {a} /\ a \notin B
    OBVIOUS
  <2>2. IsFiniteSet(B)
    BY FS_Subset
  <2> QED
    BY <2>1, <2>2, FS_AddElement
<1>3. ASSUME NEW i \in Nat, i < Cardinality(B) PROVE Nth(A, i + 1) = Nth(B, i)
  <2> DEFINE p == Nth(B, i)
  <2>1. p \in B /\ Cardinality(Below(B, p)) = i
    BY <1>2, <1>3, NthIs
  <2> HIDE DEF p
  <2>2. Below(A, p) = Below(B, p) \cup {a}
    <3>1. a < p
      BY <2>1
    <3> QED
      BY <3>1 DEF Below
  <2>3. IsFiniteSet(Below(B, p)) /\ a \notin Below(B, p)
    BY <1>2, FS_Subset DEF Below
  <2>4. Cardinality(Below(A, p)) = i + 1
    BY <2>1, <2>2, <2>3, FS_AddElement
  <2> HIDE DEF B
  <2>5. p \in A
    BY <2>1 DEF B
  <2>6. Nth(A, i + 1) = p
    BY <2>4, <2>5, NthBy
  <2> QED
    BY <2>6 DEF p
<1> QED
  BY <1>1, <1>2, <1>3

\* All of them moved by as much.
LEMMA NthShifted ==
  ASSUME NEW A, IsFiniteSet(A), A \subseteq Nat, NEW c \in Nat
  PROVE  LET B == {q + c : q \in A}
         IN  /\ IsFiniteSet(B) /\ Cardinality(B) = Cardinality(A)
             /\ \A i \in Nat : i < Cardinality(A) => Nth(B, i) = Nth(A, i) + c
<1> DEFINE Up(S) == {q + c : q \in S}
<1>1. ASSUME NEW S, S \subseteq Nat, IsFiniteSet(S)
      PROVE  IsFiniteSet(Up(S)) /\ Cardinality(Up(S)) = Cardinality(S)
  <2> DEFINE f == [q \in S |-> q + c]
  <2>1. f \in Bijection(S, Up(S))
    <3>1. f \in [S -> Up(S)]
      OBVIOUS
    <3>2. \A x, y \in S : f[x] = f[y] => x = y
      BY <1>1
    <3>3. \A y \in Up(S) : \E x \in S : f[x] = y
      OBVIOUS
    <3> QED
      BY <3>1, <3>2, <3>3, Fun_IsBij
  <2> QED
    BY <1>1, <2>1, FS_Bijection DEF ExistsBijection
<1>2. ASSUME NEW i \in Nat, i < Cardinality(A) PROVE Nth(Up(A), i) = Nth(A, i) + c
  <2> DEFINE p == Nth(A, i)
  <2>1. p \in A /\ Cardinality(Below(A, p)) = i
    BY <1>2, NthIs
  <2> HIDE DEF p
  <2>2. Below(Up(A), p + c) = Up(Below(A, p))
    BY <2>1 DEF Below
  <2>3. IsFiniteSet(Below(A, p)) /\ Below(A, p) \subseteq Nat
    BY FS_Subset DEF Below
  <2>4. Cardinality(Below(Up(A), p + c)) = i
    BY <1>1, <2>1, <2>2, <2>3
  <2>5. IsFiniteSet(Up(A)) /\ Up(A) \subseteq Nat /\ p + c \in Up(A)
    <3>1. \A q \in A : q + c \in Nat
      OBVIOUS
    <3> QED
      BY <1>1, <2>1, <3>1
  <2>6. Nth(Up(A), i) = p + c
    BY <2>4, <2>5, NthBy
  <2> QED
    BY <2>6 DEF p
<1> QED
  BY <1>1, <1>2
-----------------------------------------------------------------------------
(* Where a piece ends.                                                     *)
LEMMA StopIs ==
  ASSUME NEW T, NEW t \in Seq(T), NEW p \in 1..Len(t) + 1, NEW seps
  PROVE  /\ Stop(t, p, seps) \in p..Len(t) + 1
         /\ Stop(t, p, seps) = Len(t) + 1 \/ t[Stop(t, p, seps)] \in seps
         /\ \A r \in p..Stop(t, p, seps) - 1 : t[r] \notin seps
<1> DEFINE Ends == {q \in p..Len(t) + 1 : q = Len(t) + 1 \/ t[q] \in seps}
<1>1. Ends \subseteq Nat /\ Len(t) + 1 \in Ends
  OBVIOUS
<1>2. PICK q \in Ends : \A m \in Ends : q <= m
  <2> HIDE DEF Ends
  <2> QED
    BY <1>1, LeastOf
<1>3. \A r \in p..q - 1 : t[r] \notin seps
  <2>1. ASSUME NEW r \in p..q - 1 PROVE r \in p..Len(t) + 1 /\ ~(q <= r)
    OBVIOUS
  <2> QED
    BY <1>2, <2>1
<1>4. \E e \in p..Len(t) + 1 : /\ e = Len(t) + 1 \/ t[e] \in seps
                               /\ \A r \in p..e - 1 : t[r] \notin seps
  BY <1>2, <1>3
<1> QED
  BY <1>4 DEF Stop

LEMMA AfterTyped ==
  ASSUME NEW T, NEW t \in Seq(T), NEW q \in 1..Len(t) + 1
  PROVE  /\ After(t, q) \in Seq(T)
         /\ q <= Len(t) => Len(After(t, q)) = Len(t) - q
         /\ q = Len(t) + 1 => After(t, q) = <<>>
         /\ \A i \in 1..Len(t) - q : After(t, q)[i] = t[q + i]
<1>1. \A i \in q + 1..Len(t) : t[i] \in T
  OBVIOUS
<1>2. /\ SubSeq(t, q + 1, Len(t)) \in Seq(T)
      /\ Len(SubSeq(t, q + 1, Len(t))) = IF q + 1 <= Len(t) THEN Len(t) - (q + 1) + 1 ELSE 0
      /\ \A i \in 1..Len(t) - (q + 1) + 1 : SubSeq(t, q + 1, Len(t))[i] = t[q + 1 + i - 1]
  BY <1>1, SubSeqProperties
<1>3. q = Len(t) + 1 => SubSeq(t, q + 1, Len(t)) = <<>>
  BY SubSeqEmpty
<1>4. Len(t) \in Nat /\ q \in Nat
  OBVIOUS
<1>5. Len(t) - (q + 1) + 1 = Len(t) - q /\ \A i \in 1..Len(t) - q : q + 1 + i - 1 = q + i
  BY <1>4
<1>6. /\ After(t, q) \in Seq(T)
      /\ Len(After(t, q)) = IF q + 1 <= Len(t) THEN Len(t) - q ELSE 0
      /\ \A i \in 1..Len(t) - q : After(t, q)[i] = t[q + i]
  <2> DEFINE n == Len(t)
  <2>1. Len(t) = n
    OBVIOUS
  <2> HIDE DEF n
  <2> QED
    BY <1>2, <1>5, <2>1 DEF After
<1>7. q <= Len(t) => Len(After(t, q)) = Len(t) - q
  BY <1>4, <1>6
<1> QED
  BY <1>3, <1>6, <1>7 DEF After
-----------------------------------------------------------------------------
(* The pieces of a text, from its first one on.                            *)
LEMMA CutsAre ==
  ASSUME NEW T, NEW t \in Seq(T), NEW seps
  PROVE  /\ Cuts(t, seps) \subseteq 0..Len(t) + 1 /\ Cuts(t, seps) \subseteq Nat
         /\ IsFiniteSet(Cuts(t, seps)) /\ Cardinality(Cuts(t, seps)) \in Nat
         /\ 0 \in Cuts(t, seps) /\ Nth(Cuts(t, seps), 0) = 0
         /\ Cardinality(Cuts(t, seps)) = Cardinality(Cuts(t, seps) \ {0}) + 1
         /\ IsFiniteSet(Cuts(t, seps) \ {0})
<1>1. Cuts(t, seps) \subseteq 0..Len(t) + 1
  BY DEF Cuts
<1>2. IsFiniteSet(Cuts(t, seps)) /\ Cuts(t, seps) \subseteq Nat
  <2>1. IsFiniteSet(0..Len(t) + 1)
    BY FS_Interval
  <2> QED
    BY <1>1, <2>1, FS_Subset
<1>3. 0 \in Cuts(t, seps) /\ \A m \in Cuts(t, seps) : 0 <= m
  <2>1. 0 \in Cuts(t, seps)
    BY DEF Cuts
  <2> QED
    BY <1>1, <2>1
<1> QED
  BY <1>1, <1>2, <1>3, NthRest, FS_CardinalityType

LEMMA PiecesTyped ==
  ASSUME NEW T, NEW t \in Seq(T), NEW seps
  PROVE  /\ Pieces(t, seps) \in Seq(Seq(T))
         /\ Len(Pieces(t, seps)) = Cardinality(Cuts(t, seps)) - 1
         /\ \A i \in 1..Cardinality(Cuts(t, seps)) - 1 :
              Pieces(t, seps)[i] = SubSeq(t, Nth(Cuts(t, seps), i - 1) + 1,
                                             Nth(Cuts(t, seps), i) - 1)
<1> DEFINE at == Cuts(t, seps)
           n  == Cardinality(at) - 1
<1>1. IsFiniteSet(at) /\ at \subseteq 0..Len(t) + 1 /\ at \subseteq Nat /\ n \in Nat
      /\ n + 1 = Cardinality(at)
  <2>1. Cardinality(at \ {0}) \in Nat
    BY CutsAre, FS_CardinalityType
  <2> QED
    BY <2>1, CutsAre
<1>2. Pieces(t, seps) = [i \in 1..n |-> SubSeq(t, Nth(at, i - 1) + 1, Nth(at, i) - 1)]
  BY DEF Pieces
<1> HIDE DEF at, n
<1>3. ASSUME NEW i \in 1..n PROVE SubSeq(t, Nth(at, i - 1) + 1, Nth(at, i) - 1) \in Seq(T)
  <2>1. i - 1 \in Nat /\ i \in Nat /\ i - 1 < Cardinality(at) /\ i < Cardinality(at)
    BY <1>1
  <2>2. Nth(at, i - 1) \in 0..Len(t) + 1 /\ Nth(at, i) \in 0..Len(t) + 1
    BY <1>1, <2>1, NthIs
  <2>3. \A r \in Nth(at, i - 1) + 1..Nth(at, i) - 1 : t[r] \in T
    BY <2>2
  <2> QED
    BY <2>2, <2>3, SubSeqProperties
<1>4. Pieces(t, seps) \in [1..n -> Seq(T)]
  BY <1>2, <1>3
<1>5. Pieces(t, seps) \in Seq(Seq(T)) /\ Len(Pieces(t, seps)) = n
  BY <1>1, <1>4, IsASeq
<1>6. \A i \in 1..n : Pieces(t, seps)[i] = SubSeq(t, Nth(at, i - 1) + 1, Nth(at, i) - 1)
  BY <1>2
<1> QED
  BY <1>5, <1>6 DEF at, n

\* No separator: the text is the only piece.
LEMMA PiecesNone ==
  ASSUME NEW T, NEW t \in Seq(T), NEW seps, Stop(t, 1, seps) = Len(t) + 1
  PROVE  Pieces(t, seps) = <<t>>
<1> DEFINE A == Cuts(t, seps)
           e == Len(t) + 1
<1>1. \A r \in 1..Len(t) : t[r] \notin seps
  <2>1. 1 \in 1..Len(t) + 1 /\ (Len(t) + 1) - 1 = Len(t)
    OBVIOUS
  <2> QED
    BY <2>1, StopIs
<1>2. A = {0, e} /\ e \in Nat /\ e # 0
  BY <1>1 DEF Cuts
<1> HIDE DEF A, e
<1>3. IsFiniteSet({e}) /\ Nth({e}, 0) = e /\ Cardinality({e}) = 1
  <2>1. IsFiniteSet({e}) /\ Cardinality({e}) = 1
    BY FS_Singleton
  <2>2. \A m \in {e} : e <= m
    BY <1>2
  <2> QED
    BY <1>2, <2>1, <2>2, NthRest
<1>4. A \ {0} = {e}
  BY <1>2
<1>5. Nth(A, 0) = 0 /\ Nth(A, 1) = e /\ Cardinality(A) = 2
  <2>1. IsFiniteSet(A)
    BY CutsAre DEF A
  <2>2. A \subseteq Nat /\ 0 \in A /\ \A m \in A : 0 <= m
    BY <1>2
  <2>3. /\ Nth(A, 0) = 0 /\ Cardinality(A) = Cardinality({e}) + 1
        /\ \A i \in Nat : i < Cardinality({e}) => Nth(A, i + 1) = Nth({e}, i)
    <3>1. /\ Nth(A, 0) = 0 /\ Cardinality(A) = Cardinality(A \ {0}) + 1
          /\ \A i \in Nat : i < Cardinality(A \ {0}) => Nth(A, i + 1) = Nth(A \ {0}, i)
      BY <2>1, <2>2, NthRest
    <3> QED
      BY <1>4, <3>1
  <2>4. Nth(A, 0 + 1) = Nth({e}, 0)
    <3>1. 0 \in Nat /\ 0 < Cardinality({e})
      BY <1>3
    <3> QED
      BY <2>3, <3>1
  <2> QED
    BY <1>3, <2>3, <2>4
<1>6. Len(Pieces(t, seps)) = 1 /\ Pieces(t, seps) \in Seq(Seq(T))
      /\ Pieces(t, seps)[1] = SubSeq(t, 1, Len(t))
  <2>1. Cardinality(Cuts(t, seps)) - 1 = 1 /\ 1 \in 1..1 /\ 1 - 1 = 0
    BY <1>5 DEF A
  <2>2. Pieces(t, seps)[1] = SubSeq(t, Nth(A, 1 - 1) + 1, Nth(A, 1) - 1)
    BY <2>1, PiecesTyped DEF A
  <2>3. Nth(A, 1 - 1) + 1 = 1 /\ Nth(A, 1) - 1 = Len(t)
    BY <1>5, <2>1 DEF e
  <2> QED
    BY <2>1, <2>2, <2>3, PiecesTyped
<1>7. SubSeq(t, 1, Len(t)) = t
  BY SubSeqFull
<1> QED
  BY <1>6, <1>7

\* The first piece ends at the first separator, and the others are those of
\* the text after it.
LEMMA PiecesFirst ==
  ASSUME NEW T, NEW t \in Seq(T), NEW seps, Stop(t, 1, seps) <= Len(t)
  PROVE  Pieces(t, seps) = <<SubSeq(t, 1, Stop(t, 1, seps) - 1)>>
                             \o Pieces(After(t, Stop(t, 1, seps)), seps)
<1> DEFINE q == Stop(t, 1, seps)
           u == After(t, q)
           A == Cuts(t, seps)
           C == Cuts(u, seps)
<1>1. /\ q \in 1..Len(t) /\ t[q] \in seps
      /\ \A r \in 1..q - 1 : t[r] \notin seps
  <2>1. 1 \in 1..Len(t) + 1
    OBVIOUS
  <2> QED
    BY <2>1, StopIs
<1> HIDE DEF q
<1>2. u \in Seq(T) /\ Len(u) = Len(t) - q /\ \A i \in 1..Len(t) - q : u[i] = t[q + i]
  BY <1>1, AfterTyped
<1> HIDE DEF u
<1>3. A \ {0} = {x + q : x \in C}
  <2>1. A = {0, Len(t) + 1} \cup {p \in 1..Len(t) : t[p] \in seps}
    BY DEF Cuts
  <2>2. C = {0, Len(u) + 1} \cup {p \in 1..Len(u) : u[p] \in seps}
    BY DEF Cuts
  <2> HIDE DEF A, C
  <2>3. ASSUME NEW x \in C PROVE x + q \in A /\ x + q # 0
    <3>1. CASE x = 0
      BY <1>1, <2>1, <3>1
    <3>2. CASE x = Len(u) + 1
      <4>1. x + q = Len(t) + 1
        BY <1>1, <1>2, <3>2
      <4> QED
        BY <2>1, <4>1
    <3>3. CASE x \in 1..Len(u) /\ u[x] \in seps
      <4>1. q + x \in 1..Len(t) /\ t[q + x] \in seps /\ x + q = q + x
        BY <1>1, <1>2, <3>3
      <4> QED
        BY <2>1, <4>1
    <3> QED
      BY <2>2, <3>1, <3>2, <3>3
  <2>4. ASSUME NEW y \in A, y # 0 PROVE \E x \in C : y = x + q
    <3>1. CASE y = Len(t) + 1
      <4>1. y = (Len(u) + 1) + q
        BY <1>1, <1>2, <3>1
      <4> QED
        BY <2>2, <4>1
    <3>2. CASE y \in 1..Len(t) /\ t[y] \in seps /\ y = q
      <4>1. y = 0 + q
        BY <1>1, <3>2
      <4> QED
        BY <2>2, <4>1
    <3>3. CASE y \in 1..Len(t) /\ t[y] \in seps /\ y # q
      <4>1. ~(y < q)
        BY <1>1, <3>3
      <4>2. y - q \in 1..Len(u) /\ q + (y - q) = y /\ (y - q) + q = y
        BY <1>1, <1>2, <3>3, <4>1
      <4>3. u[y - q] \in seps
        BY <1>2, <3>3, <4>2
      <4> QED
        BY <2>2, <4>2, <4>3
    <3> QED
      BY <2>1, <2>4, <3>1, <3>2, <3>3
  <2> QED
    BY <2>3, <2>4
<1>4. /\ IsFiniteSet(C) /\ C \subseteq 0..Len(u) + 1 /\ C \subseteq Nat /\ Cardinality(C) \in Nat
      /\ Nth(C, 0) = 0 /\ Cardinality(C) = Cardinality(C \ {0}) + 1 /\ IsFiniteSet(C \ {0})
  BY <1>2, CutsAre
<1>5. /\ IsFiniteSet(A) /\ A \subseteq Nat /\ 0 \in A /\ \A m \in A : 0 <= m
      /\ Cardinality(A) = Cardinality(A \ {0}) + 1
      /\ Nth(A, 0) = 0
  <2>1. /\ A \subseteq 0..Len(t) + 1 /\ A \subseteq Nat /\ IsFiniteSet(A)
        /\ 0 \in A /\ Nth(A, 0) = 0
        /\ Cardinality(A) = Cardinality(A \ {0}) + 1
    BY CutsAre
  <2> QED
    BY <2>1
<1>6. \A i \in Nat : i < Cardinality(A \ {0}) => Nth(A, i + 1) = Nth(A \ {0}, i)
  <2> HIDE DEF A
  <2> QED
    BY <1>5, NthRest
<1> HIDE DEF A, C
<1>7. /\ Cardinality(A) = Cardinality(C) + 1
      /\ \A i \in Nat : i < Cardinality(C) => Nth(A, i + 1) = Nth(C, i) + q
  <2>1. q \in Nat
    BY <1>1
  <2>2. /\ Cardinality(A \ {0}) = Cardinality(C)
        /\ \A i \in Nat : i < Cardinality(C) => Nth(A \ {0}, i) = Nth(C, i) + q
    BY <1>3, <1>4, <2>1, NthShifted
  <2> QED
    BY <1>5, <1>6, <2>2
<1> DEFINE n == Cardinality(C) - 1
           P == Pieces(t, seps)
           Q == Pieces(u, seps)
<1>8. n \in Nat /\ n + 1 = Cardinality(C) /\ Cardinality(A) - 1 = n + 1
  <2>1. Cardinality(C \ {0}) \in Nat
    BY <1>4, FS_CardinalityType
  <2> QED
    BY <1>4, <1>7, <2>1
<1> HIDE DEF n
<1>9. /\ Q \in Seq(Seq(T)) /\ Len(Q) = n
      /\ \A i \in 1..n : Q[i] = SubSeq(u, Nth(C, i - 1) + 1, Nth(C, i) - 1)
  BY <1>2, PiecesTyped DEF n, C
<1>10. /\ P \in Seq(Seq(T)) /\ Len(P) = n + 1
       /\ \A i \in 1..n + 1 : P[i] = SubSeq(t, Nth(A, i - 1) + 1, Nth(A, i) - 1)
  BY <1>8, PiecesTyped DEF A
<1> HIDE DEF P, Q
<1>11. P[1] = SubSeq(t, 1, q - 1)
  <2>1. 1 \in 1..n + 1 /\ 1 - 1 = 0 /\ 0 \in Nat /\ 0 < Cardinality(C) /\ 0 + 1 = 1
    BY <1>8
  <2>2. Nth(A, 1) = 0 + q
    BY <1>4, <1>7, <2>1
  <2>3. Nth(A, 1) - 1 = q - 1 /\ Nth(A, 1 - 1) + 1 = 1
    BY <1>1, <1>5, <2>1, <2>2
  <2> QED
    BY <1>10, <2>1, <2>3
<1>12. ASSUME NEW i \in 1..n PROVE P[i + 1] = Q[i]
  <2>1. i \in Nat /\ i - 1 \in Nat /\ i < Cardinality(C) /\ i - 1 < Cardinality(C)
        /\ (i - 1) + 1 = i /\ i + 1 \in 1..n + 1 /\ (i + 1) - 1 = i
    BY <1>8
  <2> DEFINE a == Nth(C, i - 1)
             b == Nth(C, i)
  <2>2. a \in 0..Len(u) + 1 /\ b \in 0..Len(u) + 1
    BY <1>4, <2>1, NthIs
  <2>3. Nth(A, i) + 1 = a + q + 1 /\ Nth(A, i + 1) - 1 = b + q - 1
    <3>1. Nth(A, i) = a + q /\ Nth(A, i + 1) = b + q
      BY <1>7, <2>1
    <3> QED
      BY <1>1, <2>2, <3>1
  <2>4. P[i + 1] = SubSeq(t, a + q + 1, b + q - 1) /\ Q[i] = SubSeq(u, a + 1, b - 1)
    <3>1. P[i + 1] = SubSeq(t, Nth(A, i) + 1, Nth(A, i + 1) - 1)
      <4>1. P[i + 1] = SubSeq(t, Nth(A, (i + 1) - 1) + 1, Nth(A, i + 1) - 1)
        BY <1>10, <2>1
      <4> QED
        BY <2>1, <4>1
    <3>2. Q[i] = SubSeq(u, Nth(C, i - 1) + 1, Nth(C, i) - 1)
      BY <1>9
    <3> HIDE DEF a, b
    <3>3. P[i + 1] = SubSeq(t, a + q + 1, b + q - 1)
      BY Zenon, <2>3, <3>1
    <3> QED
      BY Zenon, <3>2, <3>3 DEF a, b
  <2> HIDE DEF a, b
  <2>5. SubSeq(t, a + q + 1, b + q - 1) = SubSeq(u, a + 1, b - 1)
    <3>1. CASE b - 1 < a + 1
      <4>1. b + q - 1 < a + q + 1 /\ a + q + 1 \in Int /\ b + q - 1 \in Int
            /\ a + 1 \in Int /\ b - 1 \in Int
        BY <1>1, <2>2, <3>1
      <4> QED
        BY <3>1, <4>1, SubSeqEmpty
    <3>2. CASE ~(b - 1 < a + 1)
      <4> DEFINE d == b - 1 - (a + 1) + 1
      <4>1. /\ q \in Nat /\ a \in Nat /\ b \in Nat /\ Len(t) \in Nat
            /\ a + q + 1 \in Int /\ b + q - 1 \in Int /\ a + 1 \in Int /\ b - 1 \in Int
            /\ b + q - 1 - (a + q + 1) + 1 = d /\ d \in Nat
            /\ a + q + 1 <= b + q - 1 /\ a + 1 <= b - 1
            /\ b - 1 - (a + 1) + 1 = d
        BY <1>1, <2>2, <3>2
      <4> HIDE DEF d
      <4>2. \A r \in a + q + 1..b + q - 1 : t[r] \in T
        <5>1. \A r \in a + q + 1..b + q - 1 : r \in 1..Len(t)
          BY <1>1, <1>2, <2>2
        <5> QED
          BY <5>1
      <4>3. \A r \in a + 1..b - 1 : u[r] \in T
        <5>1. \A r \in a + 1..b - 1 : r \in 1..Len(u)
          BY <1>2, <2>2
        <5> QED
          BY <1>2, <5>1
      <4>4. /\ SubSeq(t, a + q + 1, b + q - 1) \in Seq(T)
            /\ Len(SubSeq(t, a + q + 1, b + q - 1)) = d
            /\ \A r \in 1..d : SubSeq(t, a + q + 1, b + q - 1)[r] = t[a + q + 1 + r - 1]
        <5> DEFINE m == a + q + 1
                   k == b + q - 1
        <5>1. m \in Int /\ k \in Int /\ m <= k /\ k - m + 1 = d
          BY <4>1
        <5>2. \A r \in m..k : t[r] \in T
          BY Zenon, <4>2
        <5> HIDE DEF m, k
        <5>3. /\ SubSeq(t, m, k) \in Seq(T)
              /\ Len(SubSeq(t, m, k)) = IF m <= k THEN k - m + 1 ELSE 0
              /\ \A r \in 1..k - m + 1 : SubSeq(t, m, k)[r] = t[m + r - 1]
          BY <5>1, <5>2, SubSeqProperties
        <5>4. /\ SubSeq(t, m, k) \in Seq(T) /\ Len(SubSeq(t, m, k)) = d
              /\ \A r \in 1..d : SubSeq(t, m, k)[r] = t[m + r - 1]
          BY Zenon, <5>1, <5>3
        <5> QED
          BY Zenon, <5>4 DEF m, k
      <4>5. /\ SubSeq(u, a + 1, b - 1) \in Seq(T)
            /\ Len(SubSeq(u, a + 1, b - 1)) = d
            /\ \A r \in 1..d : SubSeq(u, a + 1, b - 1)[r] = u[a + 1 + r - 1]
        <5> DEFINE m == a + 1
                   k == b - 1
        <5>1. m \in Int /\ k \in Int /\ m <= k /\ k - m + 1 = d
          BY <4>1
        <5>2. \A r \in m..k : u[r] \in T
          BY Zenon, <4>3
        <5> HIDE DEF m, k
        <5>3. /\ SubSeq(u, m, k) \in Seq(T)
              /\ Len(SubSeq(u, m, k)) = IF m <= k THEN k - m + 1 ELSE 0
              /\ \A r \in 1..k - m + 1 : SubSeq(u, m, k)[r] = u[m + r - 1]
          BY <5>1, <5>2, SubSeqProperties
        <5>4. /\ SubSeq(u, m, k) \in Seq(T) /\ Len(SubSeq(u, m, k)) = d
              /\ \A r \in 1..d : SubSeq(u, m, k)[r] = u[m + r - 1]
          BY Zenon, <5>1, <5>3
        <5> QED
          BY Zenon, <5>4 DEF m, k
      <4>6. ASSUME NEW r \in 1..d PROVE t[a + q + 1 + r - 1] = u[a + 1 + r - 1]
        <5>1. a + 1 + r - 1 \in 1..Len(t) - q /\ a + q + 1 + r - 1 = q + (a + 1 + r - 1)
          BY <1>1, <1>2, <2>2, <4>1 DEF d
        <5> QED
          BY <1>2, <5>1
      <4>7. \A r \in 1..d : SubSeq(t, a + q + 1, b + q - 1)[r] = SubSeq(u, a + 1, b - 1)[r]
        BY <4>4, <4>5, <4>6
      <4> QED
        BY <4>4, <4>5, <4>7, SeqEqual
    <3> QED
      BY <3>1, <3>2
  <2> QED
    BY <2>4, <2>5
<1> DEFINE head == <<SubSeq(t, 1, q - 1)>>
<1>13. head \in Seq(Seq(T)) /\ Len(head) = 1 /\ head[1] = SubSeq(t, 1, q - 1)
  <2>1. SubSeq(t, 1, q - 1) \in Seq(T)
    <3>1. 1 \in Int /\ q - 1 \in Int /\ \A r \in 1..q - 1 : t[r] \in T
      BY <1>1
    <3> QED
      BY <3>1, SubSeqProperties
  <2> QED
    BY <2>1
<1> HIDE DEF head
<1>14. P = head \o Q
  <2>1. /\ head \o Q \in Seq(Seq(T)) /\ Len(head \o Q) = 1 + n
        /\ \A i \in 1..1 + n : (head \o Q)[i] = IF i <= 1 THEN head[i] ELSE Q[i - 1]
    <3>1. /\ head \o Q \in Seq(Seq(T)) /\ Len(head \o Q) = Len(head) + Len(Q)
          /\ \A i \in 1..Len(head) + Len(Q) :
               (head \o Q)[i] = IF i <= Len(head) THEN head[i] ELSE Q[i - Len(head)]
      BY <1>9, <1>13, ConcatProperties
    <3>2. Len(head) = 1 /\ Len(Q) = n
      BY <1>9, <1>13
    <3> QED
      BY Zenon, <3>1, <3>2
  <2>2. ASSUME NEW i \in 1..n + 1 PROVE P[i] = (head \o Q)[i]
    <3>1. i \in 1..1 + n
      BY <1>8
    <3>2. CASE i = 1
      <4>1. i <= 1 /\ (head \o Q)[i] = IF i <= 1 THEN head[i] ELSE Q[i - 1]
        BY <2>1, <3>1, <3>2
      <4>2. (head \o Q)[i] = head[i]
        BY <4>1
      <4> QED
        BY <1>11, <1>13, <3>2, <4>2
    <3>3. CASE i # 1
      <4>1. i - 1 \in 1..n /\ (i - 1) + 1 = i /\ ~(i <= 1)
        BY <1>8, <3>3
      <4> QED
        BY <1>12, <2>1, <3>1, <4>1
    <3> QED
      BY <3>2, <3>3
  <2>3. Len(head \o Q) = n + 1
    BY <1>8, <2>1
  <2> QED
    BY <1>10, <2>1, <2>2, <2>3, SeqEqual
<1> QED
  BY <1>14 DEF P, Q, head, u, q
-----------------------------------------------------------------------------
(* The pieces that are not empty.                                          *)
Full(s) == {i \in DOMAIN s : s[i] # <<>>}

LEMMA FullIs ==
  ASSUME NEW T, NEW s \in Seq(T)
  PROVE  /\ Full(s) \subseteq 1..Len(s) /\ Full(s) \subseteq Nat
         /\ IsFiniteSet(Full(s)) /\ Cardinality(Full(s)) \in Nat
         /\ \A i \in 1..Len(s) : i \in Full(s) <=> s[i] # <<>>
<1>1. Full(s) \subseteq 1..Len(s) /\ Full(s) \subseteq Nat
      /\ \A i \in 1..Len(s) : i \in Full(s) <=> s[i] # <<>>
  BY DEF Full
<1>2. IsFiniteSet(1..Len(s))
  BY FS_Interval
<1> QED
  BY <1>1, <1>2, FS_Subset, FS_CardinalityType

LEMMA NonEmptyTyped ==
  ASSUME NEW T, NEW s \in Seq(T)
  PROVE  /\ NonEmpty(s) \in Seq(T) /\ Len(NonEmpty(s)) = Cardinality(Full(s))
         /\ \A i \in 1..Cardinality(Full(s)) : NonEmpty(s)[i] = s[Nth(Full(s), i - 1)]
<1> DEFINE at == Full(s)
           n  == Cardinality(at)
<1>1. IsFiniteSet(at) /\ at \subseteq 1..Len(s) /\ at \subseteq Nat /\ n \in Nat
  BY FullIs
<1>2. NonEmpty(s) = [i \in 1..n |-> s[Nth(at, i - 1)]]
  BY DEF NonEmpty, Full
<1>3. n = Cardinality(at)
  OBVIOUS
<1> HIDE DEF at, n
<1>4. ASSUME NEW i \in 1..n PROVE s[Nth(at, i - 1)] \in T
  <2>1. i - 1 \in Nat /\ i - 1 < Cardinality(at)
    BY <1>1, <1>3
  <2>2. Nth(at, i - 1) \in 1..Len(s)
    BY <1>1, <2>1, NthIs
  <2> QED
    BY <2>2
<1>5. NonEmpty(s) \in [1..n -> T]
  BY <1>2, <1>4
<1>6. NonEmpty(s) \in Seq(T) /\ Len(NonEmpty(s)) = n
  BY <1>1, <1>5, IsASeq
<1>7. \A i \in 1..n : NonEmpty(s)[i] = s[Nth(at, i - 1)]
  BY <1>2
<1> QED
  BY <1>6, <1>7 DEF at, n

LEMMA NonEmptyNone == NonEmpty(<<>>) = <<>>
<1>1. <<>> \in Seq({}) /\ Len(<<>>) = 0
  BY EmptySeq
<1>2. Full(<<>>) = {}
  <2> DEFINE z == <<>>
  <2>1. z \in Seq({}) /\ 1..Len(z) = {}
    BY <1>1
  <2> HIDE DEF z
  <2>2. Full(z) = {}
    BY <2>1, FullIs
  <2> QED
    BY <2>2 DEF z
<1>3. Len(NonEmpty(<<>>)) = 0 /\ NonEmpty(<<>>) \in Seq({})
  BY <1>1, <1>2, NonEmptyTyped, FS_EmptySet
<1> QED
  BY <1>3, EmptySeq

LEMMA NonEmptyFirst ==
  ASSUME NEW T, NEW e \in T, NEW s \in Seq(T)
  PROVE  NonEmpty(<<e>> \o s) = IF e = <<>> THEN NonEmpty(s) ELSE <<e>> \o NonEmpty(s)
<1> DEFINE w == <<e>> \o s
           A == Full(w)
           C == Full(s)
           Up == {x + 1 : x \in C}
           n == Cardinality(C)
<1>1. /\ w \in Seq(T) /\ Len(w) = Len(s) + 1 /\ w[1] = e
      /\ \A i \in 1..Len(s) : w[i + 1] = s[i]
  <2>1. <<e>> \in Seq(T) /\ Len(<<e>>) = 1 /\ <<e>>[1] = e
    OBVIOUS
  <2> DEFINE h == <<e>>
  <2> HIDE DEF h
  <2>2. /\ h \o s \in Seq(T) /\ Len(h \o s) = Len(h) + Len(s)
        /\ \A i \in 1..Len(h) + Len(s) : (h \o s)[i] = IF i <= Len(h) THEN h[i] ELSE s[i - Len(h)]
    BY <2>1, ConcatProperties DEF h
  <2>3. Len(h) = 1 /\ h[1] = e
    BY <2>1 DEF h
  <2>4. (h \o s)[1] = e
    <3>1. 1 \in 1..Len(h) + Len(s) /\ 1 <= Len(h)
      BY <2>3
    <3> QED
      BY <2>2, <2>3, <3>1
  <2>5. ASSUME NEW i \in 1..Len(s) PROVE (h \o s)[i + 1] = s[i]
    <3>1. i + 1 \in 1..Len(h) + Len(s) /\ ~(i + 1 <= Len(h)) /\ (i + 1) - Len(h) = i
      BY <2>3
    <3> QED
      BY <2>2, <3>1
  <2> HIDE DEF w
  <2>6. w = h \o s
    BY DEF w, h
  <2> QED
    BY <2>2, <2>3, <2>4, <2>5, <2>6
<1> HIDE DEF w
<1>2. /\ IsFiniteSet(C) /\ C \subseteq 1..Len(s) /\ C \subseteq Nat /\ n \in Nat
      /\ \A i \in 1..Len(s) : i \in C <=> s[i] # <<>>
  BY FullIs
<1>3. /\ IsFiniteSet(A) /\ A \subseteq 1..Len(w) /\ A \subseteq Nat
      /\ \A i \in 1..Len(w) : i \in A <=> w[i] # <<>>
  BY <1>1, FullIs
<1> HIDE DEF A, C
<1>4. A \ {1} = Up /\ 1 \notin Up /\ (1 \in A <=> e # <<>>)
  <2>1. ASSUME NEW x \in C PROVE x + 1 \in A /\ x + 1 # 1
    <3>1. x \in 1..Len(s) /\ x + 1 \in 1..Len(w) /\ x + 1 # 1
      BY <1>1, <1>2
    <3> QED
      BY <1>1, <1>2, <1>3, <3>1
  <2>2. ASSUME NEW y \in A, y # 1 PROVE \E x \in C : y = x + 1
    <3>1. y - 1 \in 1..Len(s) /\ y = (y - 1) + 1
      BY <1>1, <1>3, <2>2
    <3>2. w[y] = s[y - 1] /\ w[y] # <<>>
      BY <1>1, <1>3, <3>1
    <3> QED
      BY <1>2, <3>1, <3>2
  <2>3. 1 \in A <=> e # <<>>
    <3>1. 1 \in 1..Len(w)
      BY <1>1
    <3> QED
      BY <1>1, <1>3, <3>1
  <2> QED
    BY <2>1, <2>2, <2>3
<1>5. /\ IsFiniteSet(Up) /\ Cardinality(Up) = n
      /\ \A i \in Nat : i < n => Nth(Up, i) = Nth(C, i) + 1
  <2>1. 1 \in Nat
    OBVIOUS
  <2> QED
    BY <1>2, <2>1, NthShifted
<1> HIDE DEF Up
<1> DEFINE N == NonEmpty(s)
           W == NonEmpty(w)
<1>6. N \in Seq(T) /\ Len(N) = n /\ \A i \in 1..n : N[i] = s[Nth(C, i - 1)]
  BY NonEmptyTyped DEF C
<1>7. /\ W \in Seq(T) /\ Len(W) = Cardinality(A)
      /\ \A i \in 1..Cardinality(A) : W[i] = w[Nth(A, i - 1)]
  BY <1>1, NonEmptyTyped DEF A
<1>8. \A i \in 1..n : /\ i - 1 \in Nat /\ i - 1 < n /\ Nth(C, i - 1) \in 1..Len(s)
                      /\ w[Nth(C, i - 1) + 1] = N[i] /\ Nth(Up, i - 1) = Nth(C, i - 1) + 1
  <2> SUFFICES ASSUME NEW i \in 1..n
               PROVE  /\ i - 1 \in Nat /\ i - 1 < n /\ Nth(C, i - 1) \in 1..Len(s)
                      /\ w[Nth(C, i - 1) + 1] = N[i] /\ Nth(Up, i - 1) = Nth(C, i - 1) + 1
    OBVIOUS
  <2>1. i - 1 \in Nat /\ i - 1 < n
    BY <1>2
  <2>2. Nth(C, i - 1) \in 1..Len(s)
    BY <1>2, <2>1, NthIs
  <2> HIDE DEF n, N
  <2> QED
    BY <1>1, <1>5, <1>6, <2>1, <2>2
<1> HIDE DEF N, W, n
<1>9. CASE e = <<>>
  <2>1. A = Up
    BY <1>4, <1>9
  <2>2. Len(W) = n /\ \A i \in 1..n : W[i] = N[i]
    BY <1>5, <1>7, <1>8, <2>1
  <2>3. W = N
    BY <1>6, <1>7, <2>2, SeqEqual
  <2> QED
    BY <1>9, <2>3 DEF W, N, w
<1>10. CASE e # <<>>
  <2>1. 1 \in A /\ \A m \in A : 1 <= m
    BY <1>3, <1>4, <1>10
  <2>2. /\ Nth(A, 0) = 1
        /\ Cardinality(A) = Cardinality(Up) + 1
        /\ \A i \in Nat : i < Cardinality(Up) => Nth(A, i + 1) = Nth(Up, i)
    <3>1. /\ Nth(A, 0) = 1
          /\ Cardinality(A) = Cardinality(A \ {1}) + 1
          /\ \A i \in Nat : i < Cardinality(A \ {1}) => Nth(A, i + 1) = Nth(A \ {1}, i)
      BY <1>3, <2>1, NthRest
    <3> QED
      BY <1>4, <3>1
  <2>3. Len(W) = n + 1 /\ n \in Nat
    BY <1>2, <1>5, <1>7, <2>2
  <2>4. W[1] = e
    <3>1. 1 \in 1..Cardinality(A) /\ 1 - 1 = 0
      BY <1>5, <2>2, <2>3
    <3> QED
      BY <1>1, <1>7, <2>2, <3>1
  <2>5. ASSUME NEW i \in 1..n PROVE W[i + 1] = N[i]
    <3>1. i + 1 \in 1..Cardinality(A) /\ (i + 1) - 1 = i /\ i \in Nat
          /\ (i - 1) + 1 = i
      BY <1>5, <2>2, <2>3
    <3>2. W[i + 1] = w[Nth(A, i)]
      <4>1. W[i + 1] = w[Nth(A, (i + 1) - 1)]
        BY <1>7, <3>1
      <4> QED
        BY <3>1, <4>1
    <3>3. Nth(A, i) = Nth(Up, i - 1)
      <4>1. Nth(A, (i - 1) + 1) = Nth(Up, i - 1)
        BY <1>5, <1>8, <2>2
      <4> QED
        BY <3>1, <4>1
    <3> QED
      BY <1>8, <3>2, <3>3
  <2>6. /\ <<e>> \o N \in Seq(T) /\ Len(<<e>> \o N) = n + 1 /\ (<<e>> \o N)[1] = e
        /\ \A i \in 1..n : (<<e>> \o N)[i + 1] = N[i]
    <3> DEFINE h == <<e>>
    <3>1. h \in Seq(T) /\ Len(h) = 1 /\ h[1] = e
      OBVIOUS
    <3> HIDE DEF h
    <3>2. /\ h \o N \in Seq(T) /\ Len(h \o N) = Len(h) + Len(N)
          /\ \A i \in 1..Len(h) + Len(N) : (h \o N)[i] = IF i <= Len(h) THEN h[i] ELSE N[i - Len(h)]
      BY <1>6, <3>1, ConcatProperties
    <3>3. (h \o N)[1] = e
      <4>1. 1 \in 1..Len(h) + Len(N) /\ 1 <= Len(h)
        BY <1>6, <2>3, <3>1
      <4> QED
        BY <3>1, <3>2, <4>1
    <3>4. ASSUME NEW i \in 1..n PROVE (h \o N)[i + 1] = N[i]
      <4>1. i + 1 \in 1..Len(h) + Len(N) /\ ~(i + 1 <= Len(h)) /\ (i + 1) - Len(h) = i
        BY <1>6, <2>3, <3>1
      <4> QED
        BY <3>2, <4>1
    <3>5. Len(h \o N) = n + 1
      BY <1>6, <2>3, <3>1, <3>2
    <3> QED
      BY <3>2, <3>3, <3>4, <3>5 DEF h
  <2>7. ASSUME NEW i \in 1..n + 1 PROVE W[i] = (<<e>> \o N)[i]
    <3>1. CASE i = 1
      BY <2>4, <2>6, <3>1
    <3>2. CASE i # 1
      <4>1. i - 1 \in 1..n /\ (i - 1) + 1 = i
        BY <2>3, <3>2
      <4>2. W[(i - 1) + 1] = N[i - 1] /\ (<<e>> \o N)[(i - 1) + 1] = N[i - 1]
        BY <2>5, <2>6, <4>1
      <4> QED
        BY <4>1, <4>2
    <3> QED
      BY <3>1, <3>2
  <2>8. W = <<e>> \o N
    <3> DEFINE h == <<e>> \o N
    <3> HIDE DEF h
    <3>1. h \in Seq(T) /\ Len(h) = n + 1 /\ \A i \in 1..n + 1 : W[i] = h[i]
      BY <2>6, <2>7 DEF h
    <3>2. W = h
      BY <1>7, <2>3, <3>1, SeqEqual
    <3> QED
      BY <3>2 DEF h
  <2> QED
    BY <1>10, <2>8 DEF W, N, w
<1> QED
  BY <1>9, <1>10
-----------------------------------------------------------------------------
(* The words of a text: its pieces between blanks.                         *)
Words(t) == NonEmpty(Pieces(t, Blanks))

LEMMA WordsTyped ==
  ASSUME NEW T, NEW t \in Seq(T) PROVE Words(t) \in Seq(Seq(T))
<1>1. Pieces(t, Blanks) \in Seq(Seq(T))
  BY PiecesTyped
<1> QED
  BY <1>1, NonEmptyTyped DEF Words

LEMMA WordsNone == Words(<<>>) = <<>>
<1> DEFINE t == <<>>
<1>1. t \in Seq({}) /\ Len(t) + 1 = 1 /\ 1 \in 1..Len(t) + 1 /\ t \in Seq(Seq({}))
  OBVIOUS
<1> HIDE DEF t
<1>2. Stop(t, 1, Blanks) = Len(t) + 1
  <2>1. Stop(t, 1, Blanks) \in 1..Len(t) + 1
    BY <1>1, StopIs
  <2> QED
    BY <1>1, <2>1
<1>3. Pieces(t, Blanks) = <<t>>
  BY <1>1, <1>2, PiecesNone
<1>4. NonEmpty(<<t>>) = NonEmpty(<<>>)
  <2> DEFINE z == <<>>
  <2>1. z \in Seq(Seq({})) /\ t \in Seq({})
    BY <1>1
  <2>2. <<t>> \o z = <<t>>
    BY <1>1
  <2> HIDE DEF z
  <2>3. NonEmpty(<<t>> \o z) = IF t = <<>> THEN NonEmpty(z) ELSE <<t>> \o NonEmpty(z)
    BY <2>1, NonEmptyFirst
  <2> QED
    BY <2>2, <2>3 DEF t, z
<1> QED
  BY <1>3, <1>4, NonEmptyNone DEF Words, t

LEMMA WordsFirst ==
  ASSUME NEW T, NEW t \in Seq(T), t # <<>>
  PROVE  LET q == Stop(t, 1, Blanks)
         IN  Words(t) = IF q = 1 THEN Words(After(t, 1))
                        ELSE <<SubSeq(t, 1, q - 1)>> \o Words(After(t, q))
<1> DEFINE q == Stop(t, 1, Blanks)
<1>1. 1 \in 1..Len(t) + 1 /\ Len(t) \in Nat /\ Len(t) # 0
  OBVIOUS
<1>2. q \in 1..Len(t) + 1
  BY <1>1, StopIs
<1> HIDE DEF q
<1>3. /\ SubSeq(t, 1, q - 1) \in Seq(T)
      /\ Len(SubSeq(t, 1, q - 1)) = q - 1
  <2>1. 1 \in Int /\ q - 1 \in Int /\ \A i \in 1..q - 1 : t[i] \in T
    BY <1>1, <1>2
  <2>2. /\ SubSeq(t, 1, q - 1) \in Seq(T)
        /\ Len(SubSeq(t, 1, q - 1)) = IF 1 <= q - 1 THEN (q - 1) - 1 + 1 ELSE 0
    BY <2>1, SubSeqProperties
  <2>3. (IF 1 <= q - 1 THEN (q - 1) - 1 + 1 ELSE 0) = q - 1
    BY <1>2
  <2> DEFINE h == SubSeq(t, 1, q - 1)
  <2> HIDE DEF h
  <2>4. h \in Seq(T) /\ Len(h) = IF 1 <= q - 1 THEN (q - 1) - 1 + 1 ELSE 0
    BY <2>2 DEF h
  <2>5. h \in Seq(T) /\ Len(h) = q - 1
    BY <2>3, <2>4
  <2> QED
    BY <2>5 DEF h
<1>4. SubSeq(t, 1, q - 1) = <<>> <=> q = 1
  <2> DEFINE h == SubSeq(t, 1, q - 1)
  <2> HIDE DEF h
  <2>1. h \in Seq(T) /\ Len(h) = q - 1
    BY <1>3 DEF h
  <2>2. h = <<>> <=> Len(h) = 0
    BY <2>1, EmptySeq
  <2>3. q - 1 = 0 <=> q = 1
    BY <1>2
  <2> QED
    BY <2>1, <2>2, <2>3 DEF h
<1>5. After(t, q) \in Seq(T) /\ Pieces(After(t, q), Blanks) \in Seq(Seq(T))
  BY <1>2, AfterTyped, PiecesTyped
<1>6. CASE q <= Len(t)
  <2>1. Pieces(t, Blanks) = <<SubSeq(t, 1, q - 1)>> \o Pieces(After(t, q), Blanks)
    BY <1>6, PiecesFirst DEF q
  <2> DEFINE e == SubSeq(t, 1, q - 1)
             s == Pieces(After(t, q), Blanks)
  <2>2. e \in Seq(T) /\ s \in Seq(Seq(T))
    BY <1>3, <1>5
  <2> HIDE DEF e, s
  <2>3. NonEmpty(<<e>> \o s) = IF e = <<>> THEN NonEmpty(s) ELSE <<e>> \o NonEmpty(s)
    BY <2>2, NonEmptyFirst
  <2> QED
    BY Zenon, <1>4, <2>1, <2>3 DEF Words, e, s, q
<1>7. CASE ~(q <= Len(t))
  <2>1. q = Len(t) + 1 /\ q # 1 /\ q - 1 = Len(t)
    BY <1>1, <1>2, <1>7
  <2>2. Pieces(t, Blanks) = <<t>> /\ After(t, q) = <<>>
    BY <1>2, <2>1, PiecesNone, AfterTyped DEF q
  <2>3. SubSeq(t, 1, q - 1) = t
    BY <2>1, SubSeqFull
  <2>4. NonEmpty(<<t>>) = <<t>>
    <3> DEFINE z == <<>>
    <3>1. z \in Seq(Seq(T)) /\ <<t>> \o z = <<t>>
      OBVIOUS
    <3> HIDE DEF z
    <3>2. NonEmpty(<<t>> \o z) = IF t = <<>> THEN NonEmpty(z) ELSE <<t>> \o NonEmpty(z)
      BY <3>1, NonEmptyFirst
    <3>3. NonEmpty(z) = z
      BY NonEmptyNone DEF z
    <3> QED
      BY <3>1, <3>2, <3>3
  <2>5. <<t>> \o <<>> = <<t>>
    OBVIOUS
  <2>6. Words(t) = <<SubSeq(t, 1, q - 1)>> \o Words(After(t, q))
    BY Zenon, <2>2, <2>3, <2>4, <2>5, WordsNone DEF Words
  <2> QED
    BY <2>1, <2>6 DEF q
<1> QED
  BY <1>6, <1>7

\* The blanks before a word count for nothing.
From(t, f) == SubSeq(t, f, Len(t))

LEMMA FromTyped ==
  ASSUME NEW T, NEW t \in Seq(T), NEW f \in 1..Len(t) + 1
  PROVE  /\ From(t, f) \in Seq(T) /\ Len(From(t, f)) = Len(t) - f + 1
         /\ \A i \in 1..Len(t) - f + 1 : From(t, f)[i] = t[f + i - 1]
<1>1. f \in Int /\ Len(t) \in Int /\ \A i \in f..Len(t) : t[i] \in T
  OBVIOUS
<1>2. /\ SubSeq(t, f, Len(t)) \in Seq(T)
      /\ Len(SubSeq(t, f, Len(t))) = IF f <= Len(t) THEN Len(t) - f + 1 ELSE 0
      /\ \A i \in 1..Len(t) - f + 1 : SubSeq(t, f, Len(t))[i] = t[f + i - 1]
  BY <1>1, SubSeqProperties
<1>3. (IF f <= Len(t) THEN Len(t) - f + 1 ELSE 0) = Len(t) - f + 1
  OBVIOUS
<1> QED
  BY Zenon, <1>2, <1>3 DEF From

LEMMA SeqByParts ==
  ASSUME NEW T, NEW s \in Seq(T), NEW t \in Seq(T), NEW n, Len(s) = n, Len(t) = n,
         \A i \in 1..n : s[i] = t[i]
  PROVE  s = t
BY SeqEqual

LEMMA WordsFrom ==
  ASSUME NEW T, NEW t \in Seq(T), NEW f \in 1..Len(t) + 1, \A r \in 1..f - 1 : t[r] \in Blanks
  PROVE  Words(From(t, f)) = Words(t)
<1> DEFINE Bad == {g \in 1..f : Words(From(t, g)) # Words(t)}
<1> SUFFICES ASSUME Bad # {} PROVE FALSE
  OBVIOUS
<1>1. PICK g \in Bad : \A m \in Bad : g <= m
  <2>1. Bad \subseteq Nat
    OBVIOUS
  <2> QED
    BY <2>1, LeastOf
<1>2. g # 1
  <2>1. From(t, 1) = t
    BY SubSeqFull DEF From
  <2> QED
    BY <1>1, <2>1
<1>3. /\ g - 1 \in 1..f /\ ~(g <= g - 1) /\ g - 1 \in 1..Len(t) /\ g - 1 \in 1..f - 1
      /\ g - 1 \in 1..Len(t) + 1 /\ g \in 1..Len(t) + 1
  BY <1>1, <1>2
<1>4. Words(From(t, g - 1)) = Words(t) /\ t[g - 1] \in Blanks
  BY <1>1, <1>3
<1> DEFINE s == From(t, g - 1)
<1>5. /\ s \in Seq(T) /\ Len(s) = Len(t) - (g - 1) + 1
      /\ \A i \in 1..Len(t) - (g - 1) + 1 : s[i] = t[(g - 1) + i - 1]
  BY <1>3, FromTyped
<1>6. From(t, g) \in Seq(T) /\ Len(From(t, g)) = Len(t) - g + 1
      /\ \A i \in 1..Len(t) - g + 1 : From(t, g)[i] = t[g + i - 1]
  BY <1>3, FromTyped
<1> HIDE DEF s, Bad
<1>7. 1 \in 1..Len(s) /\ 1 \in 1..Len(s) + 1 /\ s # <<>> /\ s[1] \in Blanks /\ g \in Nat
  <2>1. 1 \in 1..Len(t) - (g - 1) + 1 /\ (g - 1) + 1 - 1 = g - 1 /\ g \in Nat
    BY <1>3
  <2> QED
    BY <1>4, <1>5, <2>1
<1>8. Stop(s, 1, Blanks) = 1
  <2>1. Stop(s, 1, Blanks) \in 1..Len(s) + 1 /\ \A r \in 1..Stop(s, 1, Blanks) - 1 : s[r] \notin Blanks
    BY <1>5, <1>7, StopIs
  <2>2. 1 < Stop(s, 1, Blanks) => 1 \in 1..Stop(s, 1, Blanks) - 1
    BY <2>1
  <2> QED
    BY <1>7, <2>1, <2>2
<1>9. Words(s) = Words(After(s, 1))
  BY <1>5, <1>7, <1>8, WordsFirst
<1>10. After(s, 1) = From(t, g)
  <2>1. /\ After(s, 1) \in Seq(T) /\ Len(After(s, 1)) = Len(s) - 1
        /\ \A i \in 1..Len(s) - 1 : After(s, 1)[i] = s[1 + i]
    <3>1. 1 <= Len(s)
      BY <1>7
    <3> QED
      BY <1>5, <1>7, <3>1, AfterTyped
  <2>2. Len(s) - 1 = Len(t) - g + 1
    BY <1>3, <1>5
  <2>3. ASSUME NEW i \in 1..Len(t) - g + 1 PROVE After(s, 1)[i] = From(t, g)[i]
    <3>1. 1 + i \in 1..Len(t) - (g - 1) + 1 /\ (g - 1) + (1 + i) - 1 = g + i - 1
          /\ i \in 1..Len(s) - 1
      BY <1>3, <1>5
    <3>2. s[1 + i] = t[g + i - 1]
      BY <1>5, <3>1
    <3> QED
      BY <1>6, <2>1, <3>1, <3>2
  <2>4. Len(After(s, 1)) = Len(t) - g + 1
    BY Zenon, <2>1, <2>2
  <2> DEFINE n == Len(t) - g + 1
             a == After(s, 1)
             b == From(t, g)
  <2>5. a \in Seq(T) /\ b \in Seq(T) /\ Len(a) = n /\ Len(b) = n /\ \A i \in 1..n : a[i] = b[i]
    BY Zenon, <1>6, <2>1, <2>3, <2>4
  <2> HIDE DEF n, a, b
  <2>6. a = b
    BY <2>5, SeqByParts
  <2> QED
    BY <2>6 DEF a, b
<1> QED
  BY <1>1, <1>4, <1>9, <1>10 DEF s, Bad

\* What BlankStep takes off the text is its first word.
LEMMA WordsNext ==
  ASSUME NEW T, NEW t \in Seq(T), NEW f \in 1..Len(t), t[f] \notin Blanks,
         \A r \in 1..f - 1 : t[r] \in Blanks
  PROVE  LET q == Stop(t, f, Blanks)
         IN  Words(t) = <<SubSeq(t, f, q - 1)>> \o Words(After(t, q))
<1> DEFINE q == Stop(t, f, Blanks)
           s == From(t, f)
           e == Stop(s, 1, Blanks)
<1>1. f \in 1..Len(t) + 1 /\ Len(t) \in Nat /\ f \in Nat
  OBVIOUS
<1>2. /\ q \in f..Len(t) + 1
      /\ q = Len(t) + 1 \/ t[q] \in Blanks
      /\ \A r \in f..q - 1 : t[r] \notin Blanks
  BY <1>1, StopIs
<1>3. /\ s \in Seq(T) /\ Len(s) = Len(t) - f + 1
      /\ \A i \in 1..Len(t) - f + 1 : s[i] = t[f + i - 1]
  BY <1>1, FromTyped
<1> HIDE DEF q, s
<1>4. 1 \in 1..Len(s) /\ 1 \in 1..Len(s) + 1 /\ s # <<>>
  BY <1>1, <1>3
<1>5. /\ e \in 1..Len(s) + 1
      /\ e = Len(s) + 1 \/ s[e] \in Blanks
      /\ \A r \in 1..e - 1 : s[r] \notin Blanks
  BY <1>3, <1>4, StopIs
<1> HIDE DEF e
<1>6. e = q - f + 1
  <2>1. ~(e < q - f + 1)
    <3> SUFFICES ASSUME e < q - f + 1 PROVE FALSE
      OBVIOUS
    <3>1. f + e - 1 \in f..q - 1 /\ e \in 1..Len(t) - f + 1 /\ e # Len(s) + 1
      BY <1>1, <1>2, <1>3, <1>5
    <3>2. t[f + e - 1] \in Blanks
      BY <1>3, <1>5, <3>1
    <3> QED
      BY <1>2, <3>1, <3>2
  <2>2. ~(e > q - f + 1)
    <3> SUFFICES ASSUME e > q - f + 1 PROVE FALSE
      OBVIOUS
    <3>1. q - f + 1 \in 1..e - 1 /\ q - f + 1 \in 1..Len(t) - f + 1 /\ q # Len(t) + 1
          /\ f + (q - f + 1) - 1 = q
      BY <1>1, <1>2, <1>3, <1>5
    <3>2. s[q - f + 1] = t[q]
      <4>1. s[q - f + 1] = t[f + (q - f + 1) - 1]
        BY <1>3, <3>1
      <4> QED
        BY <3>1, <4>1
    <3> QED
      BY <1>2, <1>5, <3>1, <3>2
  <2> QED
    BY <1>1, <1>2, <1>5, <2>1, <2>2
<1>7. q # f
  BY <1>1, <1>2
<1>8. e # 1 /\ q \in f + 1..Len(t) + 1 /\ q \in 1..Len(t) + 1 /\ q \in Nat
  BY <1>1, <1>2, <1>6, <1>7
<1>9. Words(s) = <<SubSeq(s, 1, e - 1)>> \o Words(After(s, e))
  BY <1>3, <1>4, <1>8, WordsFirst DEF e
<1>10. Words(s) = Words(t)
  BY <1>1, WordsFrom DEF s
<1>11. SubSeq(s, 1, e - 1) = SubSeq(t, f, q - 1)
  <2>1. /\ e - 1 = q - f /\ 1 <= e - 1 /\ f <= q - 1 /\ f \in Int /\ q - 1 \in Int /\ 1 \in Int
        /\ e - 1 \in Int /\ q - f \in Nat
        /\ e - 1 - 1 + 1 = q - f /\ q - 1 - f + 1 = q - f
    BY <1>1, <1>6, <1>8
  <2>2. \A r \in f..q - 1 : t[r] \in T
    BY <1>1, <1>8
  <2>3. \A r \in 1..e - 1 : s[r] \in T
    BY <1>3, <1>5
  <2> DEFINE a == SubSeq(s, 1, e - 1)
             b == SubSeq(t, f, q - 1)
  <2>4. a \in Seq(T) /\ Len(a) = q - f /\ \A i \in 1..q - f : a[i] = s[1 + i - 1]
    <3>1. /\ a \in Seq(T) /\ Len(a) = IF 1 <= e - 1 THEN e - 1 - 1 + 1 ELSE 0
          /\ \A i \in 1..e - 1 - 1 + 1 : a[i] = s[1 + i - 1]
      BY <2>1, <2>3, SubSeqProperties
    <3> HIDE DEF a
    <3> QED
      BY Zenon, <2>1, <3>1
  <2>5. b \in Seq(T) /\ Len(b) = q - f /\ \A i \in 1..q - f : b[i] = t[f + i - 1]
    <3>1. /\ b \in Seq(T) /\ Len(b) = IF f <= q - 1 THEN q - 1 - f + 1 ELSE 0
          /\ \A i \in 1..q - 1 - f + 1 : b[i] = t[f + i - 1]
      BY <2>1, <2>2, SubSeqProperties
    <3> HIDE DEF b
    <3> QED
      BY Zenon, <2>1, <3>1
  <2> HIDE DEF a, b
  <2>6. ASSUME NEW i \in 1..q - f PROVE a[i] = b[i]
    <3>1. 1 + i - 1 = i /\ i \in 1..Len(t) - f + 1
      BY <1>1, <1>8
    <3>2. s[i] = t[f + i - 1]
      BY <1>3, <3>1
    <3> QED
      BY <2>4, <2>5, <3>1, <3>2
  <2>7. a = b
    BY <2>4, <2>5, <2>6, SeqByParts
  <2> QED
    BY <2>7 DEF a, b
<1>12. After(s, e) = After(t, q)
  <2>1. CASE q = Len(t) + 1
    <3>1. e = Len(s) + 1
      BY <1>1, <1>3, <1>6, <2>1
    <3> QED
      BY <1>3, <1>5, <1>8, <2>1, <3>1, AfterTyped
  <2>2. CASE q # Len(t) + 1
    <3>1. q <= Len(t) /\ e <= Len(s) /\ Len(s) - e = Len(t) - q
      <4>1. Len(s) = Len(t) - f + 1 /\ e = q - f + 1 /\ q \in 1..Len(t) + 1
        BY <1>3, <1>6, <1>8
      <4> QED
        BY <1>1, <2>2, <4>1
    <3>2. /\ After(t, q) \in Seq(T) /\ Len(After(t, q)) = Len(t) - q
          /\ \A i \in 1..Len(t) - q : After(t, q)[i] = t[q + i]
      BY <1>8, <3>1, AfterTyped
    <3>3. /\ After(s, e) \in Seq(T) /\ Len(After(s, e)) = Len(t) - q
          /\ \A i \in 1..Len(t) - q : After(s, e)[i] = s[e + i]
      <4>1. s \in Seq(T) /\ e \in 1..Len(s) + 1
        BY <1>3, <1>5
      <4>2. /\ After(s, e) \in Seq(T) /\ Len(After(s, e)) = Len(s) - e
            /\ \A i \in 1..Len(s) - e : After(s, e)[i] = s[e + i]
        BY <3>1, <4>1, AfterTyped
      <4> QED
        BY Zenon, <3>1, <4>2
    <3>4. ASSUME NEW i \in 1..Len(t) - q PROVE After(s, e)[i] = After(t, q)[i]
      <4>1. e + i \in 1..Len(t) - f + 1 /\ f + (e + i) - 1 = q + i
        BY <1>1, <1>6, <1>8
      <4>2. s[e + i] = t[q + i]
        <5>1. s[e + i] = t[f + (e + i) - 1]
          BY <1>3, <4>1
        <5> QED
          BY <4>1, <5>1
      <4> QED
        BY <3>2, <3>3, <4>2
    <3> QED
      BY <3>2, <3>3, <3>4, SeqByParts
  <2> QED
    BY <2>1, <2>2
<1> QED
  BY Zenon, <1>9, <1>10, <1>11, <1>12 DEF q
-----------------------------------------------------------------------------
(* The texts character by character, and where a word begins.              *)
Chars(t) == [i \in 1..Len(t) |-> <<t[i]>>]

LEMMA CharsNext ==
  ASSUME NEW T, NEW t \in Seq(T), t # <<>>
  PROVE  /\ Chars(t) = <<<<Head(t)>>>> \o Chars(Tail(t))
         /\ <<Head(t)>> \in Seq(T) /\ Tail(t) \in Seq(T)
<1> DEFINE u == Tail(t)
           n == Len(u)
<1>1. /\ u \in Seq(T) /\ n \in Nat /\ Len(t) = n + 1 /\ Head(t) = t[1] /\ Head(t) \in T
      /\ \A i \in 1..n : u[i] = t[i + 1]
  <2>1. Len(u) = Len(t) - 1 /\ u \in Seq(T) /\ Head(t) \in T
        /\ \A i \in 1..Len(u) : u[i] = t[i + 1]
    BY HeadTailProperties
  <2> QED
    BY <2>1
<1> HIDE DEF u
<1>2. Chars(t) \in Seq(Seq(T)) /\ Len(Chars(t)) = n + 1
      /\ \A i \in 1..n + 1 : Chars(t)[i] = <<t[i]>>
  <2>1. Chars(t) = [i \in 1..n + 1 |-> <<t[i]>>]
    BY <1>1 DEF Chars
  <2>2. \A i \in 1..n + 1 : <<t[i]>> \in Seq(T)
    BY <1>1
  <2>3. n + 1 \in Nat
    BY <1>1
  <2> HIDE DEF n
  <2> DEFINE m == n + 1
  <2>4. m \in Nat /\ Chars(t) = [i \in 1..m |-> <<t[i]>>] /\ \A i \in 1..m : <<t[i]>> \in Seq(T)
    BY <2>1, <2>2, <2>3
  <2> HIDE DEF m
  <2>5. Chars(t) \in [1..m -> Seq(T)]
    BY <2>4
  <2>6. Chars(t) \in Seq(Seq(T)) /\ Len(Chars(t)) = m
    BY <2>4, <2>5, IsASeq
  <2>7. \A i \in 1..m : Chars(t)[i] = <<t[i]>>
    BY <2>4
  <2> QED
    BY <2>6, <2>7 DEF m
<1>3. Chars(u) \in Seq(Seq(T)) /\ Len(Chars(u)) = n
      /\ \A i \in 1..n : Chars(u)[i] = <<u[i]>>
  <2>1. Chars(u) = [i \in 1..n |-> <<u[i]>>]
    BY DEF Chars
  <2>2. \A i \in 1..n : <<u[i]>> \in Seq(T)
    BY <1>1
  <2>3. n \in Nat
    BY <1>1
  <2> HIDE DEF n
  <2>4. Chars(u) \in [1..n -> Seq(T)]
    BY <2>1, <2>2
  <2> QED
    BY <2>1, <2>3, <2>4, IsASeq
<1> DEFINE h == <<<<Head(t)>>>>
           w == h \o Chars(u)
<1>4. h \in Seq(Seq(T)) /\ Len(h) = 1 /\ h[1] = <<Head(t)>>
  BY <1>1
<1> HIDE DEF h, n
<1>5. /\ w \in Seq(Seq(T)) /\ Len(w) = 1 + n
      /\ \A i \in 1..1 + n : w[i] = IF i <= 1 THEN h[1] ELSE Chars(u)[i - 1]
  <2>1. /\ w \in Seq(Seq(T)) /\ Len(w) = Len(h) + Len(Chars(u))
        /\ \A i \in 1..Len(h) + Len(Chars(u)) :
             w[i] = IF i <= Len(h) THEN h[i] ELSE Chars(u)[i - Len(h)]
    BY <1>3, <1>4, ConcatProperties
  <2> HIDE DEF w
  <2>2. \A i \in 1..1 + n : w[i] = IF i <= 1 THEN h[i] ELSE Chars(u)[i - 1]
    BY Zenon, <1>3, <1>4, <2>1
  <2>3. \A i \in 1..1 + n : i <= 1 => i = 1
    BY <1>1
  <2> QED
    BY <1>3, <1>4, <2>1, <2>2, <2>3
<1> HIDE DEF w
<1>6. ASSUME NEW i \in 1..n + 1 PROVE Chars(t)[i] = w[i]
  <2>1. i \in 1..1 + n
    BY <1>1
  <2>2. CASE i = 1
    BY <1>1, <1>2, <1>4, <1>5, <2>1, <2>2
  <2>3. CASE i # 1
    <3>1. ~(i <= 1) /\ i - 1 \in 1..n /\ (i - 1) + 1 = i
      BY <1>1, <2>3
    <3>2. Chars(t)[i] = <<t[i]>> /\ Chars(u)[i - 1] = <<u[i - 1]>> /\ u[i - 1] = t[(i - 1) + 1]
      BY <1>1, <1>2, <1>3, <3>1
    <3> QED
      BY <1>5, <2>1, <3>1, <3>2
  <2> QED
    BY <2>2, <2>3
<1>7. Chars(t) = w
  <2>1. Len(w) = n + 1
    BY <1>1, <1>5
  <2> QED
    BY <1>2, <1>5, <1>6, <2>1, SeqByParts
<1> QED
  BY <1>1, <1>7 DEF w, h, u

LEMMA CharsTyped == ASSUME NEW T, NEW t \in Seq(T) PROVE Chars(t) \in Seq(Seq(T))
<1>1. \A i \in 1..Len(t) : <<t[i]>> \in Seq(T)
  OBVIOUS
<1>2. Chars(t) \in [1..Len(t) -> Seq(T)] /\ Len(t) \in Nat
  BY <1>1 DEF Chars
<1> QED
  BY <1>2, IsASeq

FirstWord(t) == CHOOSE q \in 1..Len(t) + 1 : /\ q = Len(t) + 1 \/ t[q] \notin Blanks
                                             /\ \A r \in 1..q - 1 : t[r] \in Blanks

LEMMA FirstWordIs ==
  ASSUME NEW T, NEW t \in Seq(T)
  PROVE  /\ FirstWord(t) \in 1..Len(t) + 1
         /\ FirstWord(t) = Len(t) + 1 \/ t[FirstWord(t)] \notin Blanks
         /\ \A r \in 1..FirstWord(t) - 1 : t[r] \in Blanks
<1> DEFINE Ends == {q \in 1..Len(t) + 1 : q = Len(t) + 1 \/ t[q] \notin Blanks}
<1>1. Ends \subseteq Nat /\ Len(t) + 1 \in Ends
  OBVIOUS
<1>2. PICK q \in Ends : \A m \in Ends : q <= m
  <2> HIDE DEF Ends
  <2> QED
    BY <1>1, LeastOf
<1>3. \A r \in 1..q - 1 : t[r] \in Blanks
  <2>1. ASSUME NEW r \in 1..q - 1 PROVE r \in 1..Len(t) + 1 /\ ~(q <= r)
    OBVIOUS
  <2> QED
    BY <1>2, <2>1
<1>4. \E e \in 1..Len(t) + 1 : /\ e = Len(t) + 1 \/ t[e] \notin Blanks
                               /\ \A r \in 1..e - 1 : t[r] \in Blanks
  BY <1>2, <1>3
<1> QED
  BY <1>4 DEF FirstWord
-----------------------------------------------------------------------------
(* The invariant: what is stored, and what the rest of the text will give, *)
(* is what the whole text gives.                                           *)
Seps == IF ByRegex THEN ToSet(fs)
        ELSE {sep} \cup IF para \/ fun # "fldbld" THEN {"\n"} ELSE {}

Left(t) == IF ByBlank THEN Words(t) ELSE IF ByChar THEN Chars(t) ELSE Pieces(t, Seps)

ScanType == /\ fun \in {"fldbld", "split2", "split3"}
            /\ text \in Seq(STRING) /\ fs \in Seq(STRING \ {"none"}) /\ para \in BOOLEAN
            /\ rest \in Seq(STRING) /\ out \in Seq(Seq(STRING))
            /\ cells \in Nat
            /\ state \in {"scan", "done", "overrun"}

\* split by an expression is a library's, and a match of nothing never ends.
Modelled == (fun = "fldbld" \/ ~IsRegex) /\ ~MatchesEmpty

Content == /\ state = "scan" /\ text = <<>> => rest = <<>> /\ out = <<>>
           /\ Modelled /\ state = "scan" => out \o Left(rest) = Left(text)
           /\ Modelled /\ state = "done" => out = IF text = <<>> THEN <<>> ELSE Left(text)
           /\ MatchesEmpty /\ state = "done" => text = <<>> /\ out = <<>>

Table == fun = "fldbld" =>
  /\ state # "overrun" => Len(out) <= cells
  /\ state = "scan" \/ (state = "done" /\ ~ByRegex) => cells = TableAfter(DEFAULT_FLD, Len(out))
  /\ state = "overrun" => ByRegex /\ Len(out) = cells + 1

ScanInv == ScanType /\ Content /\ Table

LEMMA LeftTyped ==
  ASSUME NEW t \in Seq(STRING) PROVE Left(t) \in Seq(Seq(STRING))
BY WordsTyped, CharsTyped, PiecesTyped DEF Left

LEMMA LeftNone == (ByBlank \/ ByChar) => Left(<<>>) = <<>>
<1> DEFINE t == <<>>
<1>1. Chars(t) = <<>>
  <2>1. t \in Seq(STRING) /\ Len(t) = 0 /\ 1..Len(t) = {}
    OBVIOUS
  <2> HIDE DEF t
  <2>2. Chars(t) = [i \in {} |-> <<t[i]>>]
    BY <2>1 DEF Chars
  <2>3. Chars(t) \in Seq(Seq(STRING)) /\ Len(Chars(t)) = 0
    <3>1. Chars(t) \in [1..0 -> Seq(STRING)]
      BY <2>1, <2>2
    <3> QED
      BY <3>1, IsASeq
  <2> QED
    BY <2>3, EmptySeq
<1> QED
  BY <1>1, WordsNone DEF Left

LEMMA ScanInit == Init => ScanInv
<1> SUFFICES ASSUME Init PROVE ScanInv
  OBVIOUS
<1>1. ScanType
  <2>1. <<>> \in Seq(Seq(STRING))
    OBVIOUS
  <2> QED
    BY <2>1, ScanAssumption, FieldTableAssumption DEF Init, ScanType
<1>2. Content
  <2>1. Left(text) \in Seq(Seq(STRING))
    BY <1>1, LeftTyped DEF ScanType
  <2>2. <<>> \o Left(text) = Left(text)
    BY <2>1, ConcatEmptySeq
  <2> QED
    BY <2>2 DEF Init, Content
<1>3. Table
  <2>1. DEFAULT_FLD \in Nat /\ TableAfter(DEFAULT_FLD, 0) = DEFAULT_FLD
    BY FieldTableAssumption, TableStarts
  <2>2. Len(out) = 0
    BY DEF Init
  <2> QED
    BY <2>1, <2>2 DEF Init, Table
<1> QED
  BY <1>1, <1>2, <1>3 DEF ScanInv

\* A piece is stored.
LEMMA KeepIs ==
  ASSUME ScanInv, state = "scan", NEW piece \in Seq(STRING), Keep(piece)
  PROVE  /\ out' \in Seq(Seq(STRING)) /\ cells' \in Nat
         /\ fun = "fldbld" => /\ Len(out') <= cells'
                              /\ cells' = TableAfter(DEFAULT_FLD, Len(out'))
         /\ \A s \in Seq(Seq(STRING)) : out' \o s = out \o (<<piece>> \o s)
         /\ out' = out \o <<piece>>
<1>1. out \in Seq(Seq(STRING)) /\ cells \in Nat /\ DEFAULT_FLD \in Nat /\ Len(out) \in Nat
  BY FieldTableAssumption DEF ScanInv, ScanType
<1>2. out' \in Seq(Seq(STRING)) /\ Len(out') = Len(out) + 1
  BY <1>1, AppendProperties DEF Keep
<1>3. cells' \in Nat
  BY <1>1, <1>2 DEF Keep, Max2
<1>4. ASSUME fun = "fldbld"
      PROVE  Len(out') <= cells' /\ cells' = TableAfter(DEFAULT_FLD, Len(out'))
  <2>1. cells = TableAfter(DEFAULT_FLD, Len(out))
    BY <1>4 DEF ScanInv, Table
  <2>2. cells' = TableAfter(DEFAULT_FLD, Len(out) + 1)
    BY <1>1, <1>2, <1>4, <2>1, TableGrows DEF Keep
  <2>3. TableAfter(DEFAULT_FLD, Len(out) + 1) >= Len(out) + 1
    <3>1. Len(out) + 1 \in Nat
      BY <1>1
    <3> QED
      BY <1>1, <3>1, TableAfterTyped
  <2> QED
    BY <1>1, <1>2, <1>3, <2>2, <2>3
<1>5. out' = out \o <<piece>>
  BY <1>1, AppendIsConcat DEF Keep
<1>6. <<piece>> \in Seq(Seq(STRING))
  OBVIOUS
<1>7. \A s \in Seq(Seq(STRING)) : out' \o s = out \o (<<piece>> \o s)
  BY <1>1, <1>5, <1>6, ConcatAssociative
<1> QED
  BY <1>2, <1>3, <1>4, <1>5, <1>7

\* The step that stores a piece and leaves the text after it.
LEMMA KeepScans ==
  ASSUME ScanInv, state = "scan", UNCHANGED <<fun, text, fs, para>>,
         NEW piece \in Seq(STRING), Keep(piece), state' = "scan",
         text # <<>>, rest' \in Seq(STRING),
         Modelled => Left(rest) = <<piece>> \o Left(rest')
  PROVE  ScanInv'
<1>1. /\ out' \in Seq(Seq(STRING)) /\ cells' \in Nat
      /\ fun = "fldbld" => /\ Len(out') <= cells'
                           /\ cells' = TableAfter(DEFAULT_FLD, Len(out'))
      /\ \A s \in Seq(Seq(STRING)) : out' \o s = out \o (<<piece>> \o s)
  BY KeepIs
<1>2. ScanType'
  BY <1>1 DEF ScanInv, ScanType
<1>3. Table'
  BY <1>1 DEF Table
<1>4. Content'
  <2>1. Left(rest') \in Seq(Seq(STRING))
    BY LeftTyped
  <2>2. Modelled => out' \o Left(rest') = Left(text)
    BY <1>1, <2>1 DEF ScanInv, Content
  <2>3. /\ Left(rest)' = Left(rest') /\ Left(text)' = Left(text)
        /\ (Modelled' <=> Modelled) /\ (MatchesEmpty' <=> MatchesEmpty)
    BY DEF Left, ByBlank, ByChar, ByRegex, IsRegex, sep, Seps, Modelled, MatchesEmpty
  <2> QED
    BY <2>2, <2>3 DEF Content
<1> QED
  BY <1>2, <1>3, <1>4 DEF ScanInv

\* The step that ends the loop.
LEMMA FinishEnds ==
  ASSUME ScanInv, state = "scan", UNCHANGED <<fun, text, fs, para>>, Finish,
         ~ByRegex, Modelled => out = IF text = <<>> THEN <<>> ELSE Left(text)
  PROVE  ScanInv'
<1>1. ScanType'
  BY DEF ScanInv, ScanType, Finish
<1>2. Table'
  BY DEF ScanInv, Table, Finish, ByRegex, IsRegex
<1>3. Content'
  <2>1. Left(text)' = Left(text) /\ (Modelled' <=> Modelled) /\ (MatchesEmpty' <=> MatchesEmpty)
    BY DEF Left, ByBlank, ByChar, ByRegex, IsRegex, sep, Seps, Modelled, MatchesEmpty
  <2> QED
    BY <2>1 DEF Content, Finish, MatchesEmpty
<1> QED
  BY <1>1, <1>2, <1>3 DEF ScanInv
-----------------------------------------------------------------------------
(* The steps of the loops.                                                 *)
LEMMA AllScanned ==
  ASSUME ScanType, NEW s PROVE Stop(rest, 1, s) \in 1..Len(rest) + 1
<1>1. rest \in Seq(STRING) /\ 1 \in 1..Len(rest) + 1
  BY DEF ScanType
<1> QED
  BY <1>1, StopIs

\* The text of the loop is not empty while some of it is left.
LEMMA TextLeft ==
  ASSUME ScanInv, state = "scan", rest # <<>> PROVE text # <<>>
BY DEF ScanInv, Content

LEMMA BlankInv ==
  ASSUME ScanInv, state = "scan", UNCHANGED <<fun, text, fs, para>>, BlankStep
  PROVE  ScanInv'
<1> DEFINE first == FirstWord(rest)
           end == Stop(rest, first, Blanks)
<1>1. /\ ByBlank
      /\ \/ first > Len(rest) /\ Finish
         \/ /\ first <= Len(rest)
            /\ Keep(SubSeq(rest, first, end - 1))
            /\ rest' = After(rest, end)
            /\ UNCHANGED state
  BY Zenon DEF BlankStep, FirstWord
<1>2. rest \in Seq(STRING) /\ text \in Seq(STRING) /\ out \in Seq(Seq(STRING)) /\ ~ByRegex
  BY <1>1 DEF ScanInv, ScanType, ByBlank
<1>3. /\ first \in 1..Len(rest) + 1
      /\ first = Len(rest) + 1 \/ rest[first] \notin Blanks
      /\ \A r \in 1..first - 1 : rest[r] \in Blanks
  BY <1>2, FirstWordIs
<1> HIDE DEF first
<1>4. CASE first > Len(rest) /\ Finish
  <2>1. first = Len(rest) + 1
    BY <1>3, <1>4
  <2>2. From(rest, first) = <<>>
    BY <1>2, <2>1, SubSeqEmpty DEF From
  <2>3. Words(rest) = Words(<<>>)
    BY <1>2, <1>3, <2>2, WordsFrom
  <2>4. Left(rest) = <<>>
    BY <1>1, <2>3, WordsNone DEF Left
  <2>5. Modelled => out = Left(text)
    <3>1. out \o <<>> = out
      BY <1>2, ConcatEmptySeq
    <3>2. Modelled => out \o Left(rest) = Left(text)
      BY DEF ScanInv, Content
    <3> QED
      BY Zenon, <2>4, <3>1, <3>2
  <2>6. text = <<>> => out = <<>>
    BY DEF ScanInv, Content
  <2> QED
    BY <1>2, <1>4, <2>5, <2>6, FinishEnds
<1>5. CASE first <= Len(rest) /\ Keep(SubSeq(rest, first, end - 1)) /\ rest' = After(rest, end)
           /\ UNCHANGED state
  <2>1. first \in 1..Len(rest) /\ rest[first] \notin Blanks
    BY <1>3, <1>5
  <2>2. end \in first..Len(rest) + 1 /\ end \in 1..Len(rest) + 1
    BY <1>2, <1>3, StopIs
  <2>3. Words(rest) = <<SubSeq(rest, first, end - 1)>> \o Words(After(rest, end))
    BY <1>2, <1>3, <2>1, WordsNext
  <2>4. SubSeq(rest, first, end - 1) \in Seq(STRING)
    <3>1. first \in Int /\ end - 1 \in Int /\ \A r \in first..end - 1 : rest[r] \in STRING
      BY <1>2, <2>1, <2>2
    <3> QED
      BY <3>1, SubSeqProperties
  <2>5. After(rest, end) \in Seq(STRING)
    BY <1>2, <2>2, AfterTyped
  <2> HIDE DEF end
  <2>6. Left(rest) = <<SubSeq(rest, first, end - 1)>> \o Left(rest')
    BY Zenon, <1>1, <1>5, <2>3 DEF Left
  <2>7. text # <<>>
    <3>1. rest # <<>>
      BY <2>1
    <3> QED
      BY <3>1, TextLeft
  <2>8. rest' \in Seq(STRING) /\ state' = "scan" /\ Keep(SubSeq(rest, first, end - 1))
    BY <1>5, <2>5
  <2> DEFINE piece == SubSeq(rest, first, end - 1)
  <2>9. piece \in Seq(STRING) /\ Keep(piece) /\ Left(rest) = <<piece>> \o Left(rest')
    BY <2>4, <2>6, <2>8
  <2> HIDE DEF piece
  <2> QED
    BY <2>7, <2>8, <2>9, KeepScans
<1> QED
  BY <1>1, <1>4, <1>5

LEMMA CharInv ==
  ASSUME ScanInv, state = "scan", UNCHANGED <<fun, text, fs, para>>, CharStep
  PROVE  ScanInv'
<1>1. rest \in Seq(STRING) /\ out \in Seq(Seq(STRING)) /\ ByChar /\ ~ByRegex /\ ~ByBlank
  BY DEF ScanInv, ScanType, CharStep, ByChar, ByBlank
<1>2. CASE rest = <<>> /\ Finish
  <2>1. Left(rest) = <<>>
    BY <1>1, <1>2, LeftNone
  <2>2. Modelled => out = Left(text)
    <3>1. out \o <<>> = out
      BY <1>1, ConcatEmptySeq
    <3>2. Modelled => out \o Left(rest) = Left(text)
      BY DEF ScanInv, Content
    <3> QED
      BY Zenon, <2>1, <3>1, <3>2
  <2>3. text = <<>> => out = <<>>
    BY DEF ScanInv, Content
  <2> QED
    BY <1>1, <1>2, <2>2, <2>3, FinishEnds
<1>3. CASE rest # <<>> /\ Keep(<<Head(rest)>>) /\ rest' = Tail(rest) /\ UNCHANGED state
  <2> DEFINE piece == <<Head(rest)>>
  <2>1. /\ Chars(rest) = <<piece>> \o Chars(rest')
        /\ piece \in Seq(STRING) /\ rest' \in Seq(STRING)
    BY <1>1, <1>3, CharsNext
  <2>2. Keep(piece) /\ state' = "scan" /\ text # <<>>
    BY <1>3, TextLeft
  <2> HIDE DEF piece
  <2>3. Left(rest) = <<piece>> \o Left(rest')
    BY <1>1, <2>1 DEF Left
  <2> QED
    BY <2>1, <2>2, <2>3, KeepScans
<1> QED
  BY <1>2, <1>3 DEF CharStep

\* A piece before a separator, and the last one.
LEMMA PieceOf ==
  ASSUME NEW t \in Seq(STRING), NEW s
  PROVE  LET q == Stop(t, 1, s)
         IN  /\ q \in 1..Len(t) + 1
             /\ SubSeq(t, 1, q - 1) \in Seq(STRING) /\ After(t, q) \in Seq(STRING)
             /\ q <= Len(t) => Pieces(t, s) = <<SubSeq(t, 1, q - 1)>> \o Pieces(After(t, q), s)
             /\ q > Len(t) => Pieces(t, s) = <<SubSeq(t, 1, q - 1)>> /\ SubSeq(t, 1, q - 1) = t
<1> DEFINE q == Stop(t, 1, s)
<1>1. q \in 1..Len(t) + 1
  <2>1. 1 \in 1..Len(t) + 1
    OBVIOUS
  <2> QED
    BY <2>1, StopIs
<1>2. q <= Len(t) => Pieces(t, s) = <<SubSeq(t, 1, q - 1)>> \o Pieces(After(t, q), s)
  BY PiecesFirst
<1>3. q = Len(t) + 1 => Pieces(t, s) = <<t>>
  BY PiecesNone
<1> HIDE DEF q
<1>4. SubSeq(t, 1, q - 1) \in Seq(STRING)
  <2>1. 1 \in Int /\ q - 1 \in Int /\ \A r \in 1..q - 1 : t[r] \in STRING
    BY <1>1
  <2> QED
    BY <2>1, SubSeqProperties
<1>5. After(t, q) \in Seq(STRING)
  BY <1>1, AfterTyped
<1>6. q > Len(t) => q = Len(t) + 1 /\ SubSeq(t, 1, q - 1) = t
  <2>1. q > Len(t) => q = Len(t) + 1 /\ q - 1 = Len(t)
    BY <1>1
  <2>2. SubSeq(t, 1, Len(t)) = t
    BY SubSeqFull
  <2> QED
    BY <2>1, <2>2
<1> QED
  BY <1>1, <1>2, <1>3, <1>4, <1>5, <1>6 DEF q

LEMMA SepInv ==
  ASSUME ScanInv, state = "scan", UNCHANGED <<fun, text, fs, para>>, SepStep
  PROVE  ScanInv'
<1>1. rest \in Seq(STRING) /\ out \in Seq(Seq(STRING)) /\ BySep /\ ~ByRegex /\ ~ByBlank /\ ~ByChar
  BY DEF ScanInv, ScanType, SepStep, BySep, ByChar, ByBlank
<1> DEFINE end == Stop(rest, 1, Seps)
<1>2. \/ text = <<>> /\ Finish
      \/ /\ text # <<>>
         /\ Keep(SubSeq(rest, 1, end - 1))
         /\ rest' = After(rest, end)
         /\ state' = IF end > Len(rest) THEN "done" ELSE "scan"
  <2>1. Seps = {sep} \cup IF para \/ fun # "fldbld" THEN {"\n"} ELSE {}
    BY <1>1 DEF Seps
  <2> QED
    BY Zenon, <2>1 DEF SepStep
<1>3. \A t : Left(t) = Pieces(t, Seps)
  BY <1>1 DEF Left
<1>4. CASE text = <<>> /\ Finish
  <2>1. out = <<>>
    BY <1>4 DEF ScanInv, Content
  <2> QED
    BY <1>1, <1>4, <2>1, FinishEnds
<1>5. CASE text # <<>> /\ Keep(SubSeq(rest, 1, end - 1)) /\ rest' = After(rest, end)
           /\ state' = IF end > Len(rest) THEN "done" ELSE "scan"
  <2> DEFINE piece == SubSeq(rest, 1, end - 1)
  <2>1. /\ end \in 1..Len(rest) + 1
        /\ piece \in Seq(STRING) /\ After(rest, end) \in Seq(STRING)
        /\ end <= Len(rest) => Pieces(rest, Seps) = <<piece>> \o Pieces(After(rest, end), Seps)
        /\ end > Len(rest) => Pieces(rest, Seps) = <<piece>>
    BY <1>1, PieceOf
  <2>2. Keep(piece) /\ rest' \in Seq(STRING)
    BY <1>5, <2>1
  <2>3. Len(rest) \in Nat
    BY <1>1
  <2> HIDE DEF piece, end
  <2>4. CASE end <= Len(rest)
    <3>1. state' = "scan"
      BY <1>5, <2>1, <2>3, <2>4
    <3>2. Left(rest) = <<piece>> \o Left(rest')
      BY Zenon, <1>3, <1>5, <2>1, <2>4
    <3> QED
      BY <1>5, <2>1, <2>2, <3>1, <3>2, KeepScans
  <2>5. CASE end > Len(rest)
    <3>1. state' = "done"
      BY <1>5, <2>5
    <3>2. Left(rest) = <<piece>>
      BY Zenon, <1>3, <2>1, <2>5
    <3>3. /\ out' \in Seq(Seq(STRING)) /\ cells' \in Nat
          /\ fun = "fldbld" => /\ Len(out') <= cells'
                               /\ cells' = TableAfter(DEFAULT_FLD, Len(out'))
          /\ out' = out \o <<piece>>
      BY <2>1, <2>2, KeepIs
    <3>4. ScanType'
      BY <2>2, <3>1, <3>3 DEF ScanInv, ScanType
    <3>5. Table'
      BY <3>1, <3>3 DEF Table
    <3>6. Content'
      <4>1. Left(text)' = Left(text) /\ (Modelled' <=> Modelled) /\ (MatchesEmpty' <=> MatchesEmpty)
        BY DEF Left, ByBlank, ByChar, ByRegex, IsRegex, sep, Seps, Modelled, MatchesEmpty
      <4>2. Modelled => out' = Left(text)
        BY Zenon, <3>2, <3>3 DEF ScanInv, Content
      <4>3. text' # <<>>
        BY <1>5
      <4> QED
        BY <1>1, <3>1, <4>1, <4>2, <4>3 DEF Content, MatchesEmpty
    <3> QED
      BY <3>4, <3>5, <3>6 DEF ScanInv
  <2> QED
    BY <2>1, <2>3, <2>4, <2>5
<1> QED
  BY <1>2, <1>4, <1>5

LEMMA RegexInv ==
  ASSUME ScanInv, state = "scan", UNCHANGED <<fun, text, fs, para>>, RegexStep
  PROVE  ScanInv'
<1>1. rest \in Seq(STRING) /\ ByRegex /\ ~ByBlank /\ ~ByChar
  BY DEF ScanInv, ScanType, RegexStep, ByChar, ByBlank
<1> DEFINE end == Stop(rest, 1, Seps)
           piece == SubSeq(rest, 1, end - 1)
<1>2. /\ end <= Len(rest) /\ Keep(piece)
      /\ rest' = After(rest, end) /\ state' = "scan"
  <2>1. Seps = ToSet(fs)
    BY <1>1 DEF Seps
  <2> QED
    BY Zenon, <2>1 DEF RegexStep
<1>3. \A t : Left(t) = Pieces(t, Seps)
  BY <1>1 DEF Left
<1>4. /\ end \in 1..Len(rest) + 1
      /\ piece \in Seq(STRING) /\ After(rest, end) \in Seq(STRING)
      /\ Pieces(rest, Seps) = <<piece>> \o Pieces(After(rest, end), Seps)
  BY <1>1, <1>2, PieceOf
<1> HIDE DEF piece, end
<1>5. Left(rest) = <<piece>> \o Left(rest') /\ rest' \in Seq(STRING)
  BY Zenon, <1>2, <1>3, <1>4
<1>6. text # <<>>
  <2>1. rest # <<>>
    BY <1>2, <1>4
  <2> QED
    BY <2>1, TextLeft
<1> QED
  BY <1>2, <1>4, <1>5, <1>6, KeepScans

\* A match of the class, or of nothing.
LEMMA StarInv ==
  ASSUME ScanInv, state = "scan", UNCHANGED <<fun, text, fs, para>>, StarStep
  PROVE  ScanInv'
<1>1. rest \in Seq(STRING) /\ MatchesEmpty /\ ~Modelled /\ state' = "scan"
  BY DEF ScanInv, ScanType, StarStep, Endless, Modelled
<1> DEFINE end == Stop(rest, 1, ToSet(rest) \ ToSet(fs))
<1>2. \/ end = 1 /\ UNCHANGED <<rest, out, cells>>
      \/ end > 1 /\ Keep(<<>>) /\ rest' = After(rest, end - 1)
  BY Zenon DEF StarStep
<1>3. end \in 1..Len(rest) + 1
  BY AllScanned DEF ScanInv
<1> HIDE DEF end
<1>4. CASE UNCHANGED <<rest, out, cells>>
  BY <1>1, <1>4 DEF ScanInv, ScanType, Content, Table, Left, ByBlank, ByChar, ByRegex,
                    IsRegex, sep, Seps, Modelled, MatchesEmpty
<1>5. CASE end > 1 /\ Keep(<<>>) /\ rest' = After(rest, end - 1)
  <2>1. end - 1 \in 1..Len(rest) + 1 /\ rest # <<>>
    BY <1>1, <1>3, <1>5
  <2>2. rest' \in Seq(STRING) /\ text # <<>>
    BY <1>1, <1>5, <2>1, AfterTyped, TextLeft
  <2>3. <<>> \in Seq(STRING)
    OBVIOUS
  <2> QED
    BY <1>1, <1>5, <2>2, <2>3, KeepScans
<1> QED
  BY <1>2, <1>4, <1>5

LEMMA LastInv ==
  ASSUME ScanInv, state = "scan", UNCHANGED <<fun, text, fs, para>>, RegexLast
  PROVE  ScanInv'
<1>1. /\ rest \in Seq(STRING) /\ out \in Seq(Seq(STRING)) /\ cells \in Nat
      /\ ByRegex /\ ~ByBlank /\ ~ByChar /\ UNCHANGED <<rest, cells>>
  BY DEF ScanInv, ScanType, RegexLast, ByChar, ByBlank
<1>2. Left(text)' = Left(text) /\ (Modelled' <=> Modelled) /\ (ByRegex' <=> ByRegex)
      /\ (MatchesEmpty' <=> MatchesEmpty)
  BY DEF Left, ByBlank, ByChar, ByRegex, IsRegex, sep, Seps, Modelled, MatchesEmpty
<1>3. Len(out) \in Nat /\ (fun = "fldbld" => Len(out) <= cells)
  BY <1>1 DEF ScanInv, Table
<1>4. MatchesEmpty => fun = "fldbld" /\ text = <<>>
  BY DEF RegexLast, Endless
<1>5. CASE fun = "fldbld" /\ text # <<>>
  <2>1. out' = Append(out, rest) /\ state' = IF Len(out') > cells THEN "overrun" ELSE "done"
    BY <1>5 DEF RegexLast
  <2>2. /\ out' \in Seq(Seq(STRING)) /\ Len(out') = Len(out) + 1 /\ out' = out \o <<rest>>
    BY <1>1, <2>1, AppendProperties, AppendIsConcat
  <2>3. ~MatchesEmpty /\ Stop(rest, 1, Seps) > Len(rest)
    BY <1>1, <1>4, <1>5 DEF RegexLast, Seps
  <2>4. Left(rest) = <<rest>>
    <3>1. Left(rest) = Pieces(rest, Seps)
      BY <1>1 DEF Left
    <3> QED
      BY <1>1, <2>3, <3>1, PieceOf
  <2>5. out' = Left(text)
    BY Zenon, <1>5, <2>2, <2>3, <2>4 DEF ScanInv, Content, Modelled
  <2>6. ScanType'
    BY <1>1, <2>1, <2>2 DEF ScanInv, ScanType
  <2>7. Content'
    BY <1>2, <1>5, <2>1, <2>3, <2>5 DEF Content
  <2>8. Table'
    BY <1>1, <1>2, <1>3, <2>1, <2>2 DEF Table
  <2> QED
    BY <2>6, <2>7, <2>8 DEF ScanInv
<1>6. CASE ~(fun = "fldbld" /\ text # <<>>)
  <2>1. UNCHANGED out /\ state' = "done"
    BY <1>6 DEF RegexLast
  <2>2. ScanType'
    BY <1>1, <2>1 DEF ScanInv, ScanType
  <2>3. Modelled => fun = "fldbld"
    BY <1>1 DEF Modelled, ByRegex
  <2>4. Content'
    BY <1>2, <1>4, <1>6, <2>1, <2>3 DEF ScanInv, Content
  <2>5. Table'
    BY <1>1, <1>2, <1>3, <2>1 DEF Table
  <2> QED
    BY <2>2, <2>4, <2>5 DEF ScanInv
<1> QED
  BY <1>5, <1>6

LEMMA ScanNext == ScanInv /\ [Next]_vars => ScanInv'
<1> SUFFICES ASSUME ScanInv, [Next]_vars PROVE ScanInv'
  OBVIOUS
<1>1. CASE Next
  <2>1. state = "scan" /\ UNCHANGED <<fun, text, fs, para>>
    BY <1>1 DEF Next
  <2>2. CASE BlankStep
    BY <2>1, <2>2, BlankInv
  <2>3. CASE CharStep
    BY <2>1, <2>3, CharInv
  <2>4. CASE SepStep
    BY <2>1, <2>4, SepInv
  <2>5. CASE RegexStep
    BY <2>1, <2>5, RegexInv
  <2>6. CASE StarStep
    BY <2>1, <2>6, StarInv
  <2>7. CASE RegexLast
    BY <2>1, <2>7, LastInv
  <2> QED
    BY <1>1, <2>2, <2>3, <2>4, <2>5, <2>6, <2>7 DEF Next
<1>2. CASE UNCHANGED vars
  BY <1>2 DEF vars, ScanInv, ScanType, Content, Table, Left, ByBlank, ByChar, ByRegex,
              IsRegex, sep, Seps, Modelled, MatchesEmpty
<1> QED
  BY <1>1, <1>2

LEMMA ScanInvHolds == Spec => []ScanInv
BY ScanInit, ScanNext, PTL DEF Spec
-----------------------------------------------------------------------------
(* What the whole text gives is what the reference says.                   *)
LEMMA SameCuts ==
  ASSUME NEW t \in Seq(STRING), NEW c, "\n" \notin ToSet(t)
  PROVE  Pieces(t, {c} \cup {"\n"}) = Pieces(t, {c})
<1>1. \A p \in 1..Len(t) : t[p] # "\n"
  BY DEF ToSet
<1>2. Cuts(t, {c} \cup {"\n"}) = Cuts(t, {c})
  BY <1>1 DEF Cuts
<1> QED
  BY Zenon, <1>2 DEF Pieces

LEMMA LeftIsReference ==
  ASSUME ScanType, Modelled,
         fun = "fldbld" \/ para \/ "\n" \notin ToSet(text)
  PROVE  Reference = IF text = <<>> THEN <<>> ELSE Left(text)
<1>1. text \in Seq(STRING) /\ fs \in Seq(STRING \ {"none"}) /\ Len(fs) \in Nat
      /\ para \in BOOLEAN
  BY DEF ScanType
<1> DEFINE n == Len(fs)
<1> HIDE DEF n
<1>0. /\ n \in Nat /\ (n = 0 \/ n = 1 \/ n > 1) /\ ~(n > 1 /\ n = 1) /\ (n = 0 => fs = <<>>)
          /\ (n > 1 => fs # Blank /\ fs # <<>>)
  <2>1. n \in Nat
    BY <1>1 DEF n
  <2>2. n = 0 => fs = <<>>
    BY <1>1 DEF n
  <2>3. fs = <<>> => n = 0
    BY DEF n
  <2>4. fs = Blank => n = 1
    <3>1. Len(<<" ">>) = 1
      OBVIOUS
    <3> QED
      BY Zenon, <3>1 DEF n, Blank
  <2> QED
    BY <2>1, <2>2, <2>3, <2>4
<1>2. CASE text = <<>>
  BY <1>2 DEF Reference, SplitBy
<1>3. CASE text # <<>> /\ Len(fs) > 1
  <2>1. ByRegex /\ ~ByBlank /\ ~ByChar
    BY <1>3 DEF Modelled, ByRegex, ByBlank, ByChar, IsRegex, ScanType
  <2>2. Left(text) = Pieces(text, ToSet(fs))
    BY <2>1 DEF Left, Seps
  <2>3. Reference = SplitBy(text, fs)
    <3>1. Len(fs) # 1
      BY <1>3, <1>0 DEF n
    <3> QED
      BY Zenon, <3>1 DEF Reference
  <2>4. SplitBy(text, fs) = Pieces(text, ToSet(fs))
    <3>1. fs # Blank /\ fs # <<>>
      BY <1>3, <1>0 DEF n
    <3> QED
      BY Zenon, <1>3, <3>1 DEF SplitBy, IsRegexFS
  <2> QED
    BY <1>3, <2>2, <2>3, <2>4
<1>4. CASE text # <<>> /\ fs = <<>>
  <2>1. ByChar /\ ~ByBlank
    BY <1>4 DEF ByRegex, ByBlank, ByChar, IsRegex, sep
  <2>2. Left(text) = Chars(text)
    BY <2>1 DEF Left
  <2>3. Reference = SplitBy(text, fs)
    BY <1>4 DEF Reference
  <2>4. SplitBy(text, fs) = Chars(text)
    BY <1>4 DEF SplitBy, IsRegexFS, Blank, Chars
  <2> QED
    BY <1>4, <2>2, <2>3, <2>4
<1>5. CASE text # <<>> /\ fs = Blank
  <2> DEFINE b == <<" ">>
  <2>1. fs = b /\ Len(b) = 1 /\ b # <<>> /\ b[1] = " "
    BY <1>5 DEF Blank
  <2> HIDE DEF b
  <2>5. ~(Len(fs) > 1) /\ fs # <<>> /\ fs[1] = " "
    <3>1. n = 1
      BY <2>1 DEF n
    <3>2. ~(n > 1)
      BY <3>1
    <3> QED
      BY <2>1, <3>2 DEF n
  <2>6. ByBlank
    BY <2>5 DEF ByRegex, ByBlank, IsRegex, sep
  <2>2. Left(text) = Words(text)
    BY <2>6 DEF Left
  <2>3. Reference = SplitBy(text, fs)
    BY <1>5 DEF Reference
  <2>4. SplitBy(text, fs) = Words(text)
    BY Zenon, <1>5, <2>5 DEF SplitBy, IsRegexFS, Words
  <2> QED
    BY <1>5, <2>2, <2>3, <2>4
<1>6. CASE text # <<>> /\ Len(fs) = 1 /\ fs # Blank
  <2>1. fs = <<fs[1]>> /\ fs[1] \in STRING \ {"none"} /\ fs # <<>>
    BY <1>1, <1>6
  <2>2. fs[1] # " "
    BY <1>6, <2>1 DEF Blank
  <2>3. ~ByRegex /\ sep = fs[1]
    BY <1>6, <2>1 DEF ByRegex, IsRegex, sep
  <2>4. ~ByBlank /\ ~ByChar
    BY <2>1, <2>2, <2>3 DEF ByBlank, ByChar
  <2>5. Left(text) = Pieces(text, {fs[1]} \cup IF para \/ fun # "fldbld" THEN {"\n"} ELSE {})
    BY <2>3, <2>4 DEF Left, Seps
  <2>6. ToSet(fs) = {fs[1]}
    BY <1>6, <2>1 DEF ToSet
  <2>7. Reference = Pieces(text, IF para THEN {fs[1]} \cup {"\n"} ELSE {fs[1]})
    BY <1>6, <2>6 DEF Reference, Separators
  <2>8. CASE para \/ fun = "fldbld"
    <3>1. {fs[1]} \cup {} = {fs[1]}
      OBVIOUS
    <3> QED
      BY Zenon, <1>6, <2>5, <2>7, <2>8, <3>1
  <2>9. CASE ~para /\ fun # "fldbld"
    <3>1. Pieces(text, {fs[1]} \cup {"\n"}) = Pieces(text, {fs[1]})
      BY <1>1, <2>9, SameCuts
    <3> QED
      BY Zenon, <1>6, <2>5, <2>7, <2>9, <3>1
  <2> QED
    BY <2>8, <2>9
<1> QED
  <2>1. (Len(fs) = 0 => fs = <<>>) /\ (Len(fs) = 0 \/ Len(fs) = 1 \/ Len(fs) > 1)
    BY Zenon, <1>0 DEF n
  <2> QED
    BY Zenon, <1>2, <1>3, <1>4, <1>5, <1>6, <2>1

\* When the loop of fldbld or refldbld has ended, the fields are the pieces of
\* the record that the reference gives, in their order and none twice, and the
\* table has the cells that storing them one by one asks for; a field past the
\* table is the last of refldbld, when those before it fill the table.
THEOREM FieldsAreReference == Spec => []FieldsAsReference
<1>1. ScanInv => FieldsAsReference
  <2> SUFFICES ASSUME ScanInv, fun = "fldbld"
               PROVE  /\ state = "done" => out = Reference
                      /\ state = "done" /\ ~IsRegex => cells = TableAfter(DEFAULT_FLD, Len(out))
                      /\ state = "overrun" => ByRegex /\ Len(out) = cells + 1
                      /\ state # "overrun" => Len(out) <= cells
    BY DEF FieldsAsReference
  <2>1. state = "done" => out = Reference
    <3>1. CASE MatchesEmpty
      <4>1. Len(fs) # 1
        BY <3>1 DEF MatchesEmpty, ByRegex, IsRegex
      <4>2. Reference = SplitBy(text, fs)
        BY Zenon, <4>1 DEF Reference
      <4>3. text = <<>> => SplitBy(text, fs) = <<>>
        BY Zenon DEF SplitBy
      <4>4. state = "done" => text = <<>> /\ out = <<>>
        BY <3>1 DEF ScanInv, Content
      <4> QED
        BY Zenon, <4>2, <4>3, <4>4
    <3>2. CASE ~MatchesEmpty
      BY <3>2, LeftIsReference DEF ScanInv, Content, Modelled
    <3> QED
      BY <3>1, <3>2
  <2>2. ~IsRegex => ~ByRegex
    BY DEF ByRegex
  <2> QED
    BY <2>1, <2>2 DEF ScanInv, Table
<1> QED
  BY <1>1, ScanInvHolds, PTL

\* What split stores is what the fields of the text would be, when FS is not
\* longer than a character and no newline tells them apart.
THEOREM SplitsAreFields == Spec => []SplitAsFields
<1>1. ScanInv => SplitAsFields
  <2>1. ~IsRegex => ~MatchesEmpty
    BY DEF MatchesEmpty, ByRegex
  <2> QED
    BY <2>1, LeftIsReference DEF ScanInv, Content, Modelled, SplitAsFields
<1> QED
  BY <1>1, ScanInvHolds, PTL
-----------------------------------------------------------------------------
(* What RecField assumes of splitting and joining texts holds of SplitBy   *)
(* and JoinBy.                                                             *)
\* f is the recursive function of FlattenSeq, as far as n.
Flattens(s, n, f) ==
  f = [i \in 1..n |-> IF i = 1 THEN s[i] ELSE f[i - 1] \o s[i]]

LEMMA FlattensLonger ==
  ASSUME NEW s, NEW n \in Nat, n >= 1, NEW g, Flattens(s, n, g)
  PROVE  \E f : Flattens(s, n + 1, f)
<1> DEFINE f == [i \in 1..n + 1 |-> IF i = n + 1 THEN g[n] \o s[n + 1] ELSE g[i]]
           e(i) == IF i = 1 THEN s[i] ELSE f[i - 1] \o s[i]
<1>1. ASSUME NEW i \in 1..n + 1 PROVE f[i] = e(i)
  <2>1. CASE i = n + 1
    <3>1. i # 1 /\ i - 1 = n /\ n \in 1..n + 1 /\ n # n + 1
      BY <2>1
    <3>2. f[n] = g[n]
      BY <3>1
    <3> QED
      BY <2>1, <3>1, <3>2
  <2>2. CASE i # n + 1
    <3>1. i \in 1..n
      BY <2>2
    <3>2. g[i] = IF i = 1 THEN s[i] ELSE g[i - 1] \o s[i]
      BY <3>1 DEF Flattens
    <3>3. i # 1 => i - 1 \in 1..n + 1 /\ i - 1 # n + 1
      BY <3>1
    <3>4. i # 1 => f[i - 1] = g[i - 1]
      BY <3>3
    <3> QED
      BY <2>2, <3>2, <3>4
  <2> QED
    BY <2>1, <2>2
<1>2. f = [i \in 1..n + 1 |-> e(i)]
  <2> HIDE DEF e
  <2> QED
    BY <1>1
<1>3. Flattens(s, n + 1, f)
  BY <1>2, Zenon DEF Flattens
<1> QED
  BY <1>3

LEMMA FlattensExists ==
  ASSUME NEW s, NEW n \in Nat \ {0}
  PROVE  \E f : Flattens(s, n, f)
<1> DEFINE Bad == {k \in Nat \ {0} : ~\E f : Flattens(s, k, f)}
<1> SUFFICES ASSUME Bad # {} PROVE FALSE
  OBVIOUS
<1>1. PICK k \in Bad : \A m \in Bad : k <= m
  BY LeastOf
<1>2. CASE k = 1
  <2> DEFINE f == [i \in 1..1 |-> s[1]]
  <2>1. Flattens(s, 1, f)
    BY DEF Flattens
  <2> QED
    BY <1>2, <2>1
<1>3. CASE k # 1
  <2>1. k - 1 \in Nat \ {0} /\ ~(k <= k - 1)
    BY <1>3
  <2>2. \E f : Flattens(s, k - 1, f)
    BY <1>1, <2>1
  <2>3. \E f : Flattens(s, (k - 1) + 1, f)
    BY <2>1, <2>2, FlattensLonger
  <2>4. (k - 1) + 1 = k
    OBVIOUS
  <2> QED
    BY <2>3, <2>4
<1> QED
  BY <1>2, <1>3

LEMMA FlattenBy ==
  ASSUME NEW s, Len(s) \in Nat \ {0}
  PROVE  \E f : Flattens(s, Len(s), f) /\ FlattenSeq(s) = f[Len(s)]
<1>1. FlattenSeq(s) = (CHOOSE f : Flattens(s, Len(s), f))[Len(s)]
  BY DEF FlattenSeq, Flattens
<1>2. Flattens(s, Len(s), CHOOSE f : Flattens(s, Len(s), f))
  BY FlattensExists
<1> QED
  BY <1>1, <1>2

LEMMA FlattensTyped ==
  ASSUME NEW S, NEW s \in Seq(Seq(S)), NEW f, Flattens(s, Len(s), f)
  PROVE  \A i \in 1..Len(s) : f[i] \in Seq(S)
<1>0. Len(s) \in Nat /\ \A i \in 1..Len(s) : s[i] \in Seq(S)
  BY LenProperties, ElementOfSeq
<1> DEFINE Bad == {i \in 1..Len(s) : f[i] \notin Seq(S)}
<1> SUFFICES ASSUME Bad # {} PROVE FALSE
  OBVIOUS
<1>1. PICK k \in Bad : \A m \in Bad : k <= m
  <2>1. Bad \subseteq Nat
    BY <1>0
  <2> QED
    BY <2>1, LeastOf
<1>2. f[k] = IF k = 1 THEN s[k] ELSE f[k - 1] \o s[k]
  BY DEF Flattens
<1>3. CASE k = 1
  BY <1>0, <1>2, <1>3
<1>4. CASE k # 1
  <2>1. k - 1 \in 1..Len(s) /\ ~(k <= k - 1)
    BY <1>0, <1>4
  <2>2. f[k - 1] \in Seq(S) /\ s[k] \in Seq(S)
    BY <1>0, <1>1, <2>1
  <2>3. f[k - 1] \o s[k] \in Seq(S)
    BY <2>2, ConcatProperties
  <2> QED
    BY <1>2, <1>4, <2>3
<1> QED
  BY <1>3, <1>4

LEMMA FlattenTyped ==
  ASSUME NEW S, NEW s \in Seq(Seq(S)) PROVE FlattenSeq(s) \in Seq(S)
<1>1. Len(s) \in Nat
  OBVIOUS
<1>2. CASE Len(s) = 0
  <2>1. s = <<>>
    BY <1>2, EmptySeq
  <2>2. FlattenSeq(s) = s
    BY Zenon, <1>2 DEF FlattenSeq
  <2>3. s \in Seq(S)
    BY <2>1, EmptySeq
  <2> QED
    BY Zenon, <2>2, <2>3
<1>3. CASE Len(s) # 0
  <2>1. PICK f : Flattens(s, Len(s), f) /\ FlattenSeq(s) = f[Len(s)]
    BY <1>1, <1>3, FlattenBy
  <2>2. Len(s) \in 1..Len(s)
    BY <1>1, <1>3
  <2>3. f[Len(s)] \in Seq(S)
    BY <2>1, <2>2, FlattensTyped
  <2> QED
    BY <2>1, <2>3
<1> QED
  BY <1>2, <1>3

LEMMA JoinTyped ==
  ASSUME NEW S, NEW f \in Seq(Seq(S)), NEW s \in Seq(S)
  PROVE  JoinBy(f, s) \in Seq(S) /\ JoinBy(<<>>, s) = <<>>
<1> DEFINE J(g) == [i \in 1..Len(g) |-> IF i < Len(g) THEN g[i] \o s ELSE g[i]]
<1>1. Len(f) \in Nat /\ \A i \in 1..Len(f) : f[i] \in Seq(S)
  OBVIOUS
<1>2. \A i \in 1..Len(f) : f[i] \o s \in Seq(S)
  BY <1>1, ConcatProperties
<1>3. J(f) \in [1..Len(f) -> Seq(S)]
  BY <1>1, <1>2
<1>4. J(f) \in Seq(Seq(S))
  BY <1>1, <1>3, IsASeq
<1>5. JoinBy(f, s) \in Seq(S)
  BY <1>4, FlattenTyped DEF JoinBy
<1>6. JoinBy(<<>>, s) = <<>>
  <2> DEFINE z == <<>>
  <2>1. z \in Seq(Seq(S)) /\ Len(z) = 0 /\ 1..Len(z) = {}
    OBVIOUS
  <2> HIDE DEF z
  <2>2. J(z) \in [1..0 -> Seq(S)]
    BY <2>1
  <2>3. J(z) \in Seq(Seq(S)) /\ Len(J(z)) = 0
    BY <2>2, IsASeq
  <2>4. J(z) = <<>>
    BY <2>3, EmptySeq
  <2>5. FlattenSeq(J(z)) = J(z)
    BY Zenon, <2>3 DEF FlattenSeq
  <2> QED
    BY Zenon, <2>4, <2>5 DEF JoinBy, z
<1> QED
  BY <1>5, <1>6

LEMMA SplitTyped ==
  ASSUME NEW S, NEW t \in Seq(S), NEW s \in Seq(S)
  PROVE  SplitBy(t, s) \in Seq(Seq(S)) /\ SplitBy(<<>>, s) = <<>>
<1>1. <<>> \in Seq(Seq(S))
  OBVIOUS
<1>2. \A q : Pieces(t, q) \in Seq(Seq(S))
  BY PiecesTyped
<1>3. NonEmpty(Pieces(t, Blanks)) \in Seq(Seq(S))
  BY <1>2, NonEmptyTyped
<1>4. [i \in 1..Len(t) |-> <<t[i]>>] \in Seq(Seq(S))
  BY CharsTyped DEF Chars
<1>5. \/ SplitBy(t, s) = <<>>
      \/ SplitBy(t, s) = Pieces(t, ToSet(s))
      \/ SplitBy(t, s) = NonEmpty(Pieces(t, Blanks))
      \/ SplitBy(t, s) = [i \in 1..Len(t) |-> <<t[i]>>]
  <2> DEFINE d == [i \in 1..Len(t) |-> <<t[i]>>]
             w == NonEmpty(Pieces(t, Blanks))
             p == Pieces(t, ToSet(s))
             n == Len(s)
  <2>1. SplitBy(t, s) = CASE t = <<>> -> <<>> [] t # <<>> /\ n > 1 -> p
                          [] t # <<>> /\ s = Blank -> w [] t # <<>> /\ s = <<>> -> d
                          [] OTHER -> p
    BY Zenon DEF SplitBy, IsRegexFS
  <2>2. n \in Nat /\ (s = <<>> => n = 0)
    OBVIOUS
  <2>3. s = Blank => n = 1
    <3>1. Len(<<" ">>) = 1
      OBVIOUS
    <3> QED
      BY Zenon, <3>1 DEF Blank
  <2> HIDE DEF d, w, p, n
  <2>4. (n > 1 => s # Blank /\ s # <<>>) /\ (s = Blank => s # <<>>)
    BY <2>2, <2>3
  <2>5. SplitBy(t, s) = <<>> \/ SplitBy(t, s) = p \/ SplitBy(t, s) = w \/ SplitBy(t, s) = d
    BY <2>1, <2>4
  <2> QED
    BY Zenon, <2>5 DEF d, w, p
<1>6. SplitBy(<<>>, s) = <<>>
  BY Zenon DEF SplitBy
<1> QED
  BY Zenon, <1>1, <1>2, <1>3, <1>4, <1>5, <1>6

\* SplitJoinTyped, the hypothesis of the theorems about the record cache, holds
\* of SplitBy and JoinBy: texts of any atoms, with any of them as FS and OFS.
THEOREM TextsAreTyped ==
  ASSUME NEW Atoms
  PROVE  /\ \A t, s \in Seq(Atoms) : SplitBy(t, s) \in Seq(Seq(Atoms))
         /\ \A s \in Seq(Atoms) : SplitBy(<<>>, s) = <<>>
         /\ \A f \in Seq(Seq(Atoms)), s \in Seq(Atoms) : JoinBy(f, s) \in Seq(Atoms)
         /\ \A s \in Seq(Atoms) : JoinBy(<<>>, s) = <<>>
<1>1. \A t, s \in Seq(Atoms) : SplitBy(t, s) \in Seq(Seq(Atoms)) /\ SplitBy(<<>>, s) = <<>>
  BY SplitTyped
<1>2. \A f \in Seq(Seq(Atoms)), s \in Seq(Atoms) :
        JoinBy(f, s) \in Seq(Atoms) /\ JoinBy(<<>>, s) = <<>>
  BY JoinTyped
<1>3. <<>> \in Seq(Seq(Atoms)) /\ <<>> \in Seq(Atoms)
  OBVIOUS
<1> QED
  BY Zenon, <1>1, <1>2, <1>3
=============================================================================
