--------------------------- MODULE RecFieldProofs ---------------------------
(***************************************************************************)
(* Proofs about the record cache, for all texts, values and bounds: first  *)
(* the programs of Core, whose cache is sound, then every program and host.*)
(***************************************************************************)
EXTENDS RecFieldProps, FiniteSetTheorems, SequenceTheorems, TLAPS

CacheType == [rec : Text, fld : Seq(Text), nf : Nat, donefld : BOOLEAN,
              donerec : BOOLEAN, fs : Text, ofs : Text,
              fault : {"none", "runaway", "overrun"}]

\* A cache no operation has spoiled: the table reaches NF and is empty past it.
Sound(c) == /\ c \in CacheType
            /\ c.fault = "none"
            /\ ~IsRegex(c.fs)
            /\ c.nf <= Len(c.fld)
            /\ \A i \in c.nf + 1 .. Len(c.fld) : c.fld[i] = <<>>

\* ... and one of the two forms is valid.
Valid(c) == Sound(c) /\ (c.donefld \/ c.donerec)

LEMMA EmptyText == <<>> \in Text
  BY DEF Text

LEMMA PrefixEqual ==
  ASSUME NEW f \in Seq(Text), NEW g \in Seq(Text), Len(g) <= Len(f),
         \A i \in 1..Len(g) : f[i] = g[i]
  PROVE  SubSeq(f, 1, Len(g)) = g
  <1>1. /\ SubSeq(f, 1, Len(g)) \in Seq(Text)
        /\ Len(SubSeq(f, 1, Len(g))) = Len(g)
        /\ \A i \in 1..Len(g) : SubSeq(f, 1, Len(g))[i] = f[i]
    OBVIOUS
  <1> QED  BY <1>1, SeqEqual

LEMMA ExtendTyped ==
  ASSUME NEW f \in Seq(Text), NEW n \in Nat
  PROVE  /\ Extend(f, n) \in Seq(Text)
         /\ Len(Extend(f, n)) = n
         /\ \A i \in 1..n : Extend(f, n)[i] = IF i <= Len(f) THEN f[i] ELSE <<>>
  <1>1. \A i \in 1..n : Extend(f, n)[i] = IF i <= Len(f) THEN f[i] ELSE <<>>
    BY DEF Extend
  <1>2. \A i \in 1..n : Extend(f, n)[i] \in Text
    BY <1>1, EmptyText
  <1>3. Extend(f, n) \in [1..n -> Text]
    BY <1>2 DEF Extend
  <1> QED  BY <1>1, <1>3

\* growfldtab keeps every cell, makes the one asked for and leaves new ones empty.
LEMMA GrowTyped ==
  ASSUME NEW f \in Seq(Text), NEW n \in Nat
  PROVE  /\ growfldtab(f, n) \in Seq(Text)
         /\ Len(growfldtab(f, n)) >= n
         /\ Len(growfldtab(f, n)) >= Len(f)
         /\ \A i \in 1..Len(growfldtab(f, n)) :
              growfldtab(f, n)[i] = IF i <= Len(f) THEN f[i] ELSE <<>>
  <1>1. CASE n <= Len(f)
    BY <1>1 DEF growfldtab
  <1>2. CASE ~(n <= Len(f))
    <2> DEFINE m == Max2(2 * (Len(f) + 1), n)
    <2>1. m \in Nat /\ m >= n /\ m >= Len(f)
      BY DEF Max2
    <2>2. growfldtab(f, n) = Extend(f, m)
      BY <1>2 DEF growfldtab
    <2> HIDE DEF m
    <2>3. /\ Extend(f, m) \in Seq(Text) /\ Len(Extend(f, m)) = m
          /\ \A i \in 1..m : Extend(f, m)[i] = IF i <= Len(f) THEN f[i] ELSE <<>>
      BY <2>1, ExtendTyped
    <2> QED  BY <2>1, <2>2, <2>3
  <1> QED  BY <1>1, <1>2

LEMMA TableAfterTyped ==
  ASSUME NEW len \in Nat, NEW k \in Nat
  PROVE  /\ TableAfter(len, k) \in Nat
         /\ TableAfter(len, k) >= k
         /\ TableAfter(len, k) >= len
  <1> DEFINE size == Sizes(len)
             spare == {i \in k + 1 .. 2 * k :
                         \A j \in 1..k : size[j] >= k => i <= size[j]}
  <1>1. IsFiniteSet(spare)
    <2>1. IsFiniteSet(k + 1 .. 2 * k)
      BY FS_Interval
    <2> QED  BY <2>1, FS_Subset
  <1>2. Cardinality(spare) \in Nat
    BY <1>1, FS_CardinalityType
  <1>3. TableAfter(len, k) = IF k <= len THEN len ELSE k + Cardinality(spare)
    BY DEF TableAfter
  <1> HIDE DEF spare
  <1> QED  BY <1>2, <1>3

LEMMA CleanTyped ==
  ASSUME NEW f \in Seq(Text), NEW a \in Nat, NEW b \in Nat
  PROVE  /\ cleanfld(f, a, b) \in Seq(Text)
         /\ Len(cleanfld(f, a, b)) = Len(f)
         /\ \A i \in 1..Len(f) :
              cleanfld(f, a, b)[i] = IF a <= i /\ i <= b THEN <<>> ELSE f[i]
  <1>1. DOMAIN f = 1..Len(f) /\ Len(f) \in Nat
    OBVIOUS
  <1>2. \A i \in 1..Len(f) :
          cleanfld(f, a, b)[i] = IF a <= i /\ i <= b THEN <<>> ELSE f[i]
    BY <1>1 DEF cleanfld
  <1>3. \A i \in 1..Len(f) : cleanfld(f, a, b)[i] \in Text
    BY <1>2, EmptyText
  <1>4. cleanfld(f, a, b) \in [1..Len(f) -> Text]
    BY <1>1, <1>3 DEF cleanfld
  <1> QED  BY <1>1, <1>2, <1>4
-----------------------------------------------------------------------------
(* The functions of the cache keep it sound.                               *)

LEMMA RecbldValid ==
  ASSUME NEW c, Valid(c), SplitJoinTyped
  PROVE  /\ Valid(recbld(c)) /\ recbld(c).donerec
         /\ recbld(c).donefld = c.donefld
         /\ recbld(c).fld = c.fld /\ recbld(c).nf = c.nf
         /\ recbld(c).fs = c.fs /\ recbld(c).ofs = c.ofs
         /\ recbld(c).rec = IF c.donerec THEN c.rec
                            ELSE Join(SubSeq(c.fld, 1, c.nf), c.ofs)
  <1>1. CASE c.donerec
    BY <1>1 DEF recbld, Valid, Sound, CacheType, Faulty
  <1>2. CASE ~c.donerec
    <2>1. SubSeq(c.fld, 1, c.nf) \in Seq(Text)
      BY DEF Valid, Sound, CacheType
    <2>2. Join(SubSeq(c.fld, 1, c.nf), c.ofs) \in Text
      BY <2>1 DEF SplitJoinTyped, Valid, Sound, CacheType
    <2>3. recbld(c) = [c EXCEPT !.rec = Join(SubSeq(c.fld, 1, c.nf), c.ofs),
                                !.donerec = TRUE]
      BY <1>2 DEF recbld, Valid, Sound, CacheType, Faulty
    <2> QED  BY <1>2, <2>2, <2>3 DEF Valid, Sound, CacheType
  <1> QED  BY <1>1, <1>2

\* What fldbld makes of a valid cache whose fields are out of date.
LEMMA FldbldSplits ==
  ASSUME NEW c, Valid(c), SplitJoinTyped, ~c.donefld
  PROVE  /\ Valid(fldbld(c)) /\ fldbld(c).donefld /\ fldbld(c).donerec
         /\ fldbld(c).rec = c.rec
         /\ fldbld(c).fs = c.fs /\ fldbld(c).ofs = c.ofs
         /\ fldbld(c).nf = Len(Split(c.rec, c.fs))
         /\ SubSeq(fldbld(c).fld, 1, fldbld(c).nf) = Split(c.rec, c.fs)
         /\ Len(c.fld) <= Len(fldbld(c).fld)
  <1> DEFINE new   == Split(c.rec, c.fs)
             k     == Len(new)
             cells == TableAfter(Len(c.fld), k)
             tail  == cleanfld(Extend(c.fld, cells), k + 1, c.nf)
             f     == [i \in 1..cells |-> IF i <= k THEN new[i] ELSE tail[i]]
  <1>1. c \in CacheType /\ c.donerec /\ c.fault = "none" /\ ~IsRegex(c.fs)
    BY DEF Valid, Sound, CacheType
  <1>2. recbld(c) = c
    BY <1>1 DEF recbld
  <1>3. new \in Seq(Text) /\ k \in Nat
    BY <1>1 DEF SplitJoinTyped, CacheType
  <1>4. cells \in Nat /\ cells >= k /\ cells >= Len(c.fld) /\ cells >= c.nf
    BY <1>1, <1>3, TableAfterTyped DEF Valid, Sound, CacheType
  <1>5. /\ tail \in Seq(Text) /\ Len(tail) = cells
        /\ \A i \in k + 1 .. cells : tail[i] = <<>>
    <2>1. c.fld \in Seq(Text) /\ c.nf \in Nat /\ k + 1 \in Nat
      BY <1>1, <1>3 DEF CacheType
    <2>2. /\ Extend(c.fld, cells) \in Seq(Text)
          /\ Len(Extend(c.fld, cells)) = cells
          /\ \A i \in 1..cells : Extend(c.fld, cells)[i]
                                   = IF i <= Len(c.fld) THEN c.fld[i] ELSE <<>>
      BY <1>4, <2>1, ExtendTyped
    <2>3. \A i \in c.nf + 1 .. Len(c.fld) : c.fld[i] = <<>>
      BY DEF Valid, Sound
    <2> HIDE DEF k, cells
    <2> DEFINE g == Extend(c.fld, cells)
    <2> HIDE DEF g
    <2>4. /\ cleanfld(g, k + 1, c.nf) \in Seq(Text)
          /\ Len(cleanfld(g, k + 1, c.nf)) = Len(g)
          /\ \A i \in 1..Len(g) : cleanfld(g, k + 1, c.nf)[i]
                                   = IF k + 1 <= i /\ i <= c.nf THEN <<>> ELSE g[i]
      BY <2>1, <2>2, CleanTyped DEF g
    <2>5. tail = cleanfld(g, k + 1, c.nf)
      BY DEF g
    <2> HIDE DEF tail
    <2>6. /\ Len(g) = cells /\ \A i \in 1..cells : g[i] = IF i <= Len(c.fld) THEN c.fld[i] ELSE <<>>
      BY <2>2 DEF g
    <2>7. tail \in Seq(Text) /\ Len(tail) = cells
      BY ONLY <2>4, <2>5, <2>6
    <2>8. ASSUME NEW i \in k + 1 .. cells PROVE tail[i] = <<>>
      <3>1. i \in 1..cells /\ k + 1 <= i /\ i \in Nat
        BY ONLY <1>3, <1>4, i \in k + 1 .. cells
      <3>2. tail[i] = IF k + 1 <= i /\ i <= c.nf THEN <<>> ELSE g[i]
        BY ONLY <2>4, <2>5, <2>6, <3>1
      <3>3. g[i] = IF i <= Len(c.fld) THEN c.fld[i] ELSE <<>>
        BY ONLY <2>6, <3>1
      <3>4. Len(c.fld) \in Nat
        BY ONLY <2>1
      <3>5. CASE i <= c.nf
        BY ONLY <3>1, <3>2, <3>5
      <3>6. CASE ~(i <= c.nf)
        BY ONLY <2>1, <2>3, <3>1, <3>2, <3>3, <3>4, <3>6
      <3> QED  BY <3>5, <3>6
    <2> QED  BY ONLY <2>7, <2>8
  <1>6. fldbld(c) = [c EXCEPT !.fld = f, !.nf = k, !.donefld = TRUE, !.donerec = TRUE]
    <2>1. ~(k > cells \/ c.nf > cells)
      <3> HIDE DEF k, cells
      <3> QED  BY <1>1, <1>3, <1>4 DEF CacheType
    <2>2. cells = TableAfter(Len(c.fld), IF IsRegex(c.fs) /\ k > 0 THEN k - 1 ELSE k)
      BY <1>1
    <2> QED  BY <1>1, <1>2, <2>1, <2>2, Zenon DEF fldbld, Resplit, Fill, Filled, Guarded, Faulty
  <1>7. /\ f \in Seq(Text) /\ Len(f) = cells
        /\ \A i \in k + 1 .. cells : f[i] = <<>>
        /\ \A i \in 1..k : f[i] = new[i]
    <2> HIDE DEF new, tail, cells
    <2>1. \A i \in 1..cells : f[i] \in Text
      BY <1>3, <1>4, <1>5
    <2>2. f \in [1..cells -> Text]
      BY <2>1
    <2>3. cells \in Nat /\ cells >= k /\ k \in Nat
      BY <1>3, <1>4
    <2> HIDE DEF k
    <2>4. \A i \in 1..cells : f[i] = IF i <= k THEN new[i] ELSE tail[i]
      OBVIOUS
    <2>5. \A i \in k + 1 .. cells : tail[i] = <<>>
      BY <1>5
    <2>6. f \in Seq(Text) /\ Len(f) = cells
      BY ONLY <2>2, <2>3
    <2> HIDE DEF f
    <2>7. ASSUME NEW i \in k + 1 .. cells PROVE f[i] = <<>>
      <3>1. i \in 1..cells /\ ~(i <= k)
        BY ONLY <2>3, i \in k + 1 .. cells
      <3> QED  BY ONLY <2>4, <2>5, <3>1, i \in k + 1 .. cells
    <2>8. ASSUME NEW i \in 1..k PROVE f[i] = new[i]
      <3>1. i \in 1..cells /\ i <= k
        BY ONLY <2>3, i \in 1..k
      <3> QED  BY ONLY <2>4, <3>1
    <2> QED  BY ONLY <2>6, <2>7, <2>8
  <1>8. SubSeq(f, 1, k) = new
    <2>1. k = Len(new)
      OBVIOUS
    <2> HIDE DEF f, new, cells, k
    <2>2. Len(new) <= Len(f)
      BY <1>3, <1>4, <1>7, <2>1
    <2>3. \A i \in 1..Len(new) : f[i] = new[i]
      BY <1>7, <2>1
    <2> QED  BY <1>3, <1>7, <2>1, <2>2, <2>3, PrefixEqual
  <1> HIDE DEF f, new, cells
  <1>9. k \in Nat /\ c.rec \in Text /\ k <= Len(f)
    BY <1>1, <1>3, <1>4, <1>7 DEF CacheType
  <1>10. fldbld(c) \in CacheType
    BY <1>1, <1>6, <1>7, <1>9 DEF CacheType
  <1>11. /\ fldbld(c).fld = f /\ fldbld(c).nf = k
         /\ fldbld(c).donefld = TRUE /\ fldbld(c).donerec = TRUE
         /\ fldbld(c).rec = c.rec /\ fldbld(c).fs = c.fs
         /\ fldbld(c).ofs = c.ofs /\ fldbld(c).fault = c.fault
    BY <1>1, <1>6 DEF CacheType
  <1> HIDE DEF k
  <1>12. Valid(fldbld(c))
    BY <1>1, <1>7, <1>9, <1>10, <1>11 DEF Valid, Sound
  <1>13. Len(c.fld) <= Len(f)
    BY <1>4, <1>7
  <1> QED  BY <1>8, <1>11, <1>12, <1>13 DEF new, k

LEMMA FldbldValid ==
  ASSUME NEW c, Valid(c), SplitJoinTyped
  PROVE  /\ Valid(fldbld(c)) /\ fldbld(c).donefld
         /\ Len(c.fld) <= Len(fldbld(c).fld)
  <1>1. CASE c.donefld
    BY <1>1 DEF fldbld, Valid, Sound, CacheType
  <1>2. CASE ~c.donefld
    BY <1>2, FldbldSplits
  <1> QED  BY <1>1, <1>2

\* A write to a valid field (Touch and PutCell): the fields are valid, the
\* table reaches the cell.
LEMMA SetlastfldSound ==
  ASSUME NEW c, Sound(c), NEW n \in Nat
  PROVE  /\ Sound(setlastfld(c, n))
         /\ setlastfld(c, n).nf = n
         /\ setlastfld(c, n).donefld = c.donefld
         /\ setlastfld(c, n).donerec = c.donerec
         /\ setlastfld(c, n).rec = c.rec
         /\ setlastfld(c, n).fs = c.fs /\ setlastfld(c, n).ofs = c.ofs
         /\ Len(c.fld) <= Len(setlastfld(c, n).fld)
         /\ c.nf <= n =>
              \A i \in 1..n : setlastfld(c, n).fld[i]
                                = IF i <= c.nf THEN c.fld[i] ELSE <<>>
  <1> DEFINE g == growfldtab(c.fld, n)
  <1>1. c \in CacheType /\ c.fault = "none" /\ c.nf \in Nat /\ c.nf <= Len(c.fld)
        /\ c.fld \in Seq(Text)
    BY DEF Sound, CacheType
  <1>2. /\ g \in Seq(Text) /\ Len(g) >= n /\ Len(g) >= Len(c.fld)
        /\ \A i \in 1..Len(g) : g[i] = IF i <= Len(c.fld) THEN c.fld[i] ELSE <<>>
    BY <1>1, GrowTyped
  <1> DEFINE h == IF c.nf < n THEN cleanfld(g, c.nf + 1, n) ELSE cleanfld(g, n + 1, c.nf)
  <1>3. setlastfld(c, n) = [c EXCEPT !.fld = h, !.nf = n]
    <2>1. ~(c.nf > Len(g))
      <3> HIDE DEF g
      <3> QED  BY <1>1, <1>2
    <2> QED  BY <1>1, <2>1 DEF setlastfld, Lengthen, Faulty
  <1>4. \A i \in c.nf + 1 .. Len(c.fld) : c.fld[i] = <<>>
    BY DEF Sound
  <1>5. /\ h \in Seq(Text) /\ Len(h) = Len(g)
        /\ \A i \in 1..Len(g) :
             h[i] = IF i > n \/ i > c.nf THEN <<>> ELSE c.fld[i]
    <2> HIDE DEF g
    <2>1. CASE c.nf < n
      <3>1. /\ cleanfld(g, c.nf + 1, n) \in Seq(Text)
            /\ Len(cleanfld(g, c.nf + 1, n)) = Len(g)
            /\ \A i \in 1..Len(g) : cleanfld(g, c.nf + 1, n)[i]
                                    = IF c.nf + 1 <= i /\ i <= n THEN <<>> ELSE g[i]
        BY <1>1, <1>2, CleanTyped
      <3> QED  BY <1>1, <1>2, <1>4, <2>1, <3>1
    <2>2. CASE ~(c.nf < n)
      <3>1. /\ cleanfld(g, n + 1, c.nf) \in Seq(Text)
            /\ Len(cleanfld(g, n + 1, c.nf)) = Len(g)
            /\ \A i \in 1..Len(g) : cleanfld(g, n + 1, c.nf)[i]
                                    = IF n + 1 <= i /\ i <= c.nf THEN <<>> ELSE g[i]
        BY <1>1, <1>2, CleanTyped
      <3> QED  BY <1>1, <1>2, <1>4, <2>2, <3>1
    <2> QED  BY <2>1, <2>2
  <1> HIDE DEF g, h
  <1>6. \A i \in n + 1 .. Len(h) : h[i] = <<>>
    BY <1>1, <1>2, <1>5
  <1>7. n <= Len(h)
    BY <1>1, <1>2, <1>5
  <1>8. [c EXCEPT !.fld = h, !.nf = n] \in CacheType
    BY <1>1, <1>5 DEF CacheType
  <1>9. c.nf <= n => \A i \in 1..n : h[i] = IF i <= c.nf THEN c.fld[i] ELSE <<>>
    BY <1>1, <1>2, <1>5
  <1>10. Len(c.fld) <= Len(h)
    BY <1>2, <1>5
  <1> QED  BY <1>1, <1>3, <1>6, <1>7, <1>8, <1>9, <1>10 DEF Sound, CacheType

LEMMA FieldadrValid ==
  ASSUME NEW c, Valid(c), SplitJoinTyped, NEW n \in Nat
  PROVE  /\ Valid(fieldadr(c, n))
         /\ n <= Len(fieldadr(c, n).fld)
         /\ IF n = 0 THEN fieldadr(c, n).donerec ELSE fieldadr(c, n).donefld
         /\ c.donefld => fieldadr(c, n).donefld
  <1> DEFINE b == IF n = 0 THEN recbld(c) ELSE fldbld(c)
             g == growfldtab(b.fld, n)
  <1>1. /\ Valid(b) /\ (IF n = 0 THEN b.donerec ELSE b.donefld)
        /\ c.donefld => b.donefld
    BY RecbldValid, FldbldValid
  <1> HIDE DEF b
  <1>2. /\ b \in CacheType /\ b.fault = "none" /\ b.fld \in Seq(Text)
        /\ b.nf \in Nat /\ b.nf <= Len(b.fld)
        /\ \A i \in b.nf + 1 .. Len(b.fld) : b.fld[i] = <<>>
    BY <1>1 DEF Valid, Sound, CacheType
  <1>3. fieldadr(c, n) = [b EXCEPT !.fld = g]
    BY <1>2 DEF fieldadr, Grow, Faulty, b
  <1>4. /\ g \in Seq(Text) /\ Len(g) >= n /\ Len(g) >= Len(b.fld)
        /\ \A i \in 1..Len(g) : g[i] = IF i <= Len(b.fld) THEN b.fld[i] ELSE <<>>
    BY <1>2, GrowTyped
  <1> HIDE DEF g
  <1>5. \A i \in b.nf + 1 .. Len(g) : g[i] = <<>>
    BY <1>2, <1>4
  <1>6. b.nf <= Len(g)
    BY <1>2, <1>4
  <1>7. [b EXCEPT !.fld = g] \in CacheType
    BY <1>2, <1>4 DEF CacheType
  <1> QED  BY <1>1, <1>2, <1>3, <1>4, <1>5, <1>6, <1>7 DEF Valid, Sound, CacheType

-----------------------------------------------------------------------------
(* The record the program sees, and what the functions do to it.           *)

FieldOf(c, n) == IF n = 0 THEN TextOf(c)
                 ELSE IF n <= Len(FieldsOf(c)) THEN FieldsOf(c)[n] ELSE <<>>

SameView(c, d) == /\ TextOf(d) = TextOf(c) /\ FieldsOf(d) = FieldsOf(c)
                  /\ d.fs = c.fs /\ d.ofs = c.ofs

LEMMA ViewTyped ==
  ASSUME NEW c, Sound(c), SplitJoinTyped
  PROVE  /\ TextOf(c) \in Text /\ FieldsOf(c) \in Seq(Text)
         /\ c.donefld => Len(FieldsOf(c)) = c.nf
                         /\ \A i \in 1..c.nf : FieldsOf(c)[i] = c.fld[i]
  <1>1. /\ SubSeq(c.fld, 1, c.nf) \in Seq(Text)
        /\ Len(SubSeq(c.fld, 1, c.nf)) = c.nf
        /\ \A i \in 1..c.nf : SubSeq(c.fld, 1, c.nf)[i] = c.fld[i]
    BY DEF Sound, CacheType
  <1>2. Join(SubSeq(c.fld, 1, c.nf), c.ofs) \in Text
    BY <1>1 DEF SplitJoinTyped, Sound, CacheType
  <1>3. Split(c.rec, c.fs) \in Seq(Text)
    BY DEF SplitJoinTyped, Sound, CacheType
  <1>4. <<>> \in Text /\ <<>> \in Seq(Text) /\ c.rec \in Text
    BY EmptyText DEF Sound, CacheType
  <1> QED  BY <1>1, <1>2, <1>3, <1>4 DEF TextOf, FieldsOf

LEMMA RecbldView ==
  ASSUME NEW c, Valid(c), SplitJoinTyped
  PROVE  SameView(c, recbld(c))
  <1>1. CASE c.donerec
    BY <1>1 DEF recbld, SameView
  <1>2. CASE ~c.donerec
    <2>1. c.donefld
      BY <1>2 DEF Valid
    <2>2. /\ recbld(c).donerec /\ recbld(c).donefld
          /\ recbld(c).fld = c.fld /\ recbld(c).nf = c.nf
          /\ recbld(c).fs = c.fs /\ recbld(c).ofs = c.ofs
          /\ recbld(c).rec = Join(SubSeq(c.fld, 1, c.nf), c.ofs)
      BY <1>2, <2>1, RecbldValid
    <2> HIDE DEF recbld
    <2> QED  BY <1>2, <2>1, <2>2, Zenon DEF SameView, TextOf, FieldsOf
  <1> QED  BY <1>1, <1>2

LEMMA FldbldView ==
  ASSUME NEW c, Valid(c), SplitJoinTyped
  PROVE  SameView(c, fldbld(c)) /\ (c.donerec => fldbld(c).donerec)
  <1>1. CASE c.donefld
    BY <1>1 DEF fldbld, SameView
  <1>2. CASE ~c.donefld
    <2>1. c.donerec
      BY <1>2 DEF Valid
    <2> QED  BY <1>2, <2>1, FldbldSplits DEF SameView, TextOf, FieldsOf
  <1> QED  BY <1>1, <1>2

\* The cell fieldadr delivers holds the field; nothing the program sees changes.
LEMMA FieldadrView ==
  ASSUME NEW c, Valid(c), SplitJoinTyped, NEW n \in Nat
  PROVE  /\ SameView(c, fieldadr(c, n))
         /\ c.donerec => fieldadr(c, n).donerec
         /\ c.donefld => fieldadr(c, n).donefld
         /\ Len(c.fld) <= Len(fieldadr(c, n).fld)
  <1> DEFINE b == IF n = 0 THEN recbld(c) ELSE fldbld(c)
             g == growfldtab(b.fld, n)
  <1>1. /\ Valid(b) /\ SameView(c, b)
        /\ c.donerec => b.donerec
        /\ c.donefld => b.donefld
    BY RecbldValid, FldbldValid, RecbldView, FldbldView
  <1>2. Len(c.fld) <= Len(b.fld)
    BY RecbldValid, FldbldValid DEF Valid, Sound, CacheType
  <1> HIDE DEF b
  <1>3. /\ b \in CacheType /\ b.fault = "none" /\ b.fld \in Seq(Text)
        /\ b.nf \in Nat /\ b.nf <= Len(b.fld)
    BY <1>1 DEF Valid, Sound, CacheType
  <1>4. fieldadr(c, n) = [b EXCEPT !.fld = g]
    BY <1>3 DEF fieldadr, Grow, Faulty, b
  <1>5. /\ g \in Seq(Text) /\ Len(g) >= n /\ Len(g) >= Len(b.fld)
        /\ \A i \in 1..Len(g) : g[i] = IF i <= Len(b.fld) THEN b.fld[i] ELSE <<>>
    BY <1>3, GrowTyped
  <1> HIDE DEF g
  <1>6. SubSeq(g, 1, b.nf) = SubSeq(b.fld, 1, b.nf)
    BY <1>3, <1>5
  <1>7. SameView(b, [b EXCEPT !.fld = g])
    BY <1>3, <1>6 DEF SameView, TextOf, FieldsOf, CacheType
  <1>8. SameView(c, [b EXCEPT !.fld = g])
    BY <1>1, <1>7 DEF SameView
  <1> QED  BY <1>1, <1>2, <1>3, <1>4, <1>5, <1>8 DEF CacheType

\* The cell of $n holds the field once the form it belongs to is valid.
LEMMA CellIsField ==
  ASSUME NEW c, Sound(c), SplitJoinTyped, NEW n \in Nat, n <= Len(c.fld),
         IF n = 0 THEN c.donerec ELSE c.donefld
  PROVE  Cell(c, n) = FieldOf(c, n) /\ Cell(c, n) \in Text
  <1>1. CASE n = 0
    BY <1>1 DEF Cell, FieldOf, TextOf, Sound, CacheType
  <1>2. CASE n # 0
    <2>1. c.fld \in Seq(Text) /\ c.nf \in Nat /\ n \in 1..Len(c.fld)
      BY <1>2 DEF Sound, CacheType
    <2>2. Len(FieldsOf(c)) = c.nf /\ \A i \in 1..c.nf : FieldsOf(c)[i] = c.fld[i]
      BY <1>2, ViewTyped
    <2>3. \A i \in c.nf + 1 .. Len(c.fld) : c.fld[i] = <<>>
      BY DEF Sound
    <2> QED  BY <1>2, <2>1, <2>2, <2>3 DEF Cell, FieldOf
  <1> QED  BY <1>1, <1>2

\* $0 gets a new text.
LEMMA StoreRecord ==
  ASSUME NEW c, Sound(c), NEW v \in Text
  PROVE  LET d == PutCell(NewRecord(c), 0, v)
         IN  /\ Valid(d)
             /\ TextOf(d) = v /\ FieldsOf(d) = Split(v, c.fs)
             /\ d.fs = c.fs /\ d.ofs = c.ofs
  BY DEF PutCell, NewRecord, Valid, Sound, CacheType, TextOf, FieldsOf, Faulty

WithField(c, n, v) ==
  [i \in 1..(IF n > Len(FieldsOf(c)) THEN n ELSE Len(FieldsOf(c))) |->
     IF i = n THEN v ELSE FieldOf(c, i)]

\* Touch prepares a valid field for its new text: $0 is dropped, the gap up
\* to the field is empty.
LEMMA TouchField ==
  ASSUME NEW c, Valid(c), SplitJoinTyped, NEW n \in Nat \ {0}, c.donefld
  PROVE  LET d == Touch(c, n)
         IN  /\ Valid(d) /\ d.donefld /\ ~d.donerec
             /\ d.nf = (IF n > Len(FieldsOf(c)) THEN n ELSE Len(FieldsOf(c)))
             /\ \A i \in 1..d.nf : d.fld[i] = FieldOf(c, i)
             /\ Len(c.fld) <= Len(d.fld)
             /\ d.rec = c.rec /\ d.fs = c.fs /\ d.ofs = c.ofs
  <1> DEFINE r == Reach(c, n)
  <1>1. /\ c \in CacheType /\ c.nf \in Nat /\ c.nf <= Len(c.fld) /\ Sound(c)
        /\ Len(FieldsOf(c)) = c.nf
        /\ \A i \in 1..c.nf : FieldsOf(c)[i] = c.fld[i]
    BY ViewTyped DEF Valid, Sound, CacheType
  <1>2. \A i \in Nat \ {0} : FieldOf(c, i) = IF i <= c.nf THEN c.fld[i] ELSE <<>>
    BY <1>1 DEF FieldOf
  <1>3. /\ Sound(r) /\ r.donefld /\ r.rec = c.rec /\ r.fs = c.fs /\ r.ofs = c.ofs
        /\ r.nf = IF n > c.nf THEN n ELSE c.nf
        /\ Len(c.fld) <= Len(r.fld)
        /\ \A i \in 1..r.nf : r.fld[i] = IF i <= c.nf THEN c.fld[i] ELSE <<>>
    <2>1. CASE n > c.nf
      <3>1. r = setlastfld(c, n) /\ n \in Nat /\ c.nf <= n
        BY <1>1, <2>1 DEF Reach
      <3>2. /\ Sound(setlastfld(c, n)) /\ setlastfld(c, n).nf = n
            /\ setlastfld(c, n).donefld = c.donefld
            /\ setlastfld(c, n).rec = c.rec
            /\ setlastfld(c, n).fs = c.fs /\ setlastfld(c, n).ofs = c.ofs
            /\ Len(c.fld) <= Len(setlastfld(c, n).fld)
            /\ \A i \in 1..n : setlastfld(c, n).fld[i]
                                = IF i <= c.nf THEN c.fld[i] ELSE <<>>
        BY <1>1, <3>1, SetlastfldSound
      <3> HIDE DEF r
      <3> QED  BY <1>1, <2>1, <3>1, <3>2
    <2>2. CASE ~(n > c.nf)
      BY <1>1, <2>2 DEF Reach, CacheType
    <2> QED  BY <2>1, <2>2
  <1>4. Touch(c, n) = [r EXCEPT !.donerec = FALSE]
    BY DEF Touch
  <1> HIDE DEF r
  <1>5. Valid([r EXCEPT !.donerec = FALSE])
    BY <1>3 DEF Valid, Sound, CacheType
  <1> QED  BY <1>1, <1>2, <1>3, <1>4, <1>5 DEF Sound, CacheType

LEMMA StoreField ==
  ASSUME NEW c, Valid(c), SplitJoinTyped, NEW n \in Nat \ {0}, c.donefld,
         NEW v \in Text
  PROVE  LET d == PutCell(Touch(c, n), n, v)
         IN  /\ Valid(d)
             /\ FieldsOf(d) = WithField(c, n, v)
             /\ TextOf(d) = Join(FieldsOf(d), c.ofs)
             /\ d.fs = c.fs /\ d.ofs = c.ofs
  <1> DEFINE t == Touch(c, n)
             d == PutCell(t, n, v)
             last == IF n > Len(FieldsOf(c)) THEN n ELSE Len(FieldsOf(c))
  <1>1. /\ Valid(t) /\ t.donefld /\ ~t.donerec /\ t.nf = last
        /\ \A i \in 1..t.nf : t.fld[i] = FieldOf(c, i)
        /\ t.fs = c.fs /\ t.ofs = c.ofs
    BY TouchField
  <1>2. n <= last /\ last \in Nat
    BY ViewTyped DEF Valid
  <1> HIDE DEF t
  <1>3. /\ t \in CacheType /\ t.fault = "none" /\ t.fld \in Seq(Text)
        /\ t.nf \in Nat /\ t.nf <= Len(t.fld)
        /\ \A i \in t.nf + 1 .. Len(t.fld) : t.fld[i] = <<>>
    BY <1>1 DEF Valid, Sound, CacheType
  <1> DEFINE f == [t.fld EXCEPT ![n] = v]
  <1>4. d = [t EXCEPT !.fld = f]
    BY <1>3 DEF PutCell, Faulty, CacheType
  <1> HIDE DEF last
  <1>5. /\ f \in Seq(Text) /\ Len(f) = Len(t.fld)
        /\ \A i \in 1..Len(f) : f[i] = IF i = n THEN v ELSE t.fld[i]
    BY <1>1, <1>2, <1>3
  <1> HIDE DEF f
  <1>6. /\ \A i \in t.nf + 1 .. Len(f) : f[i] = <<>>
        /\ t.nf <= Len(f)
    BY <1>1, <1>2, <1>3, <1>5
  <1>7. [t EXCEPT !.fld = f] \in CacheType
    BY <1>3, <1>5 DEF CacheType
  <1>8. Valid([t EXCEPT !.fld = f])
    BY <1>1, <1>3, <1>6, <1>7 DEF Valid, Sound, CacheType
  <1>9. FieldsOf([t EXCEPT !.fld = f]) = SubSeq(f, 1, t.nf)
        /\ TextOf([t EXCEPT !.fld = f]) = Join(SubSeq(f, 1, t.nf), t.ofs)
    BY <1>1, <1>3 DEF FieldsOf, TextOf, CacheType
  <1>10. SubSeq(f, 1, t.nf) = WithField(c, n, v)
    <2>1. WithField(c, n, v) = [i \in 1..last |-> IF i = n THEN v ELSE FieldOf(c, i)]
      BY DEF WithField, last
    <2>2. SubSeq(f, 1, t.nf) = [i \in 1..t.nf |-> f[i]]
      BY <1>3, <1>5, <1>6
    <2>3. \A i \in 1..t.nf : f[i] = IF i = n THEN v ELSE FieldOf(c, i)
      BY <1>1, <1>3, <1>5, <1>6
    <2> QED  BY <1>1, <2>1, <2>2, <2>3
  <1> HIDE DEF d
  <1> QED  BY <1>1, <1>3, <1>4, <1>8, <1>9, <1>10 DEF CacheType, d, t
-----------------------------------------------------------------------------
(* The inductive invariant.  Before the first record neither form is valid *)
(* and a program of Core does not look; from then on one of them is.       *)
IInv == /\ Sound(Cache)
        /\ started \in BOOLEAN /\ nfcell \in {"CNF", "CELL"}
        /\ IF started THEN donefld \/ donerec ELSE ~donefld /\ ~donerec
        /\ out.val \in Text

LEMMA InitInv ==
  ASSUME Init
  PROVE  IInv
  <1>1. fld \in Seq(Text) /\ Len(fld) = DEFAULT_FLD
    <2>1. fld = Extend(<<>>, DEFAULT_FLD)
      BY FieldTableAssumption DEF Init, Extend
    <2>2. <<>> \in Seq(Text)
      OBVIOUS
    <2> QED  BY <2>1, <2>2, ExtendTyped, FieldTableAssumption
  <1>2. BLANK \in Text /\ Len(BLANK) = 1
    BY TextAssumption DEF BLANK
  <1>3. Cache \in CacheType
    BY <1>1, <1>2, EmptyText, FieldTableAssumption DEF Init, Cache, CacheType
  <1>4. Cache.fault = "none"
    BY DEF Init, Cache
  <1>5. ~IsRegex(Cache.fs)
    <2>1. Cache.fs = BLANK /\ Len(BLANK) = 1
      BY <1>2 DEF Init, Cache
    <2> QED  BY ONLY <2>1 DEF IsRegex
  <1>6. Cache.nf = DEFAULT_FLD /\ Len(Cache.fld) = DEFAULT_FLD
    <2>1. Cache.nf = DEFAULT_FLD /\ Cache.fld = fld
      BY FieldTableAssumption DEF Init, Cache
    <2> QED  BY <1>1, <2>1, Zenon
  <1>7. /\ Cache.nf <= Len(Cache.fld)
        /\ \A i \in Cache.nf + 1 .. Len(Cache.fld) : Cache.fld[i] = <<>>
    <2>1. DEFAULT_FLD + 1 .. DEFAULT_FLD = {}
      BY ONLY FieldTableAssumption DEF FieldTableAssumption
    <2>2. Cache.nf + 1 = DEFAULT_FLD + 1 /\ Cache.nf <= Len(Cache.fld)
      BY ONLY <1>6, FieldTableAssumption
    <2> QED  BY ONLY <1>6, <2>1, <2>2
  <1>8. Sound(Cache)
    BY <1>3, <1>4, <1>5, <1>6, <1>7 DEF Sound
  <1> QED  BY <1>8, EmptyText DEF Init, IInv, Outcome

\* The variables after a step that ends with the cache c.
LEMMA PutCache ==
  ASSUME NEW c \in CacheType, Put(c)
  PROVE  Cache' = c /\ TextView' = TextOf(c) /\ FieldsView' = FieldsOf(c)
  <1>1. Cache' = [rec |-> c.rec, fld |-> c.fld, nf |-> c.nf, donefld |-> c.donefld,
                  donerec |-> c.donerec, fs |-> c.fs, ofs |-> c.ofs, fault |-> c.fault]
    BY DEF Put, Cache
  <1>2. Cache' = c
    BY <1>1 DEF CacheType
  <1> QED  BY <1>2 DEF TextView, FieldsView, TextOf, FieldsOf

\* Every statement on a record ends like this.
LEMMA RecordStep ==
  ASSUME NEW c, Valid(c), Put(c), NEW op, NEW n, NEW v \in Text,
         Deliver(c, op, n, v), started' = TRUE, IInv, UNCHANGED nfcell
  PROVE  IInv' /\ out' = Outcome(op, n, v)
         /\ TextView' = TextOf(c) /\ FieldsView' = FieldsOf(c)
         /\ fs' = c.fs /\ ofs' = c.ofs
  <1>1. c \in CacheType /\ c.fault = "none"
    BY DEF Valid, Sound
  <1>2. Cache' = c /\ TextView' = TextOf(c) /\ FieldsView' = FieldsOf(c)
    BY <1>1, PutCache
  <1>3. out' = Outcome(op, n, v)
    BY <1>1 DEF Deliver, Faulty
  <1>4. Sound(Cache)'
    BY <1>2 DEF Valid, Sound
  <1> QED  BY <1>2, <1>3, <1>4 DEF IInv, Valid, Put, Outcome

\* Whatever getrec leaves in $0, split at once or not, is the new record.
LEMMA InputStep ==
  ASSUME SplitJoinTyped, IInv, NEW t \in Text, NEW op, NEW c,
         c \in {getrec(t), fldbld(getrec(t))}, FromInput(c, op)
  PROVE  IInv' /\ out' = Outcome(op, 0, <<>>) /\ View!SetText(t) /\ started' = TRUE
  <1> DEFINE d == getrec(t)
  <1>1. Sound(Cache)
    BY DEF IInv
  <1>2. /\ Valid(d) /\ TextOf(d) = t /\ FieldsOf(d) = Split(t, Cache.fs)
        /\ d.fs = Cache.fs /\ d.ofs = Cache.ofs
    BY <1>1, StoreRecord DEF getrec
  <1>3. Cache.fs = fs /\ Cache.ofs = ofs
    BY DEF Cache
  <1> HIDE DEF d
  <1>4. Valid(fldbld(d)) /\ SameView(d, fldbld(d))
    BY <1>2, FldbldValid, FldbldView
  <1>5. c = d \/ c = fldbld(d)
    BY DEF d
  <1>6. /\ Valid(c) /\ TextOf(c) = t /\ FieldsOf(c) = Split(t, fs)
        /\ c.fs = fs /\ c.ofs = ofs
    BY <1>2, <1>3, <1>4, <1>5 DEF SameView
  <1>7. /\ Put(c) /\ started' = TRUE /\ UNCHANGED nfcell
        /\ Deliver(c, op, 0, <<>>)
    BY DEF FromInput
  <1> QED  BY <1>6, <1>7, RecordStep, EmptyText DEF View!SetText

LEMMA CoreReadStep ==
  ASSUME SplitJoinTyped, IInv, NEW t \in Records, ReadRecord(t) \/ Getline(t)
  PROVE  IInv' /\ View!Read(t)
  <1>1. t \in Text
    BY TextAssumption
  <1> QED  BY <1>1, InputStep DEF ReadRecord, Getline, View!Read, Outcome, View!Outcome

\* A read that finds nothing while $0 is valid, or that empties it.
LEMMA CoreNothingStep ==
  ASSUME SplitJoinTyped, IInv, NEW t \in {rec, <<>>}, t = <<>> \/ donerec,
         ReadNothing(t) \/ GetlineNothing(t)
  PROVE  IInv' /\ View!Next
  <1>1. t \in Text
    BY EmptyText DEF IInv, Sound, CacheType, Cache
  <1>2. t \in {TextView, <<>>}
    BY DEF TextView, TextOf, Cache
  <1>3. IInv' /\ View!ReadNothing(t)
    BY <1>1, InputStep
       DEF ReadNothing, GetlineNothing, View!ReadNothing, Outcome, View!Outcome
  <1> QED  BY <1>2, <1>3 DEF View!Next

LEMMA CoreBeginStep ==
  ASSUME SplitJoinTyped, IInv, CoreBegin
  PROVE  IInv' /\ ((\E s \in FsVals : View!SetFS(s)) \/ (\E s \in OfsVals : View!SetOFS(s)))
  <1>1. /\ Sound(Cache) /\ ~started /\ ~donefld /\ ~donerec
        /\ Cache \in CacheType /\ Cache.fault = "none"
    BY DEF IInv, CoreBegin, Sound
  <1>2. CASE \E s \in FsVals : ~IsRegex(s) /\ AssignFS(s)
    <2>1. PICK s \in FsVals : ~IsRegex(s) /\ AssignFS(s)
      BY <1>2
    <2> DEFINE c == [Cache EXCEPT !.fs = s]
    <2>2. s \in Text
      BY TextAssumption
    <2>3. Sound(c)
      BY <1>1, <2>1, <2>2 DEF Sound, CacheType
    <2>4. Put(c) /\ Deliver(Cache, "FS", 0, <<>>) /\ UNCHANGED <<nfcell, started>>
      BY <2>1 DEF AssignFS
    <2>5. /\ c \in CacheType /\ c.fs = s /\ c.ofs = Cache.ofs
          /\ ~c.donefld /\ ~c.donerec
      BY <1>1, <2>3 DEF Cache, CacheType, Sound
    <2> HIDE DEF c
    <2>6. Cache' = c /\ TextView' = TextOf(c) /\ FieldsView' = FieldsOf(c)
      BY <2>4, <2>5, PutCache
    <2>7. IInv'
      BY <1>1, <2>3, <2>4, <2>5, <2>6, EmptyText
         DEF IInv, Put, Deliver, Faulty, Outcome
    <2>8. TextView = <<>> /\ FieldsView = <<>> /\ TextView' = <<>> /\ FieldsView' = <<>>
      BY <1>1, <2>5, <2>6 DEF TextView, FieldsView, TextOf, FieldsOf, Cache
    <2>9. out' = Outcome("FS", 0, <<>>) /\ fs' = s /\ ofs' = ofs
      BY <1>1, <2>4, <2>5 DEF Deliver, Faulty, Put, Cache
    <2> QED  BY <1>1, <2>4, <2>7, <2>8, <2>9 DEF View!SetFS, Outcome, View!Outcome
  <1>3. CASE \E s \in OfsVals : AssignOFS(s)
    <2>1. PICK s \in OfsVals : AssignOFS(s)
      BY <1>3
    <2> DEFINE c == [Cache EXCEPT !.ofs = s]
    <2>2. s \in Text
      BY TextAssumption
    <2>3. Sound(c)
      BY <1>1, <2>2 DEF Sound, CacheType
    <2>4. Put(c) /\ Deliver(Cache, "OFS", 0, <<>>) /\ UNCHANGED <<nfcell, started>>
      BY <2>1 DEF AssignOFS
    <2>5. /\ c \in CacheType /\ c.ofs = s /\ c.fs = Cache.fs
          /\ ~c.donefld /\ ~c.donerec
      BY <1>1, <2>3 DEF Cache, CacheType, Sound
    <2> HIDE DEF c
    <2>6. Cache' = c /\ TextView' = TextOf(c) /\ FieldsView' = FieldsOf(c)
      BY <2>4, <2>5, PutCache
    <2>7. IInv'
      BY <1>1, <2>3, <2>4, <2>5, <2>6, EmptyText
         DEF IInv, Put, Deliver, Faulty, Outcome
    <2>8. TextView = <<>> /\ FieldsView = <<>> /\ TextView' = <<>> /\ FieldsView' = <<>>
      BY <1>1, <2>5, <2>6 DEF TextView, FieldsView, TextOf, FieldsOf, Cache
    <2>9. out' = Outcome("OFS", 0, <<>>) /\ ofs' = s /\ fs' = fs
      BY <1>1, <2>4, <2>5 DEF Deliver, Faulty, Put, Cache
    <2> QED  BY <1>1, <2>4, <2>7, <2>8, <2>9 DEF View!SetOFS, Outcome, View!Outcome
  <1> QED  BY <1>2, <1>3 DEF CoreBegin

\* A cache in use: what every statement on a record starts from.
LEMMA InUse ==
  ASSUME IInv, started
  PROVE  /\ Valid(Cache) /\ Cache \in CacheType
         /\ Cache.fs = fs /\ Cache.ofs = ofs /\ Cache.nf = nf
  BY DEF IInv, Valid, Sound, Cache

\* Reading the view through a cache that shows the same one.
LEMMA SameFieldOf ==
  ASSUME NEW c, SameView(Cache, c)
  PROVE  /\ \A n : FieldOf(c, n) = View!FieldOf(n)
         /\ \A n, v : WithField(c, n, v) = View!WithField(n, v)
  <1>1. \A n : FieldOf(c, n) = View!FieldOf(n)
    BY DEF SameView, FieldOf, View!FieldOf, TextView, FieldsView
  <1>2. FieldsOf(c) = FieldsView
    BY DEF SameView, FieldsView
  <1> QED  BY <1>1, <1>2 DEF WithField, View!WithField

LEMMA FieldNumber == 0..MaxField \subseteq Nat
  <1>1. MaxField \in Nat
    BY TextAssumption
  <1> QED  BY <1>1

LEMMA FetchStep ==
  ASSUME SplitJoinTyped, IInv, started, NEW n \in 0..MaxField, Fetch(n)
  PROVE  IInv' /\ View!Fetch(n)
  <1> DEFINE c == fieldadr(Cache, n)
  <1>1. Valid(Cache) /\ Cache.fs = fs /\ Cache.ofs = ofs
    BY InUse
  <1>2. n \in Nat
    BY FieldNumber
  <1>3. /\ Valid(c) /\ SameView(Cache, c) /\ n <= Len(c.fld)
        /\ IF n = 0 THEN c.donerec ELSE c.donefld
    BY <1>1, <1>2, FieldadrValid, FieldadrView
  <1>4. Put(c) /\ Deliver(c, "fetch", n, Cell(c, n)) /\ UNCHANGED <<nfcell, started>>
    BY DEF Fetch
  <1> HIDE DEF c
  <1>5. Cell(c, n) = FieldOf(c, n) /\ Cell(c, n) \in Text
    BY <1>2, <1>3, CellIsField DEF Valid
  <1>6. FieldOf(c, n) = View!FieldOf(n)
    BY <1>3, SameFieldOf
  <1>7. /\ IInv' /\ out' = Outcome("fetch", n, Cell(c, n))
        /\ TextView' = TextOf(c) /\ FieldsView' = FieldsOf(c)
        /\ fs' = c.fs /\ ofs' = c.ofs
    BY <1>3, <1>4, <1>5, RecordStep
  <1>8. /\ TextView' = TextView /\ FieldsView' = FieldsView
        /\ fs' = fs /\ ofs' = ofs
    BY <1>1, <1>3, <1>7 DEF SameView, TextView, FieldsView
  <1> QED  BY <1>4, <1>5, <1>6, <1>7, <1>8 DEF View!Fetch, Outcome, View!Outcome

LEMMA FetchNFStep ==
  ASSUME SplitJoinTyped, IInv, started, FetchNF
  PROVE  IInv' /\ View!FetchNF
  <1> DEFINE c == fldbld(Cache)
  <1>1. Valid(Cache) /\ Cache.fs = fs /\ Cache.ofs = ofs
    BY InUse
  <1>2. Valid(c) /\ SameView(Cache, c) /\ c.donefld
    BY <1>1, FldbldValid, FldbldView
  <1>3. Put(c) /\ Deliver(c, "NF", c.nf, <<>>) /\ UNCHANGED <<nfcell, started>>
    BY DEF FetchNF
  <1> HIDE DEF c
  <1>4. c.nf = Len(FieldsOf(c))
    BY <1>2, ViewTyped DEF Valid
  <1>5. /\ IInv' /\ out' = Outcome("NF", c.nf, <<>>)
        /\ TextView' = TextOf(c) /\ FieldsView' = FieldsOf(c)
        /\ fs' = c.fs /\ ofs' = c.ofs
    BY <1>2, <1>3, EmptyText, RecordStep
  <1>6. /\ TextView' = TextView /\ FieldsView' = FieldsView
        /\ fs' = fs /\ ofs' = ofs /\ FieldsOf(c) = FieldsView
    BY <1>1, <1>2, <1>5 DEF SameView, TextView, FieldsView
  <1> QED  BY <1>3, <1>4, <1>5, <1>6 DEF View!FetchNF, Outcome, View!Outcome

LEMMA HostSetOFSStep ==
  ASSUME SplitJoinTyped, IInv, started, NEW s \in OfsVals, HostSetOFS(s)
  PROVE  IInv' /\ View!SetOFS(s)
  <1> DEFINE b == recbld(Cache)
             c == [b EXCEPT !.ofs = s]
  <1>1. Valid(Cache) /\ Cache.fs = fs /\ Cache.ofs = ofs
    BY InUse
  <1>2. Valid(b) /\ b.donerec /\ SameView(Cache, b)
    BY <1>1, RecbldValid, RecbldView
  <1>3. Put(c) /\ Deliver(c, "OFS", 0, <<>>) /\ UNCHANGED <<nfcell, started>>
    BY DEF HostSetOFS, setsvalOFS
  <1> HIDE DEF b
  <1>4. s \in Text
    BY TextAssumption
  <1>5. /\ Valid(c) /\ TextOf(c) = TextOf(b) /\ FieldsOf(c) = FieldsOf(b)
        /\ c.fs = b.fs /\ c.ofs = s
    BY <1>2, <1>4 DEF Valid, Sound, CacheType, TextOf, FieldsOf
  <1> HIDE DEF c
  <1>6. /\ IInv' /\ out' = Outcome("OFS", 0, <<>>)
        /\ TextView' = TextOf(c) /\ FieldsView' = FieldsOf(c)
        /\ fs' = c.fs /\ ofs' = c.ofs
    BY <1>3, <1>5, EmptyText, RecordStep
  <1>7. /\ TextView' = TextView /\ FieldsView' = FieldsView
        /\ fs' = fs /\ ofs' = s
    BY <1>1, <1>2, <1>5, <1>6 DEF SameView, TextView, FieldsView
  <1> QED  BY <1>3, <1>6, <1>7 DEF View!SetOFS, Outcome, View!Outcome

\* $0 is stored: by an assignment, by sub or gsub, by a copy.
LEMMA StoreRecordStep ==
  ASSUME SplitJoinTyped, IInv, started, NEW c, Valid(c), SameView(Cache, c),
         NEW v \in Text, NEW op, NEW n, NEW w \in Text,
         Put(PutCell(NewRecord(c), 0, v)),
         Deliver(PutCell(NewRecord(c), 0, v), op, n, w),
         UNCHANGED <<nfcell, started>>
  PROVE  IInv' /\ out' = Outcome(op, n, w) /\ View!Store(0, v)
  <1> DEFINE d == PutCell(NewRecord(c), 0, v)
  <1>1. /\ Valid(d) /\ TextOf(d) = v /\ FieldsOf(d) = Split(v, c.fs)
        /\ d.fs = c.fs /\ d.ofs = c.ofs
    BY StoreRecord DEF Valid
  <1>2. Cache.fs = fs /\ Cache.ofs = ofs
    BY InUse
  <1> HIDE DEF d
  <1>3. /\ IInv' /\ out' = Outcome(op, n, w)
        /\ TextView' = TextOf(d) /\ FieldsView' = FieldsOf(d)
        /\ fs' = d.fs /\ ofs' = d.ofs
    BY <1>1, RecordStep DEF d
  <1> QED  BY <1>1, <1>2, <1>3 DEF SameView, View!Store, View!SetText

\* A field is stored.
LEMMA StoreFieldStep ==
  ASSUME SplitJoinTyped, IInv, started, NEW c, Valid(c), SameView(Cache, c),
         c.donefld, NEW k \in Nat \ {0}, NEW v \in Text, NEW op, NEW n, NEW w \in Text,
         NEW d, d = PutCell(Touch(c, k), k, v),
         Put(d), Deliver(d, op, n, w), UNCHANGED <<nfcell, started>>
  PROVE  IInv' /\ out' = Outcome(op, n, w) /\ View!Store(k, v)
  <1>1. /\ Valid(d) /\ FieldsOf(d) = WithField(c, k, v)
        /\ TextOf(d) = Join(FieldsOf(d), c.ofs)
        /\ d.fs = c.fs /\ d.ofs = c.ofs
    BY StoreField
  <1>2. Cache.fs = fs /\ Cache.ofs = ofs
    BY InUse
  <1>3. /\ IInv' /\ out' = Outcome(op, n, w)
        /\ TextView' = TextOf(d) /\ FieldsView' = FieldsOf(d)
        /\ fs' = d.fs /\ ofs' = d.ofs
    BY <1>1, RecordStep
  <1>4. WithField(c, k, v) = View!WithField(k, v)
    BY SameFieldOf
  <1>5. k # 0
    OBVIOUS
  <1> QED  BY <1>1, <1>2, <1>3, <1>4, <1>5 DEF SameView, View!Store

LEMMA AssignStep ==
  ASSUME SplitJoinTyped, IInv, started, NEW n \in 0..MaxField, NEW v \in Text,
         AssignField(n, v)
  PROVE  IInv' /\ View!Assign(n, v)
  <1> DEFINE c == fieldadr(Cache, n)
             d == PutCell(Touch(c, n), n, v)
  <1>1. n \in Nat
    BY FieldNumber
  <1>2. /\ Valid(c) /\ SameView(Cache, c)
        /\ n # 0 => c.donefld
    BY <1>1, InUse, FieldadrValid, FieldadrView
  <1>3. /\ Put(d) /\ Deliver(d, "assign", 0, <<>>) /\ UNCHANGED <<nfcell, started>>
    BY DEF AssignField, setfval
  <1> HIDE DEF c
  <1>4. CASE n = 0
    <2>1. d = PutCell(NewRecord(c), 0, v)
      BY <1>4 DEF Touch
    <2> HIDE DEF d
    <2> QED  BY <1>2, <1>3, <1>4, <2>1, EmptyText, StoreRecordStep
             DEF View!Assign, Outcome, View!Outcome
  <1>5. CASE n # 0
    <2> HIDE DEF d
    <2>1. n \in Nat \ {0} /\ d = PutCell(Touch(c, n), n, v)
      BY <1>1, <1>5 DEF d
    <2> QED  BY <1>2, <1>3, <1>5, <2>1, EmptyText, StoreFieldStep
             DEF View!Assign, Outcome, View!Outcome
  <1> QED  BY <1>4, <1>5

LEMMA SubstituteStep ==
  ASSUME SplitJoinTyped, IInv, started, NEW v \in Text, Substitute(0, v)
  PROVE  IInv' /\ View!Substitute(v)
  <1> DEFINE c == fieldadr(Cache, 0)
             d == PutCell(NewRecord(c), 0, v)
  <1>1. Valid(c) /\ SameView(Cache, c)
    BY InUse, FieldadrValid, FieldadrView
  <1>2. Put(d) /\ Deliver(d, "sub", 0, v) /\ UNCHANGED <<nfcell, started>>
    BY DEF Substitute, setsval
  <1> HIDE DEF c
  <1> QED  BY <1>1, <1>2, StoreRecordStep DEF View!Substitute, Outcome, View!Outcome

\* $n = $m.  The text of $m is still in its cell once $n has been prepared.
LEMMA CopyStep ==
  ASSUME SplitJoinTyped, IInv, started, NEW n \in 0..MaxField, NEW m \in 0..MaxField,
         CopyField(n, m)
  PROVE  IInv' /\ View!Copy(n, m)
  <1> DEFINE e == fieldadr(fieldadr(Cache, m), n)
             b == Touch(e, n)
             v == FieldOf(e, m)
             c == IF n = m THEN b ELSE PutCell(b, n, Cell(b, m))
             d == PutCell(b, n, v)
  <1>1. n \in Nat /\ m \in Nat
    BY FieldNumber
  <1>2. /\ Valid(e) /\ SameView(Cache, e) /\ n <= Len(e.fld) /\ m <= Len(e.fld)
        /\ IF n = 0 THEN e.donerec ELSE e.donefld
        /\ IF m = 0 THEN e.donerec ELSE e.donefld
    <2> DEFINE a == fieldadr(Cache, m)
    <2>1. /\ Valid(a) /\ SameView(Cache, a) /\ m <= Len(a.fld)
          /\ IF m = 0 THEN a.donerec ELSE a.donefld
      BY <1>1, InUse, FieldadrValid, FieldadrView
    <2>2. a.fld \in Seq(Text)
      BY <2>1 DEF Valid, Sound, CacheType
    <2> HIDE DEF a
    <2>3. /\ Valid(fieldadr(a, n)) /\ n <= Len(fieldadr(a, n).fld)
          /\ IF n = 0 THEN fieldadr(a, n).donerec ELSE fieldadr(a, n).donefld
          /\ SameView(a, fieldadr(a, n))
          /\ a.donerec => fieldadr(a, n).donerec
          /\ a.donefld => fieldadr(a, n).donefld
          /\ Len(a.fld) <= Len(fieldadr(a, n).fld)
      BY <1>1, <2>1, FieldadrValid, FieldadrView
    <2>4. fieldadr(a, n).fld \in Seq(Text)
      BY <2>3 DEF Valid, Sound, CacheType
    <2>5. SameView(Cache, fieldadr(a, n))
      BY <2>1, <2>3 DEF SameView
    <2> QED  BY <1>1, <2>1, <2>2, <2>3, <2>4, <2>5 DEF a
  <1>3. Put(c) /\ Deliver(c, "copy", 0, <<>>) /\ UNCHANGED <<nfcell, started>>
    BY DEF CopyField
  <1> HIDE DEF e
  <1>4. v = View!FieldOf(m) /\ v \in Text /\ Cell(e, m) = v
    <2>1. Cell(e, m) = v /\ v \in Text
      BY <1>1, <1>2, CellIsField DEF Valid
    <2>2. v = View!FieldOf(m)
      BY <1>2, SameFieldOf
    <2> QED  BY <2>1, <2>2
  <1>5. CASE n = 0
    <2>1. b = NewRecord(e)
      BY <1>5 DEF Touch
    <2>2. Cell(b, m) = v
      BY <1>4, <2>1 DEF Cell, NewRecord
    <2>3. c = d
      BY <1>2, <1>5, <2>1, <2>2
         DEF PutCell, Cell, NewRecord, Faulty, Valid, Sound, CacheType
    <2> HIDE DEF c, v
    <2>4. Put(PutCell(NewRecord(e), 0, v))
          /\ Deliver(PutCell(NewRecord(e), 0, v), "copy", 0, <<>>)
      BY <1>3, <1>5, <2>1, <2>3
    <2>5. IInv' /\ out' = Outcome("copy", 0, <<>>) /\ View!Store(0, v)
      BY <1>2, <1>3, <1>4, <2>4, EmptyText, StoreRecordStep
    <2> QED  BY <1>4, <1>5, <2>5 DEF View!Copy, Outcome, View!Outcome
  <1>6. CASE n # 0
    <2>1. n \in Nat \ {0} /\ e.donefld
      BY <1>1, <1>2, <1>6
    <2>2. /\ Valid(b) /\ b.donefld /\ b.rec = e.rec
          /\ b.nf = (IF n > Len(FieldsOf(e)) THEN n ELSE Len(FieldsOf(e)))
          /\ \A i \in 1..b.nf : b.fld[i] = FieldOf(e, i)
          /\ Len(e.fld) <= Len(b.fld)
      BY <1>2, <2>1, TouchField
    <2> HIDE DEF b
    <2>3. /\ b \in CacheType /\ b.fault = "none" /\ b.fld \in Seq(Text) /\ b.nf \in Nat
          /\ \A i \in b.nf + 1 .. Len(b.fld) : b.fld[i] = <<>>
      BY <2>2 DEF Valid, Sound, CacheType
    <2>4. Len(FieldsOf(e)) \in Nat /\ e.fld \in Seq(Text)
      BY <1>2, <2>1, ViewTyped DEF Valid, Sound, CacheType
    <2>5. Cell(b, m) = v
      <3>1. CASE m = 0
        BY <1>4, <2>2, <3>1 DEF Cell
      <3>2. CASE m # 0 /\ m <= b.nf
        BY <1>1, <2>2, <2>3, <3>2 DEF Cell
      <3>3. CASE m # 0 /\ m > b.nf
        <4>1. b.fld[m] = <<>>
          BY <1>1, <1>2, <2>2, <2>3, <2>4, <3>3
        <4>2. m > Len(FieldsOf(e))
          BY <1>1, <2>1, <2>2, <2>4, <3>3
        <4> QED  BY <1>1, <2>4, <3>3, <4>1, <4>2 DEF Cell, FieldOf
      <3> QED  BY <1>1, <2>3, <3>1, <3>2, <3>3
    <2>6. c = d
      <3>1. CASE n = m
        <4>1. b.fld[n] = v
          BY <1>6, <2>5, <3>1 DEF Cell
        <4>2. [b EXCEPT !.fld[n] = v] = b
          BY <2>3, <4>1 DEF CacheType
        <4> QED  BY <1>6, <2>3, <3>1, <4>2 DEF PutCell, Faulty
      <3>2. CASE n # m
        BY <2>5, <3>2
      <3> QED  BY <3>1, <3>2
    <2> HIDE DEF c, d, v
    <2>7. d = PutCell(Touch(e, n), n, v) /\ Put(d) /\ Deliver(d, "copy", 0, <<>>)
      BY <1>3, <2>6 DEF d, b
    <2>8. IInv' /\ out' = Outcome("copy", 0, <<>>) /\ View!Store(n, v)
      BY <1>2, <1>3, <1>4, <2>1, <2>7, EmptyText, StoreFieldStep
    <2> QED  BY <1>4, <2>8 DEF View!Copy, Outcome, View!Outcome
  <1> QED  BY <1>5, <1>6
-----------------------------------------------------------------------------
LEMMA CoreStep ==
  ASSUME SplitJoinTyped, IInv, Core
  PROVE  IInv' /\ View!Next
  <1>1. Records \subseteq Text /\ Values \subseteq Text
    BY TextAssumption
  <1>2. ASSUME NEW t \in Records, ReadRecord(t) \/ Getline(t)
        PROVE  IInv' /\ View!Next
    BY <1>2, CoreReadStep DEF View!Next
  <1>nothing. ASSUME NEW t \in {rec, <<>>}, t = <<>> \/ donerec,
                ReadNothing(t) \/ GetlineNothing(t)
         PROVE  IInv' /\ View!Next
    BY <1>nothing, CoreNothingStep
  <1>read. CASE CoreRead
    BY <1>2, <1>nothing, <1>read DEF CoreRead
  <1>3. CASE CoreBegin
    BY <1>3, CoreBeginStep DEF View!Next
  <1>4. ASSUME started, NEW n \in 0..MaxField, Fetch(n)
        PROVE  IInv' /\ View!Next
    BY <1>4, FetchStep DEF View!Next
  <1>5. ASSUME started, FetchNF
        PROVE  IInv' /\ View!Next
    BY <1>5, FetchNFStep DEF View!Next
  <1>6. ASSUME started, NEW n \in 1..MaxField, NEW v \in Values, AssignField(n, v)
        PROVE  IInv' /\ View!Next
    <2>1. n \in 0..MaxField /\ v \in Text
      BY <1>1
    <2> QED  BY <1>6, <2>1, AssignStep DEF View!Next
  <1>7. ASSUME started, NEW v \in Records, AssignField(0, v)
        PROVE  IInv' /\ View!Next
    <2>1. 0 \in 0..MaxField
      <3>1. MaxField \in Nat
        BY TextAssumption
      <3> QED  BY <3>1
    <2>2. v \in Text
      BY <1>1
    <2> QED  BY <1>7, <2>1, <2>2, AssignStep DEF View!Next
  <1>8. ASSUME started, NEW n \in 0..MaxField, NEW m \in 0..MaxField, CopyField(n, m)
        PROVE  IInv' /\ View!Next
    BY <1>8, CopyStep DEF View!Next
  <1>9. ASSUME started, NEW v \in Records, Substitute(0, v)
        PROVE  IInv' /\ View!Next
    BY <1>1, <1>9, SubstituteStep DEF View!Next
  <1>10. ASSUME started, NEW s \in OfsVals, HostSetOFS(s)
         PROVE  IInv' /\ View!Next
    BY <1>10, HostSetOFSStep DEF View!Next
  <1> QED  BY <1>3, <1>4, <1>5, <1>6, <1>7, <1>8, <1>9, <1>10, <1>read
           DEF Core, CoreRecord

LEMMA StutterStep ==
  ASSUME IInv, UNCHANGED vars
  PROVE  IInv' /\ UNCHANGED View!vars
  <1>1. Cache' = Cache
    BY DEF vars, Cache
  <1>2. IInv'
    BY <1>1 DEF IInv, vars, Sound
  <1> QED  BY <1>1, <1>2 DEF vars, View!vars, TextView, FieldsView, TextOf, FieldsOf

\* The inductive invariant holds in every behaviour of a program of Core.
THEOREM CoreInvariant ==
  ASSUME SplitJoinTyped
  PROVE  CoreSpec => []IInv
  <1>1. Init => IInv
    BY InitInv
  <1>2. IInv /\ [Core]_vars => IInv'
    BY CoreStep, StutterStep
  <1> QED  BY <1>1, <1>2, PTL DEF CoreSpec

\* The cache keeps its types (cell.cpp, interp.cpp).
THEOREM CoreTypeOK ==
  ASSUME SplitJoinTyped
  PROVE  CoreSpec => []TypeOK
  <1>1. IInv => TypeOK
    BY DEF IInv, Sound, CacheType, Cache, TypeOK
  <1> QED  BY <1>1, CoreInvariant, PTL

\* A program of Core never sends fldbld and recbld after each other without
\* end and never leads them past fldtab, whatever its texts and its fields.
THEOREM CoreNoFault ==
  ASSUME SplitJoinTyped
  PROVE  CoreSpec => []NoFault
  <1>1. IInv => NoFault
    BY DEF IInv, Sound, Cache, NoFault
  <1> QED  BY <1>1, CoreInvariant, PTL

\* The cells past NF stay empty through splits, assignments and copies.
THEOREM CoreEmptyPastNF ==
  ASSUME SplitJoinTyped
  PROVE  CoreSpec => []EmptyPastNF
  <1>1. IInv => EmptyPastNF
    BY DEF IInv, Sound, Cache, EmptyPastNF
  <1> QED  BY <1>1, CoreInvariant, PTL

\* The lazy cache implements the eager record: no program of Core can tell
\* that $0 and the fields are rebuilt on demand.
THEOREM CoreImplementsRecordView ==
  ASSUME SplitJoinTyped
  PROVE  CoreSpec => ImplementsRecordView
  <1>1. Init => View!Init
    BY DEF Init, View!Init, TextView, FieldsView, TextOf, FieldsOf, Cache,
           Outcome, View!Outcome, BLANK
  <1>2. IInv /\ [Core]_vars => [View!Next]_(View!vars)
    BY CoreStep, StutterStep
  <1> QED  BY <1>1, <1>2, CoreInvariant, PTL
           DEF CoreSpec, ImplementsRecordView, View!Spec
-----------------------------------------------------------------------------
(***************************************************************************)
(* The whole language and the host (FullSpec).  The cache is no longer     *)
(* sound: NF may be past the table, both forms may be lost, and fldbld and *)
(* recbld may fail.  What survives every step is that the cache is typed   *)
(* and that FS and OFS have one of the values they were given; from there  *)
(* each operator is described on any cache.                                *)
(***************************************************************************)
\* The table reaches NF, the fields are split by one character or blanks.
Calm(c) == c.fault # "overrun" /\ c.nf <= Len(c.fld) /\ ~IsRegex(c.fs)

\* Coherent, of a cache that is not the current one; Met when NF is in the table.
Matched(c) ==
  c.donefld /\ c.donerec /\ c.nf <= Len(c.fld) =>
    \/ \E s \in FsVals \cup {BLANK}  : SubSeq(c.fld, 1, c.nf) = Split(c.rec, s)
    \/ \E s \in OfsVals \cup {BLANK} : c.rec = Join(SubSeq(c.fld, 1, c.nf), s)

Met(c) == c.nf <= Len(c.fld) /\ Matched(c)

\* A cache that a program and its host can have made.
Known(c) == /\ c \in CacheType
            /\ c.fs \in FsVals \cup {BLANK} /\ c.ofs \in OfsVals \cup {BLANK}

\* What every function of the cache keeps, be it the table, the flags or both.
Keeps(c, d) == /\ d \in CacheType /\ d.fs = c.fs /\ d.ofs = c.ofs
               /\ Len(c.fld) <= Len(d.fld)
               /\ Faulty(c) => Faulty(d)
               /\ Calm(c) => Calm(d)

LEMMA KeepsKnown ==
  ASSUME NEW c, Known(c), NEW d, Keeps(c, d)
  PROVE  Known(d)
  BY DEF Known, Keeps

LEMMA KeepsTwice ==
  ASSUME NEW c \in CacheType, NEW d, Keeps(c, d), NEW e, Keeps(d, e)
  PROVE  Keeps(c, e)
  <1>1. c.fld \in Seq(Text) /\ d.fld \in Seq(Text) /\ e.fld \in Seq(Text)
    BY DEF Keeps, CacheType
  <1>2. Len(c.fld) \in Nat /\ Len(d.fld) \in Nat /\ Len(e.fld) \in Nat
    BY ONLY <1>1
  <1>3. Len(c.fld) <= Len(d.fld) /\ Len(d.fld) <= Len(e.fld)
    BY DEF Keeps
  <1>4. Len(c.fld) <= Len(e.fld)
    BY ONLY <1>2, <1>3
  <1> QED  BY ONLY <1>4, Keeps(c, d), Keeps(d, e) DEF Keeps

LEMMA RecbldAny ==
  ASSUME NEW c \in CacheType, SplitJoinTyped
  PROVE  /\ Keeps(c, recbld(c))
         /\ recbld(c).fld = c.fld /\ recbld(c).nf = c.nf
         /\ recbld(c).donefld = c.donefld
         /\ Faulty(recbld(c)) \/ recbld(c).donerec
         /\ c.donerec => recbld(c) = c
         /\ Faulty(recbld(c)) \/ c.donerec
              \/ recbld(c).rec = Join(SubSeq(c.fld, 1, c.nf), c.ofs)
  <1>1. /\ c.fld \in Seq(Text) /\ c.nf \in Nat /\ c.rec \in Text /\ c.ofs \in Text
        /\ c.fs \in Text /\ Len(c.fld) \in Nat
        /\ c.donerec \in BOOLEAN /\ c.donefld \in BOOLEAN
    BY DEF CacheType
  <1>2. CASE Faulty(c) \/ c.donerec
    <2>1. recbld(c) = c
      BY <1>2 DEF recbld
    <2> QED  BY <1>1, <1>2, <2>1 DEF Keeps
  <1>3. CASE ~(Faulty(c) \/ c.donerec) /\ ~c.donefld /\ c.nf >= 1
    <2>1. recbld(c) = [c EXCEPT !.fault = "runaway"]
      BY <1>3 DEF recbld, Crash
    <2> QED  BY <1>1, <1>3, <2>1 DEF Keeps, Calm, Faulty, CacheType
  <1>4. CASE ~(Faulty(c) \/ c.donerec) /\ ~(~c.donefld /\ c.nf >= 1) /\ c.nf > Len(c.fld)
    <2>1. recbld(c) = [c EXCEPT !.fault = "overrun"]
      BY <1>4 DEF recbld, Crash
    <2>2. ~Calm(c)
      BY <1>1, <1>4 DEF Calm
    <2> QED  BY <1>1, <1>4, <2>1, <2>2 DEF Keeps, Faulty, CacheType
  <1>5. CASE ~(Faulty(c) \/ c.donerec) /\ ~(~c.donefld /\ c.nf >= 1) /\ ~(c.nf > Len(c.fld))
    <2>1. recbld(c) = [c EXCEPT !.rec = Join(SubSeq(c.fld, 1, c.nf), c.ofs), !.donerec = TRUE]
      BY <1>5 DEF recbld
    <2>2. SubSeq(c.fld, 1, c.nf) \in Seq(Text)
      BY <1>1, <1>5
    <2>3. Join(SubSeq(c.fld, 1, c.nf), c.ofs) \in Text
      BY <1>1, <2>2 DEF SplitJoinTyped
    <2>4. recbld(c) \in CacheType
      BY <2>1, <2>3 DEF CacheType
    <2>5. /\ recbld(c).rec = Join(SubSeq(c.fld, 1, c.nf), c.ofs)
          /\ recbld(c).fld = c.fld /\ recbld(c).nf = c.nf /\ recbld(c).donerec
          /\ recbld(c).donefld = c.donefld /\ recbld(c).fs = c.fs
          /\ recbld(c).ofs = c.ofs /\ recbld(c).fault = c.fault
      BY <2>1 DEF CacheType
    <2> QED  BY <1>1, <1>5, <2>4, <2>5 DEF Keeps, Calm, Faulty
  <1> QED  BY <1>2, <1>3, <1>4, <1>5

\* Splitting the text of a cache: a table too short is the only way to fail.
LEMMA ResplitAny ==
  ASSUME NEW r \in CacheType, SplitJoinTyped, ~Faulty(r)
  PROVE  /\ Keeps(r, Resplit(r))
         /\ Faulty(Resplit(r)) \/
              /\ Resplit(r).donefld /\ Resplit(r).donerec
              /\ Resplit(r).rec = r.rec
              /\ Resplit(r).nf <= Len(Resplit(r).fld)
              /\ SubSeq(Resplit(r).fld, 1, Resplit(r).nf) = Split(r.rec, r.fs)
  <1> DEFINE new   == Split(r.rec, r.fs)
             k     == Len(new)
             cells == TableAfter(Len(r.fld), Guarded(new, r.fs))
             tail  == cleanfld(Extend(r.fld, cells), k + 1, r.nf)
             f     == [i \in 1..cells |-> IF i <= k THEN new[i] ELSE tail[i]]
  <1>1. /\ r.fld \in Seq(Text) /\ r.nf \in Nat /\ r.rec \in Text /\ r.fs \in Text
        /\ Len(r.fld) \in Nat
    BY DEF CacheType
  <1>2. new \in Seq(Text) /\ k \in Nat
    BY <1>1 DEF SplitJoinTyped
  <1>3. /\ Guarded(new, r.fs) \in Nat
        /\ ~IsRegex(r.fs) => Guarded(new, r.fs) = k
    BY <1>2 DEF Guarded
  <1>4. /\ cells \in Nat /\ cells >= Len(r.fld)
        /\ ~IsRegex(r.fs) => cells >= k
    <2> HIDE DEF k
    <2> DEFINE q == Guarded(new, r.fs)
    <2>1. q \in Nat /\ (~IsRegex(r.fs) => q = k)
      BY <1>3
    <2> HIDE DEF q
    <2>2. TableAfter(Len(r.fld), q) \in Nat /\ TableAfter(Len(r.fld), q) >= q
          /\ TableAfter(Len(r.fld), q) >= Len(r.fld)
      BY <1>1, <2>1, TableAfterTyped
    <2> QED  BY <2>1, <2>2 DEF q
  <1>5. Resplit(r) = IF k > cells \/ r.nf > cells THEN [r EXCEPT !.fault = "overrun"]
                     ELSE [r EXCEPT !.fld = f, !.nf = k, !.donefld = TRUE, !.donerec = TRUE]
    BY Zenon DEF Resplit, Fill, Filled, Crash
  <1>6. CASE k > cells \/ r.nf > cells
    <2>1. Resplit(r) = [r EXCEPT !.fault = "overrun"]
      BY <1>5, <1>6
    <2>2. ~Calm(r)
      <3> HIDE DEF k, cells
      <3> QED  BY <1>1, <1>2, <1>4, <1>6 DEF Calm
    <2> HIDE DEF k, cells
    <2> QED  BY <1>1, <2>1, <2>2 DEF Keeps, Faulty, CacheType
  <1>7. CASE ~(k > cells \/ r.nf > cells)
    <2>1. Resplit(r) = [r EXCEPT !.fld = f, !.nf = k, !.donefld = TRUE, !.donerec = TRUE]
      BY <1>5, <1>7
    <2>2. k <= cells
      <3> HIDE DEF k, cells
      <3> QED  BY <1>2, <1>4, <1>7
    <2> HIDE DEF cells
    <2>3. tail \in Seq(Text) /\ Len(tail) = cells
      <3>1. Extend(r.fld, cells) \in Seq(Text) /\ Len(Extend(r.fld, cells)) = cells
        BY <1>1, <1>4, ExtendTyped
      <3> HIDE DEF k
      <3>2. k + 1 \in Nat
        BY <1>2
      <3> DEFINE g == Extend(r.fld, cells)
      <3> HIDE DEF g
      <3>3. g \in Seq(Text) /\ Len(g) = cells
        BY <3>1 DEF g
      <3>4. cleanfld(g, k + 1, r.nf) \in Seq(Text) /\ Len(cleanfld(g, k + 1, r.nf)) = Len(g)
        BY <1>1, <3>2, <3>3, CleanTyped
      <3> QED  BY <3>3, <3>4 DEF g
    <2>4. f \in Seq(Text) /\ Len(f) = cells /\ \A i \in 1..k : f[i] = new[i]
      <3> HIDE DEF tail, new
      <3>1. \A i \in 1..cells : f[i] \in Text
        BY <1>2, <1>4, <2>3
      <3>2. f \in [1..cells -> Text]
        BY <3>1
      <3> HIDE DEF k
      <3>3. \A i \in 1..cells : f[i] = IF i <= k THEN new[i] ELSE tail[i]
        OBVIOUS
      <3> HIDE DEF f
      <3>4. f \in Seq(Text) /\ Len(f) = cells
        BY ONLY <1>4, <3>2
      <3> QED  BY ONLY <1>2, <1>4, <2>2, <3>3, <3>4
    <2>5. SubSeq(f, 1, k) = new
      <3>1. k = Len(new)
        OBVIOUS
      <3> HIDE DEF f, new, k
      <3> QED  BY ONLY <1>2, <2>2, <2>4, <3>1, PrefixEqual
    <2>6. Resplit(r) \in CacheType
      <3> HIDE DEF f, k, new
      <3> QED  BY <1>2, <2>1, <2>4 DEF CacheType
    <2>7. /\ Resplit(r).fld = f /\ Resplit(r).nf = k
          /\ Resplit(r).donefld /\ Resplit(r).donerec /\ Resplit(r).rec = r.rec
          /\ Resplit(r).fs = r.fs /\ Resplit(r).ofs = r.ofs /\ Resplit(r).fault = r.fault
      BY <2>1 DEF CacheType
    <2>8. Keeps(r, Resplit(r))
      <3>1. Len(r.fld) <= Len(f) /\ k <= Len(f)
        <4> HIDE DEF f, k
        <4> QED  BY ONLY <1>1, <1>2, <1>4, <2>2, <2>4
      <3> HIDE DEF f, k, new
      <3> QED  BY <2>6, <2>7, <3>1 DEF Keeps, Calm, Faulty
    <2>9. k <= Len(f)
      <3> HIDE DEF f, k
      <3> QED  BY ONLY <1>2, <1>4, <2>2, <2>4
    <2> HIDE DEF f, k, new
    <2> QED  BY <2>5, <2>7, <2>8, <2>9 DEF new
  <1> QED  BY <1>6, <1>7

LEMMA FldbldAny ==
  ASSUME NEW c \in CacheType, SplitJoinTyped
  PROVE  /\ Keeps(c, fldbld(c))
         /\ Faulty(fldbld(c)) \/ fldbld(c).donefld
         /\ c.donefld => fldbld(c) = c
         /\ Faulty(fldbld(c)) \/ c.donefld \/
              /\ fldbld(c).donerec /\ fldbld(c).nf <= Len(fldbld(c).fld)
              /\ SubSeq(fldbld(c).fld, 1, fldbld(c).nf) = Split(fldbld(c).rec, c.fs)
  <1>1. CASE c.donefld
    <2>1. fldbld(c) = c
      BY <1>1 DEF fldbld
    <2>2. Len(c.fld) \in Nat
      BY DEF CacheType
    <2> QED  BY <1>1, <2>1, <2>2 DEF Keeps
  <1>2. CASE ~c.donefld
    <2> DEFINE r == recbld(c)
    <2>1. Keeps(c, r)
      BY RecbldAny
    <2>2. fldbld(c) = Resplit(r)
      BY <1>2 DEF fldbld
    <2> HIDE DEF r
    <2>3. CASE Faulty(r)
      <3>1. Resplit(r) = r
        BY <2>3 DEF Resplit
      <3> QED  BY <1>2, <2>1, <2>2, <2>3, <3>1
    <2>4. CASE ~Faulty(r)
      <3>1. r \in CacheType /\ r.fs = c.fs
        BY <2>1 DEF Keeps
      <3>2. /\ Keeps(r, Resplit(r))
            /\ Faulty(Resplit(r)) \/
                 /\ Resplit(r).donefld /\ Resplit(r).donerec
                 /\ Resplit(r).rec = r.rec
                 /\ Resplit(r).nf <= Len(Resplit(r).fld)
                 /\ SubSeq(Resplit(r).fld, 1, Resplit(r).nf) = Split(r.rec, r.fs)
        BY <2>4, <3>1, ResplitAny
      <3>3. Keeps(c, Resplit(r))
        BY <2>1, <3>2, KeepsTwice
      <3> QED  BY <1>2, <2>2, <3>1, <3>2, <3>3
    <2> QED  BY <2>3, <2>4
  <1> QED  BY <1>1, <1>2

LEMMA SetlastfldAny ==
  ASSUME NEW c \in CacheType, NEW n \in Nat
  PROVE  /\ Keeps(c, setlastfld(c, n))
         /\ setlastfld(c, n).donefld = c.donefld
         /\ setlastfld(c, n).donerec = c.donerec
  <1> DEFINE g == growfldtab(c.fld, n)
             h == IF c.nf < n THEN cleanfld(g, c.nf + 1, n) ELSE cleanfld(g, n + 1, c.nf)
  <1>1. /\ c.fld \in Seq(Text) /\ c.nf \in Nat /\ Len(c.fld) \in Nat
    BY DEF CacheType
  <1>2. g \in Seq(Text) /\ Len(g) >= n /\ Len(g) >= Len(c.fld) /\ Len(g) \in Nat
    BY <1>1, GrowTyped
  <1>3. CASE Faulty(c)
    <2>1. setlastfld(c, n) = c
      BY <1>3 DEF setlastfld
    <2> QED  BY <1>1, <1>3, <2>1 DEF Keeps
  <1>4. CASE ~Faulty(c) /\ c.nf > Len(g)
    <2>1. setlastfld(c, n) = [c EXCEPT !.fault = "overrun"]
      BY <1>4 DEF setlastfld, Lengthen, Crash
    <2> HIDE DEF g
    <2>2. ~Calm(c) /\ n < c.nf
      BY <1>1, <1>2, <1>4 DEF Calm
    <2> QED  BY <1>1, <1>4, <2>1, <2>2 DEF Keeps, Faulty, CacheType
  <1>5. CASE ~Faulty(c) /\ ~(c.nf > Len(g))
    <2>1. setlastfld(c, n) = [c EXCEPT !.fld = h, !.nf = n]
      BY <1>5 DEF setlastfld, Lengthen
    <2>2. h \in Seq(Text) /\ Len(h) = Len(g)
      <3> HIDE DEF g
      <3>1. c.nf + 1 \in Nat /\ n + 1 \in Nat
        BY <1>1
      <3> QED  BY <1>1, <1>2, <3>1, CleanTyped
    <2> HIDE DEF g, h
    <2>3. Len(c.fld) <= Len(h) /\ n <= Len(h)
      BY <1>1, <1>2, <2>2
    <2>4. setlastfld(c, n) \in CacheType
      BY <2>1, <2>2 DEF CacheType
    <2>5. /\ setlastfld(c, n).fld = h /\ setlastfld(c, n).nf = n
          /\ setlastfld(c, n).fs = c.fs /\ setlastfld(c, n).ofs = c.ofs
          /\ setlastfld(c, n).donefld = c.donefld /\ setlastfld(c, n).donerec = c.donerec
          /\ setlastfld(c, n).fault = c.fault
      BY <2>1 DEF CacheType
    <2> QED  BY <1>5, <2>3, <2>4, <2>5 DEF Keeps, Calm, Faulty
  <1> QED  BY <1>3, <1>4, <1>5

LEMMA ReachAny ==
  ASSUME NEW c \in CacheType, NEW n \in Nat
  PROVE  /\ Keeps(c, Reach(c, n))
         /\ Reach(c, n).donefld = c.donefld /\ Reach(c, n).donerec = c.donerec
  <1>1. CASE n > c.nf
    BY <1>1, SetlastfldAny DEF Reach
  <1>2. CASE ~(n > c.nf)
    <2>1. Reach(c, n) = c
      BY <1>2 DEF Reach
    <2>2. Len(c.fld) \in Nat
      BY DEF CacheType
    <2> QED  BY <2>1, <2>2 DEF Keeps
  <1> QED  BY <1>1, <1>2

\* A store into the table, in it or past it, leaves a table of the same length.
LEMMA StoreTyped ==
  ASSUME NEW f \in Seq(Text), NEW n \in Nat, NEW v \in Text
  PROVE  [f EXCEPT ![n] = v] \in Seq(Text) /\ Len([f EXCEPT ![n] = v]) = Len(f)
  <1>1. Len(f) \in Nat /\ f \in [1..Len(f) -> Text]
    OBVIOUS
  <1>2. [f EXCEPT ![n] = v] \in [1..Len(f) -> Text]
    BY <1>1
  <1> QED  BY <1>1, <1>2

LEMMA PutCellAny ==
  ASSUME NEW c \in CacheType, NEW n \in Nat, NEW v, Faulty(c) \/ v \in Text
  PROVE  /\ Keeps(c, PutCell(c, n, v))
         /\ PutCell(c, n, v).donefld = c.donefld
         /\ PutCell(c, n, v).donerec = c.donerec
         /\ Faulty(PutCell(c, n, v)) = Faulty(c)
  <1>1. c.fld \in Seq(Text) /\ c.nf \in Nat /\ Len(c.fld) \in Nat
    BY DEF CacheType
  <1>2. CASE Faulty(c)
    <2>1. PutCell(c, n, v) = c
      BY <1>2 DEF PutCell
    <2> QED  BY <1>1, <2>1 DEF Keeps
  <1>3. CASE ~Faulty(c) /\ n = 0
    <2>1. PutCell(c, n, v) = [c EXCEPT !.rec = v]
      BY <1>3 DEF PutCell
    <2> QED  BY <1>1, <1>3, <2>1 DEF Keeps, Calm, Faulty, CacheType
  <1>4. CASE ~Faulty(c) /\ n # 0
    <2> DEFINE f == [c.fld EXCEPT ![n] = v]
    <2>1. PutCell(c, n, v) = [c EXCEPT !.fld = f]
      BY <1>4 DEF PutCell, CacheType
    <2>2. f \in Seq(Text) /\ Len(f) = Len(c.fld)
      <3>1. v \in Text
        BY <1>4
      <3> QED  BY <1>1, <3>1, StoreTyped
    <2> HIDE DEF f
    <2>3. PutCell(c, n, v) \in CacheType
      BY <2>1, <2>2 DEF CacheType
    <2>4. /\ PutCell(c, n, v).fld = f /\ PutCell(c, n, v).nf = c.nf
          /\ PutCell(c, n, v).fs = c.fs /\ PutCell(c, n, v).ofs = c.ofs
          /\ PutCell(c, n, v).donefld = c.donefld /\ PutCell(c, n, v).donerec = c.donerec
          /\ PutCell(c, n, v).fault = c.fault
      BY <2>1 DEF CacheType
    <2> QED  BY <1>1, <2>2, <2>3, <2>4 DEF Keeps, Calm, Faulty
  <1> QED  BY <1>2, <1>3, <1>4

\* A flag is dropped or set and nothing else changes.
LEMMA NewRecordAny ==
  ASSUME NEW c \in CacheType
  PROVE  /\ Keeps(c, NewRecord(c)) /\ NewRecord(c).donefld = FALSE
         /\ NewRecord(c).donerec = TRUE /\ NewRecord(c).fault = c.fault
  <1> DEFINE d == NewRecord(c)
  <1>1. d = [c EXCEPT !.donefld = FALSE, !.donerec = TRUE]
    BY DEF NewRecord
  <1> HIDE DEF d
  <1>2. Len(c.fld) \in Nat
    BY DEF CacheType
  <1>3. d \in CacheType
    BY <1>1 DEF CacheType
  <1>4. /\ d.donefld = FALSE /\ d.donerec = TRUE /\ d.fault = c.fault
        /\ d.fld = c.fld /\ d.nf = c.nf /\ d.fs = c.fs /\ d.ofs = c.ofs
    BY <1>1 DEF CacheType
  <1>5. Len(c.fld) <= Len(d.fld)
    BY <1>2, <1>4
  <1>6. Keeps(c, d)
    BY ONLY <1>3, <1>4, <1>5 DEF Keeps, Calm, Faulty
  <1> QED  BY <1>4, <1>6 DEF d

LEMMA DropRecord ==
  ASSUME NEW c \in CacheType, NEW d, d = [c EXCEPT !.donerec = FALSE]
  PROVE  /\ Keeps(c, d) /\ d.donefld = c.donefld /\ d.donerec = FALSE
         /\ d.fault = c.fault
  <1>1. Len(c.fld) \in Nat
    BY DEF CacheType
  <1>2. d \in CacheType
    BY DEF CacheType
  <1>3. /\ d.donefld = c.donefld /\ d.donerec = FALSE /\ d.fault = c.fault
        /\ d.fld = c.fld /\ d.nf = c.nf /\ d.fs = c.fs /\ d.ofs = c.ofs
    BY DEF CacheType
  <1>4. Len(c.fld) <= Len(d.fld)
    BY <1>1, <1>3
  <1> QED  BY ONLY <1>2, <1>3, <1>4 DEF Keeps, Calm, Faulty

LEMMA DropFields ==
  ASSUME NEW c \in CacheType, NEW d, d = [c EXCEPT !.donefld = FALSE]
  PROVE  /\ Keeps(c, d) /\ d.donefld = FALSE /\ d.donerec = c.donerec
         /\ d.fault = c.fault
  <1>1. Len(c.fld) \in Nat
    BY DEF CacheType
  <1>2. d \in CacheType
    BY DEF CacheType
  <1>3. /\ d.donefld = FALSE /\ d.donerec = c.donerec /\ d.fault = c.fault
        /\ d.fld = c.fld /\ d.nf = c.nf /\ d.fs = c.fs /\ d.ofs = c.ofs
    BY DEF CacheType
  <1>4. Len(c.fld) <= Len(d.fld)
    BY <1>1, <1>3
  <1> QED  BY ONLY <1>2, <1>3, <1>4 DEF Keeps, Calm, Faulty

LEMMA TouchAny ==
  ASSUME NEW c \in CacheType, NEW n \in Nat
  PROVE  /\ Keeps(c, Touch(c, n))
         /\ Touch(c, n).donefld = (n # 0 /\ c.donefld)
         /\ Touch(c, n).donerec = (n = 0)
  <1>1. CASE n = 0
    <2>1. Touch(c, n) = NewRecord(c)
      BY <1>1 DEF Touch
    <2> QED  BY <1>1, <2>1, NewRecordAny
  <1>2. CASE n # 0
    <2> DEFINE r == Reach(c, n)
    <2>1. Keeps(c, r) /\ r \in CacheType /\ r.donefld = c.donefld
      BY ReachAny DEF Keeps
    <2>2. Touch(c, n) = [r EXCEPT !.donerec = FALSE]
      BY <1>2 DEF Touch
    <2> HIDE DEF r
    <2>3. /\ Keeps(r, Touch(c, n)) /\ Touch(c, n).donefld = r.donefld
          /\ Touch(c, n).donerec = FALSE
      BY <2>1, <2>2, DropRecord
    <2>4. Keeps(c, Touch(c, n))
      BY <2>1, <2>3, KeepsTwice
    <2>5. c.donefld \in BOOLEAN
      BY DEF CacheType
    <2> QED  BY <1>2, <2>1, <2>3, <2>4, <2>5
  <1> QED  BY <1>1, <1>2

LEMMA GrowAny ==
  ASSUME NEW c \in CacheType, NEW n \in Nat
  PROVE  /\ Keeps(c, Grow(c, n))
         /\ Faulty(Grow(c, n)) = Faulty(c)
         /\ Grow(c, n).donefld = c.donefld /\ Grow(c, n).donerec = c.donerec
         /\ Grow(c, n).rec = c.rec /\ Grow(c, n).nf = c.nf
         /\ ~Faulty(c) => n <= Len(Grow(c, n).fld)
         /\ c.nf <= Len(c.fld) =>
              SubSeq(Grow(c, n).fld, 1, c.nf) = SubSeq(c.fld, 1, c.nf)
  <1> DEFINE g == growfldtab(c.fld, n)
  <1>1. /\ c.fld \in Seq(Text) /\ c.nf \in Nat /\ Len(c.fld) \in Nat
    BY DEF CacheType
  <1>2. /\ g \in Seq(Text) /\ Len(g) >= n /\ Len(g) >= Len(c.fld) /\ Len(g) \in Nat
        /\ \A i \in 1..Len(g) : g[i] = IF i <= Len(c.fld) THEN c.fld[i] ELSE <<>>
    BY <1>1, GrowTyped
  <1>3. CASE Faulty(c)
    <2>1. Grow(c, n) = c
      BY <1>3 DEF Grow
    <2> QED  BY <1>1, <1>3, <2>1 DEF Keeps
  <1>4. CASE ~Faulty(c)
    <2>1. Grow(c, n) = [c EXCEPT !.fld = g]
      BY <1>4 DEF Grow
    <2> HIDE DEF g
    <2>2. Grow(c, n) \in CacheType
      BY <1>2, <2>1 DEF CacheType
    <2>3. /\ Grow(c, n).fld = g /\ Grow(c, n).nf = c.nf /\ Grow(c, n).rec = c.rec
          /\ Grow(c, n).fs = c.fs /\ Grow(c, n).ofs = c.ofs
          /\ Grow(c, n).donefld = c.donefld /\ Grow(c, n).donerec = c.donerec
          /\ Grow(c, n).fault = c.fault
      BY <2>1 DEF CacheType
    <2>4. c.nf <= Len(c.fld) => SubSeq(g, 1, c.nf) = SubSeq(c.fld, 1, c.nf)
      BY <1>1, <1>2
    <2> QED  BY <1>1, <1>2, <2>2, <2>3, <2>4 DEF Keeps, Calm, Faulty
  <1> QED  BY <1>3, <1>4
-----------------------------------------------------------------------------
(* Making a form valid keeps the two forms of the record one another's.    *)

LEMMA RecbldMet ==
  ASSUME NEW c, Known(c), SplitJoinTyped, Met(c)
  PROVE  Faulty(recbld(c)) \/ Met(recbld(c))
  <1>1. c \in CacheType /\ c.ofs \in OfsVals \cup {BLANK}
    BY DEF Known
  <1>2. CASE c.donerec
    BY <1>1, <1>2, RecbldAny
  <1>3. CASE ~c.donerec
    <2>1. /\ recbld(c).fld = c.fld /\ recbld(c).nf = c.nf
          /\ Faulty(recbld(c)) \/ recbld(c).rec = Join(SubSeq(c.fld, 1, c.nf), c.ofs)
      BY <1>1, <1>3, RecbldAny
    <2> QED  BY <1>1, <2>1 DEF Met, Matched
  <1> QED  BY <1>2, <1>3

LEMMA FldbldMet ==
  ASSUME NEW c, Known(c), SplitJoinTyped
  PROVE  /\ Met(c) => Faulty(fldbld(c)) \/ Met(fldbld(c))
         /\ ~c.donefld => Faulty(fldbld(c)) \/ Met(fldbld(c))
  <1>1. c \in CacheType /\ c.fs \in FsVals \cup {BLANK}
    BY DEF Known
  <1>2. CASE c.donefld
    BY <1>1, <1>2, FldbldAny
  <1>3. CASE ~c.donefld
    <2>1. Faulty(fldbld(c)) \/
              /\ fldbld(c).nf <= Len(fldbld(c).fld)
              /\ SubSeq(fldbld(c).fld, 1, fldbld(c).nf) = Split(fldbld(c).rec, c.fs)
      BY <1>1, <1>3, FldbldAny
    <2> QED  BY <1>1, <2>1 DEF Met, Matched
  <1> QED  BY <1>2, <1>3

LEMMA FieldadrAny ==
  ASSUME NEW c, Known(c), SplitJoinTyped, NEW n \in Nat
  PROVE  /\ Keeps(c, fieldadr(c, n)) /\ Known(fieldadr(c, n))
         /\ Faulty(fieldadr(c, n)) \/
              /\ n <= Len(fieldadr(c, n).fld)
              /\ IF n = 0 THEN fieldadr(c, n).donerec ELSE fieldadr(c, n).donefld
         /\ Met(c) => Faulty(fieldadr(c, n)) \/ Met(fieldadr(c, n))
  <1> DEFINE b == IF n = 0 THEN recbld(c) ELSE fldbld(c)
             d == Grow(b, n)
  <1>1. c \in CacheType
    BY DEF Known
  <1>2. /\ Keeps(c, b)
        /\ Faulty(b) \/ (IF n = 0 THEN b.donerec ELSE b.donefld)
        /\ Met(c) => Faulty(b) \/ Met(b)
    BY <1>1, RecbldAny, FldbldAny, RecbldMet, FldbldMet
  <1>3. fieldadr(c, n) = d
    BY DEF fieldadr
  <1> HIDE DEF b
  <1>4. b \in CacheType
    BY ONLY <1>2 DEF Keeps
  <1>5. /\ Keeps(b, d) /\ Faulty(d) = Faulty(b)
        /\ d.donefld = b.donefld /\ d.donerec = b.donerec
        /\ d.rec = b.rec /\ d.nf = b.nf
        /\ ~Faulty(b) => n <= Len(d.fld)
        /\ b.nf <= Len(b.fld) => SubSeq(d.fld, 1, b.nf) = SubSeq(b.fld, 1, b.nf)
    BY <1>4, GrowAny
  <1> HIDE DEF d
  <1>6. Keeps(c, d) /\ Known(d)
    <2>1. Keeps(c, d)
      BY ONLY <1>1, <1>2, <1>5, KeepsTwice
    <2> QED  BY <2>1, KeepsKnown
  <1>7. Met(b) => Met(d)
    <2> SUFFICES ASSUME Met(b) PROVE Met(d)
      OBVIOUS
    <2>1. b.nf \in Nat /\ Len(b.fld) \in Nat /\ Len(d.fld) \in Nat
      <3>1. b.nf \in Nat /\ b.fld \in Seq(Text) /\ d.fld \in Seq(Text)
        BY <1>4, <1>6 DEF CacheType, Known
      <3> QED  BY ONLY <3>1
    <2>2. b.nf <= Len(b.fld) /\ Len(b.fld) <= Len(d.fld)
      BY <1>5 DEF Keeps, Met
    <2>3. b.nf <= Len(d.fld)
      BY ONLY <2>1, <2>2
    <2> QED  BY <1>5, <2>2, <2>3 DEF Met, Matched
  <1> QED  BY <1>2, <1>3, <1>5, <1>6, <1>7
-----------------------------------------------------------------------------
(* The invariant of every program and host, and what a step may not do.    *)

FullInv == /\ Known(Cache)
           /\ started \in BOOLEAN /\ nfcell \in {"CNF", "CELL"}
           /\ out.val \in Text

\* The conclusions of OverrunCauses, BothLostOnlyBy and PartOnlyBy of a step.
Overruns == fault' = "overrun" => nf > Len(fld) \/ IsRegex(fs)

LosesBoth == (donefld \/ donerec) /\ ~(donefld' \/ donerec') /\ fault' = "none"
               => \/ out'.op \in {"sub", "hostset"} /\ out'.n >= 1
                  \/ out'.op \in {"hostget", "hostNF"}

Parts == Coherent /\ ~Coherent' /\ nf <= Len(fld) /\ fault' = "none" =>
           out'.op \in {"getfield", "getfile", "setNF", "hostNF"}

GoodStep == FullInv' /\ Overruns /\ LosesBoth /\ Parts

LEMMA CoherentMatched == Coherent <=> Matched(Cache)
  BY DEF Coherent, Matched, Cache

\* A statement or call ends like this: the cache is c, and unless a fault
\* stopped it, it delivered v.
Ends(c, op, n, v) ==
  /\ Put(c) /\ Deliver(c, op, n, v)
  /\ started' \in BOOLEAN /\ UNCHANGED nfcell

LEMMA StepEnds ==
  ASSUME FullInv, fault = "none", NEW c, Known(c),
         NEW op, NEW n, NEW v, Ends(c, op, n, v),
         Faulty(c) \/ v \in Text,
         Calm(Cache) => c.fault # "overrun",
         \/ Faulty(c) \/ c.donefld \/ c.donerec \/ ~(Cache.donefld \/ Cache.donerec)
         \/ op \in {"sub", "hostset"} /\ n >= 1
         \/ op \in {"hostget", "hostNF"},
         \/ Faulty(c) \/ ~Met(Cache) \/ Matched(c)
         \/ op \in {"getfield", "getfile", "setNF", "hostNF"}
  PROVE  GoodStep
  <1>1. c \in CacheType
    BY DEF Known
  <1>2. Cache' = c
    BY <1>1, PutCache DEF Ends
  <1>3. /\ donefld' = c.donefld /\ donerec' = c.donerec /\ fault' = c.fault
        /\ donefld = Cache.donefld /\ donerec = Cache.donerec
        /\ nf = Cache.nf /\ fld = Cache.fld /\ fs = Cache.fs /\ fault = Cache.fault
    BY DEF Ends, Put, Cache
  <1>4. ~Faulty(c) => out' = Outcome(op, n, v)
    BY DEF Ends, Deliver
  <1>5. Faulty(c) => out' = Outcome("fault", 0, <<>>)
    BY DEF Ends, Deliver
  <1>6. out'.val \in Text
    BY <1>4, <1>5, EmptyText DEF Outcome
  <1>7. ~Faulty(c) => out'.op = op /\ out'.n = n
    BY <1>4 DEF Outcome
  <1>8. FullInv'
    <2>1. Known(Cache)'
      <3>1. Known(Cache')
        BY <1>2
      <3> QED  BY <3>1 DEF Known
    <2> QED  BY <1>6, <2>1 DEF FullInv, Ends
  <1>9. Overruns
    <2>1. nf \in Nat /\ Len(fld) \in Nat
      <3>1. nf \in Nat /\ fld \in Seq(Text)
        BY <1>3 DEF FullInv, Known, CacheType
      <3> QED  BY ONLY <3>1
    <2>2. Cache.fault # "overrun"
      BY <1>3
    <2> QED  BY <1>3, <2>1, <2>2 DEF Overruns, Calm
  <1>10. LosesBoth
    BY <1>3, <1>7 DEF LosesBoth, Faulty
  <1>11. Parts
    <2>1. Coherent /\ nf <= Len(fld) => Met(Cache)
      BY <1>3, CoherentMatched DEF Met
    <2>2. Matched(c) => Coherent'
      <3>1. Matched(c) => Matched(Cache')
        BY <1>2
      <3>2. Matched(Cache') => Coherent'
        BY DEF Matched, Coherent, Cache
      <3> QED  BY <3>1, <3>2
    <2> QED  BY <1>3, <1>7, <2>1, <2>2 DEF Parts, Faulty
  <1> QED  BY <1>8, <1>9, <1>10, <1>11 DEF GoodStep

\* ... after operations that keep the cache.
LEMMA KeepsEnds ==
  ASSUME FullInv, fault = "none", NEW c, Keeps(Cache, c),
         NEW op, NEW n, NEW v, Ends(c, op, n, v),
         Faulty(c) \/ v \in Text,
         \/ Faulty(c) \/ c.donefld \/ c.donerec \/ ~(Cache.donefld \/ Cache.donerec)
         \/ op \in {"sub", "hostset"} /\ n >= 1
         \/ op \in {"hostget", "hostNF"},
         \/ Faulty(c) \/ ~Met(Cache) \/ Matched(c)
         \/ op \in {"getfield", "getfile", "setNF", "hostNF"}
  PROVE  GoodStep
  <1>1. Known(c)
    BY KeepsKnown DEF FullInv
  <1>2. Calm(Cache) => c.fault # "overrun"
    BY DEF Keeps, Calm
  <1> QED  BY <1>1, <1>2, StepEnds

LEMMA InUseAny ==
  ASSUME FullInv, fault = "none"
  PROVE  /\ Known(Cache) /\ Cache \in CacheType /\ ~Faulty(Cache)
         /\ Keeps(Cache, Cache)
  <1>1. Known(Cache) /\ Cache \in CacheType /\ ~Faulty(Cache)
    BY DEF FullInv, Known, Faulty, Cache
  <1>2. Len(Cache.fld) \in Nat
    BY <1>1 DEF CacheType
  <1> QED  BY <1>1, <1>2 DEF Keeps

\* $0 has a new text: what the reads start with.
LEMMA NewTextAny ==
  ASSUME NEW c \in CacheType, NEW t \in Text
  PROVE  LET d == PutCell(NewRecord(c), 0, t)
         IN  /\ Keeps(c, d) /\ ~d.donefld /\ d.donerec
             /\ Faulty(d) = Faulty(c)
  <1> DEFINE b == NewRecord(c)
             d == PutCell(b, 0, t)
  <1>1. Keeps(c, b) /\ b.donefld = FALSE /\ b.donerec = TRUE /\ b.fault = c.fault
    BY NewRecordAny
  <1> HIDE DEF b
  <1>2. b \in CacheType
    BY <1>1 DEF Keeps
  <1>3. Keeps(b, d) /\ d.donefld = b.donefld /\ d.donerec = b.donerec
        /\ Faulty(d) = Faulty(b)
    BY <1>2, PutCellAny
  <1> HIDE DEF d
  <1>4. Keeps(c, d)
    BY <1>1, <1>3, KeepsTwice
  <1> QED  BY <1>1, <1>3, <1>4 DEF Faulty, d, b

\* getrec, found or not, split at once or not.
LEMMA InputFull ==
  ASSUME SplitJoinTyped, FullInv, fault = "none", NEW t \in Text, NEW op, NEW c,
         c \in {getrec(t), fldbld(getrec(t))}, FromInput(c, op)
  PROVE  GoodStep
  <1> DEFINE d == getrec(t)
  <1>1. Keeps(Cache, d) /\ ~d.donefld /\ d.donerec
    BY InUseAny, NewTextAny DEF getrec
  <1>2. Ends(c, op, 0, <<>>)
    BY DEF FromInput, Ends
  <1> HIDE DEF d
  <1>3. Known(d) /\ d \in CacheType
    BY <1>1, InUseAny, KeepsKnown DEF Keeps
  <1>4. CASE c = d
    <2>1. Matched(c)
      BY <1>1, <1>4 DEF Matched
    <2> QED  BY <1>1, <1>2, <1>4, <2>1, EmptyText, KeepsEnds
  <1>5. CASE c = fldbld(d)
    <2>1. Keeps(d, c) /\ (Faulty(c) \/ c.donefld) /\ (Faulty(c) \/ Met(c))
      BY <1>1, <1>3, <1>5, FldbldAny, FldbldMet
    <2>2. Keeps(Cache, c)
      BY <1>1, <2>1, InUseAny, KeepsTwice
    <2> QED  BY <1>2, <2>1, <2>2, EmptyText, KeepsEnds DEF Met
  <1> QED  BY <1>4, <1>5 DEF d

LEMMA ReadFull ==
  ASSUME SplitJoinTyped, FullInv, fault = "none", NEW t \in Text,
         \/ ReadRecord(t) \/ Getline(t)
         \/ ReadNothing(t) \/ GetlineNothing(t)
  PROVE  GoodStep
  BY InputFull DEF ReadRecord, Getline, ReadNothing, GetlineNothing

LEMMA FetchFull ==
  ASSUME SplitJoinTyped, FullInv, fault = "none", NEW n \in Nat, Fetch(n)
  PROVE  GoodStep
  <1> DEFINE c == fieldadr(Cache, n)
  <1>1. /\ Keeps(Cache, c)
        /\ Faulty(c) \/ (n <= Len(c.fld) /\ (c.donerec \/ c.donefld))
        /\ Met(Cache) => Faulty(c) \/ Met(c)
    BY InUseAny, FieldadrAny
  <1>2. Ends(c, "fetch", n, Cell(c, n))
    BY DEF Fetch, Ends, FullInv
  <1> HIDE DEF c
  <1>3. n <= Len(c.fld) => Cell(c, n) \in Text
    <2>1. c.rec \in Text /\ c.fld \in Seq(Text)
      BY <1>1 DEF Keeps, CacheType
    <2> QED  BY <2>1 DEF Cell
  <1> QED  BY <1>1, <1>2, <1>3, KeepsEnds DEF Met

LEMMA FetchNFFull ==
  ASSUME SplitJoinTyped, FullInv, fault = "none", FetchNF
  PROVE  GoodStep
  <1> DEFINE c == fldbld(Cache)
  <1>1. /\ Keeps(Cache, c)
        /\ Faulty(c) \/ c.donefld
        /\ Met(Cache) => Faulty(c) \/ Met(c)
    BY InUseAny, FldbldAny, FldbldMet
  <1>2. Ends(c, "NF", c.nf, <<>>)
    BY DEF FetchNF, Ends, FullInv
  <1> HIDE DEF c
  <1> QED  BY <1>1, <1>2, EmptyText, KeepsEnds DEF Met

\* A text is stored into the cell of $n, and the flags follow (assign, setfval).
LEMMA StoredAny ==
  ASSUME SplitJoinTyped, NEW c, Known(c), NEW n \in Nat, NEW v,
         v \in Text \/ Faulty(Touch(c, n))
  PROVE  LET d == PutCell(Touch(c, n), n, v)
         IN  /\ Keeps(c, d) /\ Matched(d)
             /\ d.donefld = (n # 0 /\ c.donefld) /\ d.donerec = (n = 0)
  <1> DEFINE b == Touch(c, n)
             d == PutCell(b, n, v)
  <1>1. c \in CacheType
    BY DEF Known
  <1>2. Keeps(c, b) /\ b.donefld = (n # 0 /\ c.donefld) /\ b.donerec = (n = 0)
    BY <1>1, TouchAny
  <1>3. v \in Text \/ Faulty(b)
    OBVIOUS
  <1> HIDE DEF b
  <1>4. b \in CacheType
    BY <1>2 DEF Keeps
  <1>5. Keeps(b, d) /\ d.donefld = b.donefld /\ d.donerec = b.donerec
    BY <1>3, <1>4, PutCellAny
  <1> HIDE DEF d
  <1>6. Keeps(c, d)
    BY <1>1, <1>2, <1>5, KeepsTwice
  <1>7. Matched(d)
    BY <1>2, <1>5 DEF Matched
  <1> QED  BY <1>2, <1>5, <1>6, <1>7 DEF b, d

LEMMA AssignFieldFull ==
  ASSUME SplitJoinTyped, FullInv, fault = "none", NEW n \in Nat, NEW v \in Text,
         AssignField(n, v)
  PROVE  GoodStep
  <1> DEFINE b == fieldadr(Cache, n)
             c == PutCell(Touch(b, n), n, v)
  <1>1. /\ Keeps(Cache, b) /\ Known(b)
        /\ Faulty(b) \/ (IF n = 0 THEN b.donerec ELSE b.donefld)
    BY InUseAny, FieldadrAny
  <1>2. Ends(c, "assign", 0, <<>>)
    BY DEF AssignField, setfval, Ends, FullInv
  <1> HIDE DEF b
  <1>3. /\ Keeps(b, c) /\ Matched(c)
        /\ c.donefld = (n # 0 /\ b.donefld) /\ c.donerec = (n = 0)
    BY <1>1, StoredAny
  <1> HIDE DEF c
  <1>4. Keeps(Cache, c)
    BY <1>1, <1>3, InUseAny, KeepsTwice
  <1>5. Faulty(c) \/ c.donefld \/ c.donerec
    BY <1>1, <1>3 DEF Keeps
  <1> QED  BY <1>2, <1>3, <1>4, <1>5, EmptyText, KeepsEnds

LEMMA CopyFieldFull ==
  ASSUME SplitJoinTyped, FullInv, fault = "none", NEW n \in Nat, NEW m \in Nat,
         CopyField(n, m)
  PROVE  GoodStep
  <1> DEFINE a == fieldadr(Cache, m)
             e == fieldadr(a, n)
             b == Touch(e, n)
             c == IF n = m THEN b ELSE PutCell(b, n, Cell(b, m))
  <1>1. Ends(c, "copy", 0, <<>>)
    BY DEF CopyField, Ends, FullInv
  <1>2. Keeps(Cache, a) /\ Known(a) /\ (Faulty(a) \/ m <= Len(a.fld))
    BY InUseAny, FieldadrAny
  <1> HIDE DEF a
  <1>3. /\ Keeps(a, e) /\ Known(e)
        /\ Faulty(e) \/ (IF n = 0 THEN e.donerec ELSE e.donefld)
    BY <1>2, FieldadrAny
  <1> HIDE DEF e
  <1>4. a \in CacheType /\ e \in CacheType
    BY <1>2, <1>3 DEF Known
  <1>5. /\ Keeps(e, b) /\ b.donefld = (n # 0 /\ e.donefld) /\ b.donerec = (n = 0)
    BY <1>4, TouchAny
  <1>6. Keeps(Cache, b)
    <2>1. Keeps(Cache, e)
      BY <1>2, <1>3, InUseAny, KeepsTwice
    <2> QED  BY <1>5, <2>1, InUseAny, KeepsTwice
  <1>7. Faulty(b) \/ Cell(b, m) \in Text
    <2>1. /\ Len(a.fld) <= Len(e.fld) /\ Len(e.fld) <= Len(b.fld)
          /\ Faulty(a) => Faulty(b)
      BY <1>3, <1>5 DEF Keeps
    <2>2. a.fld \in Seq(Text) /\ e.fld \in Seq(Text) /\ b.fld \in Seq(Text) /\ b.rec \in Text
      BY <1>4, <1>5 DEF Keeps, CacheType
    <2>3. Faulty(b) \/ m <= Len(b.fld)
      <3>1. Len(a.fld) \in Nat /\ Len(e.fld) \in Nat /\ Len(b.fld) \in Nat
        BY ONLY <2>2
      <3> HIDE DEF b
      <3> QED  BY <1>2, <2>1, <3>1
    <2> HIDE DEF b
    <2> QED  BY <2>2, <2>3 DEF Cell
  <1> HIDE DEF b
  <1>8. Keeps(Cache, c) /\ c.donefld = b.donefld /\ c.donerec = b.donerec
        /\ Faulty(c) = Faulty(b)
    <2>1. CASE n = m
      BY <1>6, <2>1
    <2>2. CASE n # m
      <3>1. b \in CacheType
        BY <1>6 DEF Keeps
      <3>2. /\ Keeps(b, c) /\ c.donefld = b.donefld /\ c.donerec = b.donerec
            /\ Faulty(c) = Faulty(b)
        BY <1>7, <2>2, <3>1, PutCellAny
      <3> HIDE DEF c
      <3> QED  BY <1>6, <3>2, InUseAny, KeepsTwice
    <2> QED  BY <2>1, <2>2
  <1> HIDE DEF c
  <1>9. Faulty(c) \/ c.donefld \/ c.donerec
    BY <1>3, <1>5, <1>8 DEF Keeps
  <1>10. Matched(c)
    BY <1>5, <1>8 DEF Matched
  <1> QED  BY <1>1, <1>8, <1>9, <1>10, EmptyText, KeepsEnds

\* setsval of a field drops the fields.
LEMMA SetsvalAny ==
  ASSUME NEW c \in CacheType, NEW n \in Nat, NEW v \in Text
  PROVE  LET d == setsval(c, n, v)
         IN  /\ Keeps(c, d) /\ Matched(d) /\ ~d.donefld
             /\ n = 0 => d.donerec
  <1> DEFINE d == setsval(c, n, v)
  <1>1. CASE n = 0
    <2>1. d = PutCell(NewRecord(c), 0, v)
      BY <1>1 DEF setsval
    <2> HIDE DEF d
    <2>2. Keeps(c, d) /\ ~d.donefld /\ d.donerec
      BY <2>1, NewTextAny
    <2> QED  BY <2>2 DEF Matched, d
  <1>2. CASE n # 0
    <2> DEFINE a == [c EXCEPT !.donefld = FALSE]
               r == Reach(a, n)
    <2>1. d = PutCell(r, n, v)
      BY <1>2 DEF setsval
    <2>2. Keeps(c, a) /\ a.donefld = FALSE
      BY DropFields
    <2> HIDE DEF a, d
    <2>3. a \in CacheType
      BY <2>2 DEF Keeps
    <2>4. Keeps(a, r) /\ r.donefld = a.donefld
      BY <2>3, ReachAny
    <2> HIDE DEF r
    <2>5. r \in CacheType
      BY <2>4 DEF Keeps
    <2>6. Keeps(r, d) /\ d.donefld = r.donefld
      BY <2>1, <2>5, PutCellAny
    <2>7. Keeps(c, r)
      BY <2>2, <2>4, KeepsTwice
    <2>8. Keeps(c, d) /\ ~d.donefld
      BY <2>2, <2>4, <2>6, <2>7, KeepsTwice
    <2> QED  BY <1>2, <2>8 DEF Matched, d
  <1> QED  BY <1>1, <1>2

LEMMA SubstituteFull ==
  ASSUME SplitJoinTyped, FullInv, fault = "none", NEW n \in Nat, NEW v \in Text,
         Substitute(n, v)
  PROVE  GoodStep
  <1> DEFINE b == fieldadr(Cache, n)
             c == setsval(b, n, v)
  <1>1. Keeps(Cache, b) /\ Known(b)
    BY InUseAny, FieldadrAny
  <1>2. Ends(c, "sub", n, v)
    BY DEF Substitute, Ends, FullInv
  <1> HIDE DEF b
  <1>3. Keeps(b, c) /\ Matched(c) /\ (n = 0 => c.donerec)
    BY <1>1, SetsvalAny DEF Known
  <1> HIDE DEF c
  <1>4. Keeps(Cache, c)
    BY <1>1, <1>3, InUseAny, KeepsTwice
  <1>5. n = 0 \/ n >= 1
    OBVIOUS
  <1> QED  BY <1>2, <1>3, <1>4, <1>5, KeepsEnds

\* FS or OFS gets a value and nothing else changes.
LEMMA SeparatorFull ==
  ASSUME FullInv, fault = "none", NEW c,
         NEW s \in FsVals \cup {BLANK}, NEW t \in OfsVals \cup {BLANK},
         c = [Cache EXCEPT !.fs = s, !.ofs = t],
         NEW op, Ends(c, op, 0, <<>>)
  PROVE  GoodStep
  <1>1. s \in Text /\ t \in Text
    BY TextAssumption DEF BLANK
  <1>2. Cache \in CacheType /\ ~Faulty(Cache)
    BY InUseAny
  <1>3. c \in CacheType
    BY <1>1, <1>2 DEF CacheType
  <1>4. /\ c.fs = s /\ c.ofs = t /\ c.fault = Cache.fault /\ c.donefld = Cache.donefld
        /\ c.donerec = Cache.donerec /\ c.rec = Cache.rec /\ c.fld = Cache.fld
        /\ c.nf = Cache.nf
    BY <1>2 DEF CacheType
  <1>5. Known(c) /\ (Met(Cache) => Matched(c)) /\ c.fault # "overrun"
    BY <1>2, <1>3, <1>4 DEF Known, Met, Matched, Faulty
  <1> QED  BY <1>4, <1>5, EmptyText, StepEnds

LEMMA AssignFSFull ==
  ASSUME FullInv, fault = "none", NEW s \in FsVals, AssignFS(s)
  PROVE  GoodStep
  <1> DEFINE c == [Cache EXCEPT !.fs = s]
  <1>1. Cache \in CacheType /\ Cache.ofs \in OfsVals \cup {BLANK}
    BY InUseAny DEF Known
  <1>2. c = [Cache EXCEPT !.fs = s, !.ofs = Cache.ofs]
    BY <1>1 DEF CacheType
  <1>3. Faulty(c) = Faulty(Cache)
    BY <1>1 DEF CacheType, Faulty
  <1>4. Ends(c, "FS", 0, <<>>)
    BY <1>3, Zenon DEF AssignFS, Ends, Deliver, FullInv
  <1> HIDE DEF c
  <1> QED  BY <1>1, <1>2, <1>4, SeparatorFull

LEMMA AssignOFSFull ==
  ASSUME FullInv, fault = "none", NEW s \in OfsVals, AssignOFS(s)
  PROVE  GoodStep
  <1> DEFINE c == [Cache EXCEPT !.ofs = s]
  <1>1. Cache \in CacheType /\ Cache.fs \in FsVals \cup {BLANK}
    BY InUseAny DEF Known
  <1>2. c = [Cache EXCEPT !.fs = Cache.fs, !.ofs = s]
    BY <1>1 DEF CacheType
  <1>3. Faulty(c) = Faulty(Cache)
    BY <1>1 DEF CacheType, Faulty
  <1>4. Ends(c, "OFS", 0, <<>>)
    BY <1>3, Zenon DEF AssignOFS, Ends, Deliver, FullInv
  <1> HIDE DEF c
  <1> QED  BY <1>1, <1>2, <1>4, SeparatorFull

LEMMA NextRunFull ==
  ASSUME FullInv, fault = "none", NextRun
  PROVE  GoodStep
  <1> DEFINE c == [Cache EXCEPT !.fs = BLANK, !.ofs = BLANK]
  <1>1. Cache \in CacheType
    BY InUseAny
  <1>2. Faulty(c) = Faulty(Cache)
    BY <1>1 DEF CacheType, Faulty
  <1>3. Ends(c, "run", 0, <<>>)
    BY <1>2, Zenon DEF NextRun, Ends, Deliver
  <1> HIDE DEF c
  <1>4. c = [Cache EXCEPT !.fs = BLANK, !.ofs = BLANK]
    BY DEF c
  <1> QED  BY <1>3, <1>4, SeparatorFull

LEMMA HostSetOFSFull ==
  ASSUME SplitJoinTyped, FullInv, fault = "none", NEW s \in OfsVals, HostSetOFS(s)
  PROVE  GoodStep
  <1> DEFINE b == recbld(Cache)
             c == [b EXCEPT !.ofs = s]
  <1>1. /\ Keeps(Cache, b) /\ Known(b) /\ (Faulty(b) \/ b.donerec)
        /\ Met(Cache) => Faulty(b) \/ Met(b)
    BY InUseAny, RecbldAny, RecbldMet, KeepsKnown
  <1>2. Ends(c, "OFS", 0, <<>>)
    BY DEF HostSetOFS, setsvalOFS, Ends, FullInv
  <1> HIDE DEF b
  <1>3. s \in Text /\ b \in CacheType /\ b.fs \in FsVals \cup {BLANK}
    BY <1>1, TextAssumption DEF Known
  <1>4. c \in CacheType
    BY <1>3 DEF CacheType
  <1>5. /\ c.fs = b.fs /\ c.ofs = s /\ c.fault = b.fault /\ c.donefld = b.donefld
        /\ c.donerec = b.donerec /\ c.rec = b.rec /\ c.fld = b.fld /\ c.nf = b.nf
    BY <1>3 DEF CacheType
  <1> HIDE DEF c
  <1>6. Known(c) /\ (Met(b) => Matched(c)) /\ Faulty(c) = Faulty(b)
    BY <1>3, <1>4, <1>5 DEF Known, Met, Matched, Faulty
  <1>7. Calm(Cache) => c.fault # "overrun"
    BY <1>1, <1>5 DEF Keeps, Calm
  <1> QED  BY <1>1, <1>2, <1>5, <1>6, <1>7, EmptyText, StepEnds

\* NF gets a number and nothing else changes: the table may not reach it.
LEMMA NumberAny ==
  ASSUME NEW b, Known(b), NEW n \in Nat, NEW c, c = [b EXCEPT !.nf = n]
  PROVE  /\ Known(c) /\ c.fault = b.fault
         /\ c.donefld = b.donefld /\ c.donerec = b.donerec
         /\ c.fld = b.fld /\ c.nf = n
  <1>1. b \in CacheType
    BY DEF Known
  <1>2. c \in CacheType
    BY <1>1 DEF CacheType
  <1>3. /\ c.fault = b.fault /\ c.donefld = b.donefld /\ c.donerec = b.donerec
        /\ c.fld = b.fld /\ c.nf = n /\ c.fs = b.fs /\ c.ofs = b.ofs
    BY <1>1 DEF CacheType
  <1> QED  BY <1>2, <1>3 DEF Known

LEMMA AssignNFFull ==
  ASSUME SplitJoinTyped, FullInv, fault = "none", NEW n \in Nat, AssignNF(n)
  PROVE  GoodStep
  <1> DEFINE b == fldbld(Cache)
             c == IF Faulty(b) THEN b ELSE [b EXCEPT !.nf = n]
  <1>1. Keeps(Cache, b) /\ (Faulty(b) \/ b.donefld)
    BY InUseAny, FldbldAny
  <1>2. Known(b)
    BY <1>1, InUseAny, KeepsKnown
  <1>3. Ends(c, "setNF", 0, <<>>)
    BY DEF AssignNF, Ends, FullInv
  <1> HIDE DEF b
  <1>4. Known(c) /\ c.fault = b.fault /\ c.donefld = b.donefld
    BY <1>2, NumberAny
  <1> HIDE DEF c
  <1>5. Faulty(c) \/ c.donefld
    BY <1>1, <1>4 DEF Faulty
  <1>6. Calm(Cache) => c.fault # "overrun"
    BY <1>1, <1>4 DEF Keeps, Calm
  <1> QED  BY <1>3, <1>4, <1>5, <1>6, EmptyText, StepEnds

LEMMA GetlineFieldFull ==
  ASSUME SplitJoinTyped, FullInv, fault = "none", NEW n \in Nat, NEW t \in Text,
         GetlineField(n, t)
  PROVE  GoodStep
  <1> DEFINE b == fieldadr(Cache, n)
             c == PutCell(b, n, t)
  <1>1. /\ Keeps(Cache, b) /\ Known(b)
        /\ Faulty(b) \/ (IF n = 0 THEN b.donerec ELSE b.donefld)
    BY InUseAny, FieldadrAny
  <1>2. Ends(c, "getfield", 0, <<>>)
    BY DEF GetlineField, Ends, FullInv
  <1> HIDE DEF b
  <1>3. /\ Keeps(b, c) /\ c.donefld = b.donefld /\ c.donerec = b.donerec
        /\ Faulty(c) = Faulty(b)
    BY <1>1, PutCellAny DEF Known
  <1> HIDE DEF c
  <1>4. Keeps(Cache, c)
    BY <1>1, <1>3, InUseAny, KeepsTwice
  <1> QED  BY <1>1, <1>2, <1>3, <1>4, EmptyText, KeepsEnds

LEMMA MarkRecord ==
  ASSUME NEW c \in CacheType, NEW d, d = [c EXCEPT !.donerec = TRUE]
  PROVE  Keeps(c, d)
  <1>1. Len(c.fld) \in Nat
    BY DEF CacheType
  <1>2. d \in CacheType
    BY DEF CacheType
  <1>3. /\ d.fault = c.fault /\ d.fld = c.fld
        /\ d.nf = c.nf /\ d.fs = c.fs /\ d.ofs = c.ofs
    BY DEF CacheType
  <1>4. Len(c.fld) <= Len(d.fld)
    BY <1>1, <1>3
  <1> QED  BY ONLY <1>2, <1>3, <1>4 DEF Keeps, Calm, Faulty

LEMMA GetlineFileFull ==
  ASSUME SplitJoinTyped, FullInv, fault = "none", NEW t \in Text, GetlineFile(t)
  PROVE  GoodStep
  <1> DEFINE a == PutCell(Cache, 0, t)
             b == [a EXCEPT !.donerec = TRUE]
             c == fldbld(b)
  <1>1. Keeps(Cache, a)
    BY InUseAny, PutCellAny
  <1>2. Ends(c, "getfile", 0, <<>>)
    BY DEF GetlineFile, Ends, FullInv
  <1> HIDE DEF a
  <1>3. a \in CacheType
    BY <1>1 DEF Keeps
  <1>4. Keeps(a, b)
    BY <1>3, MarkRecord
  <1> HIDE DEF b
  <1>5. b \in CacheType
    BY <1>4 DEF Keeps
  <1>6. Keeps(b, c) /\ (Faulty(c) \/ c.donefld)
    BY <1>5, FldbldAny
  <1> HIDE DEF c
  <1>7. Keeps(Cache, b)
    BY <1>1, <1>4, InUseAny, KeepsTwice
  <1>8. Keeps(Cache, c)
    BY <1>6, <1>7, InUseAny, KeepsTwice
  <1> QED  BY <1>2, <1>6, <1>8, EmptyText, KeepsEnds

LEMMA HostGetFull ==
  ASSUME SplitJoinTyped, FullInv, fault = "none", NEW n \in Nat, HostGet(n)
  PROVE  GoodStep
  <1> DEFINE b == fldbld(Cache)
             c == IF Faulty(b) \/ n > b.nf THEN b
                  ELSE IF n > Len(b.fld) THEN Crash(b, "overrun")
                  ELSE [b EXCEPT !.donefld = FALSE, !.donerec = FALSE]
             v == IF n <= b.nf THEN Cell(b, n) ELSE <<>>
  <1>1. /\ Keeps(Cache, b) /\ (Faulty(b) \/ b.donefld)
        /\ Met(Cache) => Faulty(b) \/ Met(b)
    BY InUseAny, FldbldAny, FldbldMet
  <1>2. Ends(c, "hostget", 0, v)
    BY DEF HostGet, Ends, FullInv
  <1> HIDE DEF b
  <1>3. /\ Known(b) /\ b \in CacheType /\ b.nf \in Nat /\ b.fld \in Seq(Text)
        /\ Len(b.fld) \in Nat /\ b.rec \in Text
    <2>1. Known(b)
      BY <1>1, InUseAny, KeepsKnown
    <2>2. b \in CacheType /\ b.nf \in Nat /\ b.fld \in Seq(Text) /\ b.rec \in Text
      BY <2>1 DEF Known, CacheType
    <2> QED  BY <2>1, <2>2
  <1>4. CASE Faulty(b) \/ n > b.nf
    <2>1. c = b /\ (Faulty(b) \/ v = <<>>)
      BY <1>3, <1>4
    <2> HIDE DEF c, v
    <2>2. Ends(b, "hostget", 0, v)
      BY <1>2, <2>1
    <2> QED  BY <1>1, <2>1, <2>2, EmptyText, KeepsEnds DEF Met
  <1>5. CASE ~(Faulty(b) \/ n > b.nf) /\ n > Len(b.fld)
    <2>1. c = [b EXCEPT !.fault = "overrun"]
      BY <1>5 DEF Crash
    <2> HIDE DEF c, v
    <2>2. Known(c) /\ Faulty(c)
      BY <1>3, <2>1 DEF Known, CacheType, Faulty
    <2>3. ~Calm(Cache)
      <3>1. ~(b.nf <= Len(b.fld))
        BY <1>3, <1>5
      <3> QED  BY <1>1, <3>1 DEF Keeps, Calm
    <2> QED  BY <1>2, <2>2, <2>3, StepEnds
  <1>6. CASE ~(Faulty(b) \/ n > b.nf) /\ ~(n > Len(b.fld))
    <2>1. c = [b EXCEPT !.donefld = FALSE, !.donerec = FALSE]
      BY <1>6
    <2>2. v \in Text
      BY <1>3, <1>6, EmptyText DEF Cell
    <2> HIDE DEF c, v
    <2>3. /\ Known(c) /\ c.fault = b.fault /\ ~c.donefld
      BY <1>3, <2>1 DEF Known, CacheType
    <2>4. Matched(c)
      BY <2>3 DEF Matched
    <2>5. Calm(Cache) => c.fault # "overrun"
      BY <1>1, <2>3 DEF Keeps, Calm
    <2> QED  BY <1>2, <2>2, <2>3, <2>4, <2>5, StepEnds
  <1> QED  BY <1>4, <1>5, <1>6

LEMMA HostSetStringFull ==
  ASSUME FullInv, fault = "none", NEW n \in Nat, NEW v \in Text, HostSetString(n, v)
  PROVE  GoodStep
  <1> DEFINE b == setsval(Cache, n, v)
             c == IF n = 0 THEN [b EXCEPT !.donefld = FALSE] ELSE [b EXCEPT !.donerec = FALSE]
  <1>1. Keeps(Cache, b) /\ ~b.donefld /\ (n = 0 => b.donerec)
    BY InUseAny, SetsvalAny
  <1>2. Ends(c, "hostset", n, <<>>)
    BY DEF HostSetString, Ends, FullInv
  <1> HIDE DEF b
  <1>3. b \in CacheType
    BY <1>1 DEF Keeps
  <1>4. Keeps(b, c) /\ ~c.donefld /\ (n = 0 => c.donerec)
    <2>1. CASE n = 0
      <3>1. c = [b EXCEPT !.donefld = FALSE]
        BY <2>1
      <3> HIDE DEF c
      <3> QED  BY <1>1, <1>3, <3>1, DropFields
    <2>2. CASE n # 0
      <3>1. c = [b EXCEPT !.donerec = FALSE]
        BY <2>2
      <3> HIDE DEF c
      <3>2. Keeps(b, c) /\ c.donefld = b.donefld
        BY <1>3, <3>1, DropRecord
      <3> QED  BY <1>1, <2>2, <3>2
    <2> QED  BY <2>1, <2>2
  <1> HIDE DEF c
  <1>5. Keeps(Cache, c) /\ Matched(c)
    BY <1>1, <1>4, InUseAny, KeepsTwice DEF Matched
  <1>6. n = 0 \/ n >= 1
    OBVIOUS
  <1> QED  BY <1>2, <1>4, <1>5, <1>6, EmptyText, KeepsEnds

LEMMA HostSetNumberFull ==
  ASSUME SplitJoinTyped, FullInv, fault = "none", NEW n \in Nat, NEW v \in Text,
         HostSetNumber(n, v)
  PROVE  GoodStep
  <1> DEFINE c == PutCell(Touch(Cache, n), n, v)
  <1>1. Keeps(Cache, c) /\ Matched(c) /\ c.donerec = (n = 0)
    BY InUseAny, StoredAny
  <1>2. Ends(c, "hostset", n, <<>>)
    BY DEF HostSetNumber, setfval, Ends, FullInv
  <1> HIDE DEF c
  <1>3. n = 0 \/ n >= 1
    OBVIOUS
  <1> QED  BY <1>1, <1>2, <1>3, EmptyText, KeepsEnds

\* setsval of NF: the number is stored first, so the fields are split again
\* only when there are none to read.
LEMMA SetsvalNFAny ==
  ASSUME SplitJoinTyped, NEW c, Known(c), NEW n \in Nat
  PROVE  /\ Known(setsvalNF(c, n))
         /\ Calm(c) => setsvalNF(c, n).fault # "overrun"
  <1> DEFINE a == [c EXCEPT !.nf = n, !.donerec = FALSE]
             b == fldbld(a)
             d == setlastfld(b, b.nf)
  <1>1. c \in CacheType
    BY DEF Known
  <1>2. /\ Known(a) /\ a \in CacheType
        /\ a.nf = n /\ a.fld = c.fld /\ a.fault = c.fault /\ a.fs = c.fs
        /\ a.donefld = c.donefld /\ a.donerec = FALSE
    <2>1. a \in CacheType
      BY <1>1 DEF CacheType
    <2>2. /\ a.nf = n /\ a.fld = c.fld /\ a.fault = c.fault
          /\ a.fs = c.fs /\ a.ofs = c.ofs
          /\ a.donefld = c.donefld /\ a.donerec = FALSE
      BY <1>1 DEF CacheType
    <2> HIDE DEF a
    <2> QED  BY <2>1, <2>2 DEF Known
  <1>3. setsvalNF(c, n) = d
    BY DEF setsvalNF
  <1> HIDE DEF a
  <1>4. Keeps(a, b)
    BY <1>2, FldbldAny
  <1>5. b \in CacheType /\ b.nf \in Nat /\ Len(b.fld) \in Nat /\ b.fld \in Seq(Text)
    <2>1. b \in CacheType
      BY <1>4 DEF Keeps
    <2>2. b.nf \in Nat /\ b.fld \in Seq(Text)
      BY <2>1 DEF CacheType
    <2> QED  BY <2>1, <2>2
  <1>6. Keeps(b, d)
    <2> HIDE DEF b
    <2> QED  BY <1>5, SetlastfldAny
  <1>7. Known(d)
    BY <1>2, <1>4, <1>6, KeepsKnown
  <1>8. ASSUME Calm(c) PROVE d.fault # "overrun"
    <2>1. c.fault # "overrun" /\ c.nf <= Len(c.fld) /\ ~IsRegex(c.fs)
      BY <1>8 DEF Calm
    <2>2. CASE ~a.donefld /\ ~Faulty(a) /\ n >= 1
      <3>1. recbld(a) = [a EXCEPT !.fault = "runaway"]
        BY <1>2, <2>2 DEF recbld, Crash
      <3>2. recbld(a).fault = "runaway"
        BY <1>2, <3>1 DEF CacheType
      <3>3. b = recbld(a)
        BY <2>2, <3>2 DEF fldbld, Resplit, Faulty
      <3> HIDE DEF b
      <3>4. d = b
        BY <3>2, <3>3 DEF setlastfld, Faulty
      <3> QED  BY <3>2, <3>3, <3>4
    <2>3. CASE ~a.donefld /\ ~Faulty(a) /\ ~(n >= 1)
      <3>1. n = 0 /\ Len(a.fld) \in Nat
        <4>1. a.fld \in Seq(Text)
          BY <1>2 DEF CacheType
        <4> QED  BY <2>3, <4>1
      <3>2. Calm(a)
        BY <1>2, <2>1, <3>1 DEF Calm
      <3> QED  BY <1>4, <1>6, <3>2 DEF Keeps, Calm
    <2>4. CASE ~a.donefld /\ Faulty(a)
      <3>1. b = a
        BY <2>4 DEF fldbld, Resplit, recbld
      <3> HIDE DEF b
      <3>2. d = a
        BY <2>4, <3>1 DEF setlastfld
      <3> QED  BY <1>2, <2>1, <3>2
    <2>5. CASE a.donefld
      <3>1. b = a
        BY <2>5 DEF fldbld
      <3> HIDE DEF b
      <3>2. b.nf <= Len(growfldtab(b.fld, b.nf))
        BY <1>5, GrowTyped
      <3>3. d.fault = b.fault
        <4> DEFINE g == growfldtab(b.fld, b.nf)
        <4>1. ~(b.nf > Len(g))
          <5>1. Len(g) \in Nat
            <6>1. g \in Seq(Text)
              BY <1>5, GrowTyped
            <6> QED  BY <6>1
          <5> HIDE DEF g
          <5> QED  BY <1>5, <3>2, <5>1 DEF g
        <4> HIDE DEF g
        <4> QED  BY <1>5, <4>1 DEF setlastfld, Lengthen, Faulty, CacheType, g
      <3> QED  BY <1>2, <2>1, <3>1, <3>3
    <2> QED  BY <2>2, <2>3, <2>4, <2>5
  <1> HIDE DEF d
  <1> QED  BY <1>3, <1>7, <1>8

LEMMA HostSetNFFull ==
  ASSUME SplitJoinTyped, FullInv, fault = "none", NEW n \in Nat, HostSetNF(n)
  PROVE  GoodStep
  <1>1. PICK c \in IF nfcell = "CNF" THEN {setfvalNF(Cache, n), setsvalNF(Cache, n)}
                             ELSE {[Cache EXCEPT !.nf = n]} :
           Put(c) /\ Deliver(c, "hostNF", 0, <<>>) /\ UNCHANGED <<nfcell, started>>
    BY DEF HostSetNF
  <1>2. Ends(c, "hostNF", 0, <<>>)
    BY <1>1 DEF Ends, FullInv
  <1>3. Known(Cache) /\ Cache \in CacheType /\ ~Faulty(Cache)
    BY InUseAny
  <1>4. \/ c = setfvalNF(Cache, n) \/ c = setsvalNF(Cache, n)
        \/ c = [Cache EXCEPT !.nf = n]
    BY <1>1
  <1>5. CASE c = setfvalNF(Cache, n)
    <2> DEFINE a == [Cache EXCEPT !.donerec = FALSE]
    <2>1. Keeps(Cache, a)
      BY <1>3, DropRecord
    <2>2. c = setlastfld(a, n)
      BY <1>5 DEF setfvalNF
    <2> HIDE DEF a
    <2>3. Keeps(a, c)
      BY <2>1, <2>2, SetlastfldAny DEF Keeps
    <2>4. Keeps(Cache, c)
      BY <1>3, <2>1, <2>3, KeepsTwice
    <2> QED  BY <1>2, <2>4, EmptyText, KeepsEnds
  <1>6. CASE c = setsvalNF(Cache, n)
    <2>1. Known(c) /\ (Calm(Cache) => c.fault # "overrun")
      BY <1>3, <1>6, SetsvalNFAny
    <2> QED  BY <1>2, <2>1, EmptyText, StepEnds
  <1>7. CASE c = [Cache EXCEPT !.nf = n]
    <2>1. Known(c) /\ c.fault = Cache.fault
      BY <1>3, <1>7, NumberAny
    <2>2. c.fault # "overrun"
      BY <1>3, <2>1 DEF Faulty
    <2> QED  BY <1>2, <2>1, <2>2, EmptyText, StepEnds
  <1> QED  BY <1>4, <1>5, <1>6, <1>7

LEMMA FullStep ==
  ASSUME SplitJoinTyped, FullInv, Next
  PROVE  GoodStep
  <1>1. fault = "none"
    BY DEF Next
  <1>2. /\ Records \subseteq Text /\ Values \subseteq Text
        /\ 0..MaxField \subseteq Nat /\ 1..MaxField \subseteq Nat
        /\ 0 \in Nat
    <2>1. MaxField \in Nat
      BY TextAssumption
    <2>2. 0..MaxField \subseteq Nat /\ 1..MaxField \subseteq Nat
      BY ONLY <2>1
    <2> QED  BY <2>2, TextAssumption
  <1>texts. rec \in Text /\ <<>> \in Text
    BY EmptyText DEF FullInv, Known, CacheType, Cache
  <1>3. ASSUME NEW t \in Records \cup {rec, <<>>},
               \/ ReadRecord(t) \/ Getline(t)
               \/ ReadNothing(t) \/ GetlineNothing(t)
        PROVE  GoodStep
    BY <1>1, <1>2, <1>3, <1>texts, ReadFull
  <1>4. ASSUME NEW s \in FsVals, AssignFS(s) PROVE GoodStep
    BY <1>1, <1>4, AssignFSFull
  <1>5. ASSUME NEW s \in OfsVals, AssignOFS(s) \/ HostSetOFS(s) PROVE GoodStep
    BY <1>1, <1>5, AssignOFSFull, HostSetOFSFull
  <1>6. ASSUME NEW n \in 0..MaxField, Fetch(n) PROVE GoodStep
    BY <1>1, <1>2, <1>6, FetchFull
  <1>7. ASSUME FetchNF PROVE GoodStep
    BY <1>1, <1>7, FetchNFFull
  <1>8. ASSUME NEW n \in Nat, NEW v \in Text, AssignField(n, v) \/ Substitute(n, v)
        PROVE  GoodStep
    BY <1>1, <1>8, AssignFieldFull, SubstituteFull
  <1>9. ASSUME NEW n \in 0..MaxField, NEW m \in 0..MaxField, CopyField(n, m)
        PROVE  GoodStep
    BY <1>1, <1>2, <1>9, CopyFieldFull
  <1>10. CASE Core
    <2>1. CASE CoreRead
      BY <1>3, <2>1 DEF CoreRead
    <2>2. CASE CoreBegin
      BY <1>4, <1>5, <2>2 DEF CoreBegin
    <2>3. CASE CoreRecord
      <3>1. ASSUME NEW n \in 1..MaxField, NEW v \in Values, AssignField(n, v) PROVE GoodStep
        BY <1>2, <1>8, <3>1
      <3>2. ASSUME NEW v \in Records, AssignField(0, v) \/ Substitute(0, v) PROVE GoodStep
        BY <1>2, <1>8, <3>2
      <3> QED  BY <1>5, <1>6, <1>7, <1>9, <2>3, <3>1, <3>2 DEF CoreRecord
    <2> QED  BY <1>10, <2>1, <2>2, <2>3 DEF Core
  <1>11. CASE RegexFS \/ LateFS
    BY <1>4, <1>11 DEF RegexFS, LateFS
  <1>12. CASE EarlyOFS \/ LateOFS
    BY <1>5, <1>12 DEF EarlyOFS, LateOFS
  <1>13. CASE SubField
    <2>1. PICK n \in 1..MaxField, v \in Values : Substitute(n, v)
      BY <1>13 DEF SubField
    <2> QED  BY <1>2, <1>8, <2>1
  <1>14. CASE ChangeNF
    <2>1. PICK n \in 0..MaxField : AssignNF(n)
      BY <1>14 DEF ChangeNF
    <2> QED  BY <1>1, <1>2, <2>1, AssignNFFull
  <1>15. CASE ReadField
    <2>1. PICK n \in 1..MaxField, t \in Values \cup {<<>>} : GetlineField(n, t)
      BY <1>15 DEF ReadField
    <2> QED  BY <1>1, <1>2, <1>texts, <2>1, GetlineFieldFull
  <1>16. CASE ReadFile
    <2>1. PICK t \in Records \cup {rec, <<>>} : GetlineFile(t)
      BY <1>16 DEF ReadFile
    <2> QED  BY <1>1, <1>2, <1>texts, <2>1, GetlineFileFull
  <1>17. CASE HostReads
    <2>1. PICK n \in 0..MaxField : HostGet(n)
      BY <1>17 DEF HostReads
    <2> QED  BY <1>1, <1>2, <2>1, HostGetFull
  <1>18. CASE HostWrites
    <2>1. ASSUME NEW n \in Nat, NEW v \in Text, HostSetString(n, v) \/ HostSetNumber(n, v)
          PROVE  GoodStep
      BY <1>1, <2>1, HostSetStringFull, HostSetNumberFull
    <2>2. ASSUME NEW n \in 1..MaxField, NEW v \in Values,
                 HostSetString(n, v) \/ HostSetNumber(n, v)
          PROVE  GoodStep
      BY <1>2, <2>1, <2>2
    <2>3. ASSUME NEW v \in Records, HostSetString(0, v) \/ HostSetNumber(0, v)
          PROVE  GoodStep
      BY <1>2, <2>1, <2>3
    <2> QED  BY <1>18, <2>2, <2>3 DEF HostWrites
  <1>19. CASE HostChangesNF
    <2>1. PICK n \in 0..MaxField : HostSetNF(n)
      BY <1>19 DEF HostChangesNF
    <2> QED  BY <1>1, <1>2, <2>1, HostSetNFFull
  <1>20. CASE BeginFetch
    BY <1>6, <1>7, <1>20 DEF BeginFetch
  <1>21. CASE NextRun
    BY <1>1, <1>21, NextRunFull
  <1>left. CASE NothingLeft
    BY <1>3, <1>left DEF NothingLeft
  <1> QED  BY <1>10, <1>11, <1>12, <1>13, <1>14, <1>15, <1>16, <1>17, <1>18, <1>19,
       <1>20, <1>21, <1>left DEF Next

\* A step that changes nothing.
LEMMA FullStutter ==
  ASSUME FullInv, UNCHANGED vars
  PROVE  FullInv'
  <1>1. Cache' = Cache
    BY DEF vars, Cache
  <1>2. Known(Cache')
    BY <1>1 DEF FullInv
  <1> QED  BY <1>2 DEF FullInv, vars, Known

\* The invariant of the cache under every program and host.
LEMMA FullInvariant ==
  ASSUME SplitJoinTyped
  PROVE  FullSpec => []FullInv
  <1>1. ASSUME Init PROVE FullInv
    <2>1. Cache.fs = BLANK /\ Cache.ofs = BLANK
      BY <1>1 DEF Init, Cache
    <2> QED  BY <1>1, <2>1, InitInv DEF IInv, Sound, Known, FullInv
  <1>2. FullInv /\ [Next]_vars => FullInv'
    BY FullStep, FullStutter DEF GoodStep
  <1> QED  BY <1>1, <1>2, PTL DEF FullSpec

\* The cache keeps its types under every statement and host call (cell.cpp,
\* interp.cpp), faults included.
THEOREM FullTypeOK ==
  ASSUME SplitJoinTyped
  PROVE  FullSpec => []TypeOK
  <1>1. FullInv => TypeOK
    BY DEF FullInv, Known, CacheType, Cache, TypeOK
  <1> QED  BY <1>1, FullInvariant, PTL

\* Nothing but an NF set past the table or a split on a regular expression
\* makes fldbld, setlastfld or awk_getvar touch a cell past fldtab.
THEOREM FullOverrunCauses ==
  ASSUME SplitJoinTyped
  PROVE  FullSpec => OverrunCauses
  <1>1. FullInv /\ [Next]_vars =>
          [fault' = "overrun" => nf > Len(fld) \/ IsRegex(fs)]_vars
    BY FullStep DEF GoodStep, Overruns
  <1> QED  BY <1>1, FullInvariant, PTL DEF FullSpec, OverrunCauses

\* The record is never lost but by the four calls that drop both flags.
THEOREM FullBothLostOnlyBy ==
  ASSUME SplitJoinTyped
  PROVE  FullSpec => BothLostOnlyBy
  <1>1. FullInv /\ [Next]_vars =>
          [(donefld \/ donerec) /\ ~(donefld' \/ donerec') /\ fault' = "none"
             => \/ out'.op \in {"sub", "hostset"} /\ out'.n >= 1
                \/ out'.op \in {"hostget", "hostNF"}]_vars
    BY FullStep DEF GoodStep, LosesBoth
  <1> QED  BY <1>1, FullInvariant, PTL DEF FullSpec, BothLostOnlyBy

\* $0 and the fields part, both marked valid, only where a flag is forgotten.
THEOREM FullPartOnlyBy ==
  ASSUME SplitJoinTyped
  PROVE  FullSpec => PartOnlyBy
  <1>1. FullInv /\ [Next]_vars =>
          [Coherent /\ ~Coherent' /\ nf <= Len(fld) /\ fault' = "none" =>
             out'.op \in {"getfield", "getfile", "setNF", "hostNF"}]_vars
    BY FullStep DEF GoodStep, Parts
  <1> QED  BY <1>1, FullInvariant, PTL DEF FullSpec, PartOnlyBy
-----------------------------------------------------------------------------
(* An assignment to a field that $0 has yet to hear of.                    *)

Pending(c) == c.donefld /\ ~c.donerec /\ c.nf <= Len(c.fld)

\* It is pending still, or $0 has been built from the fields.
Kept(c, d) == ~d.donerec \/ d.rec = TextOf(c)

LEMMA PendingForms ==
  ASSUME SplitJoinTyped, NEW c \in CacheType, c.fault = "none", Pending(c)
  PROVE  /\ fldbld(c) = c
         /\ recbld(c) \in CacheType /\ recbld(c).rec = TextOf(c)
  <1>1. fldbld(c) = c
    BY DEF fldbld, Pending
  <1>2. recbld(c) = [c EXCEPT !.rec = Join(SubSeq(c.fld, 1, c.nf), c.ofs),
                              !.donerec = TRUE]
    <2>1. ~Faulty(c) /\ ~c.donerec /\ c.donefld /\ c.nf <= Len(c.fld)
      BY DEF Faulty, Pending
    <2>2. c.nf \in Nat /\ Len(c.fld) \in Nat
      BY DEF CacheType
    <2>3. ~(c.nf > Len(c.fld))
      BY ONLY <2>1, <2>2
    <2> QED  BY <2>1, <2>3 DEF recbld
  <1>3. TextOf(c) = Join(SubSeq(c.fld, 1, c.nf), c.ofs)
    BY DEF TextOf, Pending
  <1>4. recbld(c) \in CacheType
    BY RecbldAny DEF Keeps
  <1>5. recbld(c).rec = Join(SubSeq(c.fld, 1, c.nf), c.ofs)
    BY <1>2 DEF CacheType
  <1> QED  BY <1>1, <1>3, <1>4, <1>5

LEMMA PendingFieldadr ==
  ASSUME SplitJoinTyped, NEW c \in CacheType, c.fault = "none", Pending(c), NEW n \in Nat
  PROVE  Kept(c, fieldadr(c, n)) /\ (n # 0 => ~fieldadr(c, n).donerec)
  <1>1. CASE n = 0
    <2>1. fieldadr(c, n) = Grow(recbld(c), n)
      BY <1>1 DEF fieldadr
    <2>2. Grow(recbld(c), n).rec = recbld(c).rec
      BY PendingForms, GrowAny
    <2> QED  BY <1>1, <2>1, <2>2, PendingForms DEF Kept
  <1>2. CASE n # 0
    <2>1. fieldadr(c, n) = Grow(c, n)
      BY <1>2, PendingForms DEF fieldadr
    <2>2. Grow(c, n).donerec = c.donerec
      BY GrowAny
    <2> QED  BY <2>1, <2>2 DEF Kept, Pending
  <1> QED  BY <1>1, <1>2

Replaces == {"read", "assign", "copy", "sub", "hostset", "nothing", "getfile"}

\* The conclusion of StoreLostOnlyBy of a step.
KeepsStore == donefld /\ ~donerec /\ nf <= Len(fld) /\ donerec' /\ fault' = "none"
                => rec' = TextView \/ out'.op \in Replaces

LEMMA KeptStep ==
  ASSUME NEW c, Put(c), Kept(Cache, c)
  PROVE  KeepsStore
  BY DEF Put, Kept, KeepsStore, TextView

LEMMA ReplacedStep ==
  ASSUME NEW c, Put(c), NEW op \in Replaces, NEW n, NEW v, Deliver(c, op, n, v)
  PROVE  KeepsStore
  BY DEF Put, Deliver, Faulty, KeepsStore, Outcome

LEMMA StoreStep ==
  ASSUME SplitJoinTyped, FullInv, Next
  PROVE  KeepsStore
  <1> SUFFICES ASSUME Pending(Cache)
               PROVE  KeepsStore
    BY DEF KeepsStore, Pending, Cache
  <1>1. Cache \in CacheType /\ Cache.fault = "none"
    BY DEF FullInv, Known, Next, Cache
  <1>2. MaxField \in Nat
    BY TextAssumption
  <1>3. fldbld(Cache) = Cache /\ Kept(Cache, recbld(Cache)) /\ Cache.donerec = FALSE
    BY <1>1, PendingForms DEF Kept, Pending, CacheType
  <1>4. ASSUME NEW t, \/ ReadRecord(t) \/ Getline(t)
                     \/ ReadNothing(t) \/ GetlineNothing(t) \/ GetlineFile(t)
        PROVE  KeepsStore
    BY <1>4, ReplacedStep
       DEF ReadRecord, Getline, ReadNothing, GetlineNothing, FromInput, GetlineFile,
           Replaces
  <1>5. ASSUME NEW n, NEW v,
               \/ AssignField(n, v) \/ Substitute(n, v) \/ CopyField(n, v)
               \/ HostSetString(n, v) \/ HostSetNumber(n, v)
        PROVE  KeepsStore
    BY <1>5, ReplacedStep
       DEF AssignField, Substitute, CopyField, HostSetString, HostSetNumber, Replaces
  <1>6. ASSUME NEW n \in 0..MaxField, Fetch(n) PROVE KeepsStore
    <2>1. Kept(Cache, fieldadr(Cache, n))
      BY <1>1, <1>2, PendingFieldadr
    <2> QED  BY <1>6, <2>1, KeptStep DEF Fetch
  <1>7. ASSUME NEW n \in 1..MaxField, NEW t, GetlineField(n, t) PROVE KeepsStore
    <2> DEFINE b == fieldadr(Cache, n)
    <2>1. ~b.donerec
      BY <1>1, <1>2, PendingFieldadr
    <2>2. Kept(Cache, PutCell(b, n, t))
      <3> HIDE DEF b
      <3>1. PutCell(b, n, t) \in {b, [b EXCEPT !.fld[n] = t]}
        BY <1>2 DEF PutCell
      <3>2. b \in CacheType
        <4>1. Keeps(Cache, b)
          BY <1>2, InUseAny, FieldadrAny DEF b, Next
        <4> QED  BY <4>1 DEF Keeps
      <3> QED  BY <2>1, <3>1, <3>2 DEF Kept, CacheType
    <2> QED  BY <1>7, <2>2, KeptStep DEF GetlineField
  <1>8. ASSUME FetchNF PROVE KeepsStore
    BY <1>3, <1>8, KeptStep DEF FetchNF, Kept
  <1>9. ASSUME NEW s, AssignFS(s) \/ AssignOFS(s) \/ HostSetOFS(s) \/ NextRun
        PROVE  KeepsStore
    <2>1. CASE AssignFS(s)
      <3>1. [Cache EXCEPT !.fs = s].donerec = FALSE
        BY <1>1, <1>3 DEF CacheType
      <3> QED  BY <2>1, <3>1, KeptStep DEF AssignFS, Kept
    <2>2. CASE AssignOFS(s)
      <3>1. [Cache EXCEPT !.ofs = s].donerec = FALSE
        BY <1>1, <1>3 DEF CacheType
      <3> QED  BY <2>2, <3>1, KeptStep DEF AssignOFS, Kept
    <2>3. CASE HostSetOFS(s)
      <3>1. setsvalOFS(Cache, s).rec = recbld(Cache).rec
        BY <1>1, PendingForms DEF setsvalOFS, CacheType
      <3> QED  BY <1>1, <2>3, <3>1, KeptStep, PendingForms DEF HostSetOFS, Kept
    <2>4. CASE NextRun
      <3>1. [Cache EXCEPT !.fs = BLANK, !.ofs = BLANK].donerec = FALSE
        BY <1>1, <1>3 DEF CacheType
      <3> QED  BY <2>4, <3>1, KeptStep DEF NextRun, Kept
    <2> QED  BY <1>9, <2>1, <2>2, <2>3, <2>4
  <1>10. ASSUME NEW n \in 0..MaxField, AssignNF(n) \/ HostGet(n) \/ HostSetNF(n)
         PROVE  KeepsStore
    <2>1. CASE AssignNF(n)
      <3>1. ~[Cache EXCEPT !.nf = n].donerec
        BY <1>1, <1>3 DEF CacheType
      <3> QED  BY <1>3, <2>1, <3>1, KeptStep DEF AssignNF, Kept
    <2>2. CASE HostGet(n)
      <3>1. /\ ~[Cache EXCEPT !.donefld = FALSE, !.donerec = FALSE].donerec
            /\ ~Crash(Cache, "overrun").donerec
        BY <1>1, <1>3 DEF CacheType, Crash
      <3> QED  BY <1>3, <2>2, <3>1, KeptStep DEF HostGet, Kept
    <2>3. CASE HostSetNF(n)
      <3>1. PICK c \in {setfvalNF(Cache, n), setsvalNF(Cache, n), [Cache EXCEPT !.nf = n]} :
               Put(c)
        BY <2>3 DEF HostSetNF
      <3> DEFINE a == [Cache EXCEPT !.donerec = FALSE]
                 b == [Cache EXCEPT !.nf = n, !.donerec = FALSE]
      <3>a. n \in Nat
        BY <1>2
      <3>2. a \in CacheType /\ ~a.donerec
        BY <1>1 DEF CacheType
      <3>b. b \in CacheType /\ ~b.donerec /\ b.donefld = Cache.donefld
        BY <1>1, <3>a DEF CacheType
      <3>3. setfvalNF(Cache, n) = setlastfld(a, n)
        BY DEF setfvalNF
      <3>4. setsvalNF(Cache, n) = setlastfld(b, b.nf)
        BY <3>b DEF setsvalNF, fldbld, Pending
      <3> HIDE DEF a, b
      <3>5. /\ ~setlastfld(a, n).donerec /\ ~setlastfld(b, b.nf).donerec
        BY <3>a, <3>2, <3>b, SetlastfldAny DEF CacheType
      <3>6. ~[Cache EXCEPT !.nf = n].donerec
        BY <1>1, <1>3 DEF CacheType
      <3> QED  BY <3>1, <3>3, <3>4, <3>5, <3>6, KeptStep DEF Kept
    <2> QED  BY <1>10, <2>1, <2>2, <2>3
  <1>11. Core => KeepsStore
    BY <1>4, <1>5, <1>6, <1>8, <1>9 DEF Core, CoreRead, CoreBegin, CoreRecord
  <1>12. NothingLeft \/ ReadField \/ ReadFile => KeepsStore
    BY <1>4, <1>7 DEF NothingLeft, ReadField, ReadFile
  <1>13. RegexFS \/ EarlyOFS \/ LateFS \/ LateOFS \/ NextRun => KeepsStore
    BY <1>9 DEF RegexFS, EarlyOFS, LateFS, LateOFS
  <1>14. SubField \/ HostWrites \/ BeginFetch => KeepsStore
    BY <1>5, <1>6, <1>8 DEF SubField, HostWrites, BeginFetch
  <1>15. ChangeNF \/ HostReads \/ HostChangesNF => KeepsStore
    BY <1>10 DEF ChangeNF, HostReads, HostChangesNF
  <1> QED  BY <1>11, <1>12, <1>13, <1>14, <1>15 DEF Next

\* An assignment to a field reaches $0 unless a text of its own replaces $0, or
\* a read that finds no record or no file leaves the stale text as valid.
THEOREM FullStoreLostOnlyBy ==
  ASSUME SplitJoinTyped
  PROVE  FullSpec => StoreLostOnlyBy
  <1>1. FullInv /\ [Next]_vars =>
          [donefld /\ ~donerec /\ nf <= Len(fld) /\ donerec' /\ fault' = "none"
             => \/ rec' = TextView
                \/ out'.op \in {"read", "assign", "copy", "sub", "hostset"}
                \/ out'.op \in {"nothing", "getfile"}]_vars
    BY StoreStep DEF KeepsStore, Replaces
  <1> QED  BY <1>1, FullInvariant, PTL DEF FullSpec, StoreLostOnlyBy
=============================================================================
