--------------------------- MODULE ProgramsProofs ---------------------------
(***************************************************************************)
(* For any interpreters, any programs, any size of the cache of            *)
(* expressions and of the table of ranges: the cache is transparent, the   *)
(* range patterns of each program are its own, and what a compilation      *)
(* makes of a program is decided by its text.                              *)
(*                                                                         *)
(* The first two hold whatever the lexer and the parser do: their proofs   *)
(* do not open those definitions.  The third is about nothing else: the    *)
(* tokens that yylex returns, what the rules of the parser make of them,   *)
(* and how two lexers that differ in their counters read the same program. *)
(***************************************************************************)
EXTENDS ProgramsProps, SequenceTheorems, FiniteSetTheorems, WellFoundedInduction,
        TLAPS

\* Functions on 1..n are sequences of that length.
LEMMA IsSequence ==
  ASSUME NEW S, NEW n \in Nat, NEW f \in [1..n -> S]
  PROVE  f \in Seq(S) /\ Len(f) = n
OBVIOUS

\* A set of numbers that is not empty has a least one.
LEMMA LeastOf ==
  ASSUME NEW S, S \subseteq Nat, S # {}
  PROVE  \E n \in S : \A m \in S : n <= m
<1> DEFINE R == {ss \in Nat \X Nat : ss[1] < ss[2]}
<1>1. IsWellFoundedOn(R, Nat)
  BY NatLessThanWellFounded DEF OpToRel
<1>2. PICK n \in S : \A y \in S : ~(<<y, n>> \in R)
  BY <1>1, WFMin
<1>3. ASSUME NEW y \in S PROVE n <= y
  <2>1. <<y, n>> \in Nat \X Nat /\ <<y, n>>[1] = y /\ <<y, n>>[2] = n
    OBVIOUS
  <2>2. ~(y < n)
    BY <2>1, <1>2
  <2> QED
    BY <2>2
<1> QED
  BY <1>3

\* Replacing an element, at any place, keeps a sequence one.
LEMMA Replaced ==
  ASSUME NEW S, NEW s \in Seq(S), NEW e \in S, NEW n
  PROVE  /\ [s EXCEPT ![n] = e] \in Seq(S)
         /\ Len([s EXCEPT ![n] = e]) = Len(s)
<1>1. Len(s) \in Nat /\ s \in [1..Len(s) -> S]
  BY LenProperties
<1>2. [s EXCEPT ![n] = e] \in [1..Len(s) -> S]
  BY <1>1
<1> QED
  BY <1>1, <1>2, IsSequence
-----------------------------------------------------------------------------
(* requote leaves no \xhh, and changes nothing where there is none.        *)
Chars == STRING \cup Hex

LEMMA HexdigitRange == \A c \in Hex : hexdigit[c] \in 0..15
BY DEF hexdigit, Hex

LEMMA OctRange ==
  ASSUME NEW v \in 0..255
  PROVE  /\ Oct[1 + (v \div 64)] \in Hex
         /\ Oct[1 + ((v \div 8) % 8)] \in Hex
         /\ Oct[1 + (v % 8)] \in Hex
<1>1. \A n \in 1..8 : Oct[n] \in Hex
  BY DEF Oct, Hex
<1>2. 1 + (v \div 64) \in 1..8 /\ 1 + ((v \div 8) % 8) \in 1..8 /\ 1 + (v % 8) \in 1..8
  BY SMTT(30)
<1> QED
  BY <1>1, <1>2

LEMMA HexValueRange ==
  ASSUME NEW s, NEW k, HexAt(s, k)
  PROVE  HexValue(s, k) \in 0..255
<1>1. s[k + 2] \in Hex /\ s[k + 3] \in Hex
  BY DEF HexAt
<1>2. hexdigit[s[k + 2]] \in 0..15 /\ hexdigit[s[k + 3]] \in 0..15
  BY <1>1, HexdigitRange
<1> QED
  BY <1>2 DEF HexValue

\* A \, an x or a digit of a result that stands for no \xhh was there before.
LEMMA RequoteShape ==
  ASSUME NEW s \in Seq(Chars)
  PROVE  /\ requote(s) \in Seq(Chars) /\ Len(requote(s)) = Len(s)
         /\ \A k \in 1..Len(s) :
              \/ /\ requote(s)[k] \in Hex
                 /\ HexAt(s, k - 1) \/ HexAt(s, k - 2) \/ HexAt(s, k - 3)
              \/ /\ requote(s)[k] = s[k]
                 /\ ~HexAt(s, k - 1) /\ ~HexAt(s, k - 2) /\ ~HexAt(s, k - 3)
<1> DEFINE r == requote(s)
<1>1. Len(s) \in Nat /\ \A k \in 1..Len(s) : s[k] \in Chars
  BY LenProperties, ElementOfSeq
<1>2. ASSUME NEW k \in 1..Len(s)
      PROVE  \/ /\ r[k] \in Hex
                /\ HexAt(s, k - 1) \/ HexAt(s, k - 2) \/ HexAt(s, k - 3)
             \/ /\ r[k] = s[k]
                /\ ~HexAt(s, k - 1) /\ ~HexAt(s, k - 2) /\ ~HexAt(s, k - 3)
  <2>1. CASE HexAt(s, k - 1)
    BY <2>1, HexValueRange, OctRange DEF requote
  <2>2. CASE ~HexAt(s, k - 1) /\ HexAt(s, k - 2)
    BY <2>2, HexValueRange, OctRange DEF requote
  <2>3. CASE ~HexAt(s, k - 1) /\ ~HexAt(s, k - 2) /\ HexAt(s, k - 3)
    BY <2>3, HexValueRange, OctRange DEF requote
  <2>4. CASE ~HexAt(s, k - 1) /\ ~HexAt(s, k - 2) /\ ~HexAt(s, k - 3)
    BY <2>4 DEF requote
  <2> QED
    BY <2>1, <2>2, <2>3, <2>4
<1>4. \A k \in 1..Len(s) : r[k] \in Chars
  BY <1>1, <1>2 DEF Chars
<1>5. r = [k \in 1..Len(s) |-> r[k]]
  BY DEF requote
<1>6. r \in [1..Len(s) -> Chars]
  BY <1>4, <1>5
<1> QED
  BY <1>1, <1>2, <1>6, IsSequence

\* The expression made from a result of requote is made from that result: an
\* entry of the cache may be found by either text.
LEMMA RequoteTwice ==
  ASSUME NEW s \in Seq(Chars)
  PROVE  requote(requote(s)) = requote(s)
<1> DEFINE r == requote(s)
<1>1. r \in Seq(Chars) /\ Len(r) = Len(s) /\ Len(s) \in Nat
  BY RequoteShape, LenProperties
<1>2. ASSUME NEW k, HexAt(r, k) PROVE FALSE
  <2>1. /\ k \in 1..(Len(s) - 3) /\ r[k] = "\\" /\ r[k + 1] = "x"
        /\ r[k + 2] \in Hex /\ r[k + 3] \in Hex
    BY <1>1, <1>2 DEF HexAt
  <2>2. "\\" \notin Hex /\ "x" \notin Hex /\ "\\" # "x"
    BY DEF Hex
  <2>3. k \in 1..Len(s) /\ k + 1 \in 1..Len(s) /\ k + 2 \in 1..Len(s) /\ k + 3 \in 1..Len(s)
    BY <1>1, <2>1
  <2>4. s[k] = "\\"
    BY <2>1, <2>2, <2>3, RequoteShape
  <2>5. s[k + 1] = "x" /\ ~HexAt(s, (k + 1) - 1)
    BY <2>1, <2>2, <2>3, RequoteShape
  <2>6. ~HexAt(s, k)
    BY <2>1, <2>5
  <2>7. ~HexAt(s, k - 1) /\ ~HexAt(s, k + 1)
    BY <2>1, <2>2, <2>4, <2>5 DEF HexAt
  <2>8. /\ (k + 2) - 1 = k + 1 /\ (k + 2) - 2 = k /\ (k + 2) - 3 = k - 1
        /\ (k + 3) - 1 = k + 2 /\ (k + 3) - 2 = k + 1 /\ (k + 3) - 3 = k
    BY <2>1
  <2>9. s[k + 2] \in Hex
    BY <2>1, <2>3, <2>6, <2>7, <2>8, RequoteShape
  <2>10. ~HexAt(s, k + 2)
    BY <2>2, <2>9 DEF HexAt
  <2>11. s[k + 3] \in Hex
    BY <2>1, <2>3, <2>6, <2>7, <2>8, <2>10, RequoteShape
  <2> QED
    BY <2>1, <2>4, <2>5, <2>6, <2>9, <2>11 DEF HexAt
<1>3. requote(r) \in Seq(Chars) /\ Len(requote(r)) = Len(r)
  BY <1>1, RequoteShape
<1>4. \A k \in 1..Len(r) : requote(r)[k] = r[k]
  BY <1>1, <1>2, RequoteShape
<1> QED
  BY <1>1, <1>3, <1>4, SeqEqual
-----------------------------------------------------------------------------
(* The cache: each entry is made from its own text, and there are no more  *)
(* than NFA of them.                                                       *)
SoundEntry == {e \in [nval : Seq(Chars), re : Seq(Chars), fval : Nat] : e.re = requote(e.nval)}

CacheInv == /\ host \in Host
            /\ ratab \in [Interp -> Seq(SoundEntry)]
            /\ \A i \in Interp : Len(ratab[i]) <= NFA
            /\ asked # None => asked.re = requote(asked.text)

LEMMA AsksAreTexts ==
  ASSUME host \in Host, NEW s \in host.asks
  PROVE  s \in Seq(Chars)
<1>1. s \in Seq(STRING)
  BY ProgramsAssumption
<1>2. STRING \subseteq Chars
  BY DEF Chars
<1> QED
  BY <1>1, <1>2, SeqMonotonic

LEMMA EntrySound ==
  ASSUME NEW s \in Seq(Chars)
  PROVE  Entry(s) \in SoundEntry /\ Entry(s).re = requote(s)
BY RequoteShape DEF Entry, SoundEntry

LEMMA FoundSound ==
  ASSUME NEW cache \in Seq(SoundEntry), NEW ss, Cached(cache, ss)
  PROVE  Found(cache, ss) \in 1..Len(cache) /\ cache[Found(cache, ss)].nval = ss
<1> DEFINE S == {n \in 1..Len(cache) : cache[n].nval = ss}
<1>1. Len(cache) \in Nat /\ DOMAIN cache = 1..Len(cache)
  BY LenProperties
<1>2. PICK n \in S : \A m \in S : n <= m
  <2>1. S # {} /\ S \subseteq Nat
    BY <1>1 DEF Cached
  <2> QED
    BY <2>1, LeastOf
<1>3. \A m \in 1..(n - 1) : cache[m].nval # ss
  BY <1>1, <1>2
<1>4. \E k \in DOMAIN cache : cache[k].nval = ss /\ \A m \in 1..(k - 1) : cache[m].nval # ss
  BY <1>1, <1>2, <1>3
<1> QED
  BY <1>1, <1>4 DEF Found

LEMMA HitKeepsCache ==
  ASSUME CacheInv, NEW i \in Interp, NEW s \in Seq(Chars), Hit(i, s), host' = host
  PROVE  CacheInv'
<1> DEFINE cache == ratab[i]
           n     == Found(cache, requote(s))
           e     == [cache[n] EXCEPT !.fval = @ + 1]
<1>1. cache \in Seq(SoundEntry) /\ Len(cache) \in Nat /\ DOMAIN cache = 1..Len(cache)
  BY LenProperties DEF CacheInv
<1>2. n \in 1..Len(cache) /\ cache[n].nval = requote(s)
  BY <1>1, FoundSound DEF Hit
<1>3. cache[n] \in SoundEntry
  BY <1>1, <1>2, ElementOfSeq
<1>4. e \in SoundEntry
  BY <1>3 DEF SoundEntry
<1>5. cache[n].re = requote(s)
  BY <1>2, <1>3, RequoteTwice DEF SoundEntry
<1>6. ratab' = [ratab EXCEPT ![i] = [cache EXCEPT ![n] = e]]
  BY DEF Hit
<1>7. asked'.re = requote(asked'.text)
  BY <1>5 DEF Hit
<1> HIDE DEF cache, n, e
<1>8. [cache EXCEPT ![n] = e] \in Seq(SoundEntry) /\ Len([cache EXCEPT ![n] = e]) = Len(cache)
  BY <1>1, <1>4, Replaced
<1>9. ratab' \in [Interp -> Seq(SoundEntry)]
  BY <1>6, <1>8 DEF CacheInv
<1>10. \A j \in Interp : Len(ratab'[j]) <= NFA
  BY <1>6, <1>8 DEF CacheInv, cache
<1> QED
  BY <1>7, <1>9, <1>10 DEF CacheInv

LEMMA MissKeepsCache ==
  ASSUME CacheInv, NEW i \in Interp, NEW s \in Seq(Chars), Miss(i, s), host' = host
  PROVE  CacheInv'
<1> DEFINE cache == ratab[i]
           new   == IF Len(cache) < NFA THEN Append(cache, Entry(s))
                    ELSE [cache EXCEPT ![LeastUsed(cache)] = Entry(s)]
<1>1. cache \in Seq(SoundEntry) /\ Len(cache) \in Nat /\ Len(cache) <= NFA /\ NFA \in Nat
  BY LenProperties, ProgramsAssumption DEF CacheInv
<1>2. Entry(s) \in SoundEntry /\ Entry(s).re = requote(s)
  BY EntrySound
<1>3. ratab' = [ratab EXCEPT ![i] = new]
  BY DEF Miss
<1>4. asked'.re = requote(asked'.text)
  BY <1>2 DEF Miss
<1> HIDE DEF cache
<1>5. new \in Seq(SoundEntry) /\ Len(new) <= NFA
  <2>1. CASE Len(cache) < NFA
    BY <1>1, <1>2, <2>1, AppendProperties
  <2>2. CASE ~(Len(cache) < NFA)
    BY <1>1, <1>2, <2>2, Replaced
  <2> QED
    BY <2>1, <2>2
<1> HIDE DEF new
<1>6. ratab' \in [Interp -> Seq(SoundEntry)] /\ \A j \in Interp : Len(ratab'[j]) <= NFA
  BY <1>1, <1>3, <1>5 DEF CacheInv
<1> QED
  BY <1>4, <1>6 DEF CacheInv

LEMMA CacheStep == CacheInv /\ [Next]_vars => CacheInv'
<1> SUFFICES ASSUME CacheInv, [Next]_vars PROVE CacheInv'
  OBVIOUS
<1>1. ASSUME NEW i \in Interp, awk_end(i) PROVE CacheInv'
  <2>1. ratab' = [ratab EXCEPT ![i] = <<>>] /\ asked' = None /\ host' = host
    BY <1>1 DEF awk_end
  <2>2. <<>> \in Seq(SoundEntry) /\ Len(<<>>) <= NFA
    BY EmptySeq, ProgramsAssumption
  <2> QED
    BY <2>1, <2>2 DEF CacheInv
<1>2. ASSUME NEW i \in Interp, makedfa(i) PROVE CacheInv'
  <2>1. PICK s \in host.asks : Hit(i, s) \/ Miss(i, s) \/ Unusable(i, s)
    BY <1>2 DEF makedfa
  <2>2. s \in Seq(Chars) /\ host' = host
    BY <1>2, AsksAreTexts DEF CacheInv, makedfa
  <2>3. CASE Unusable(i, s)
    BY <2>2, <2>3 DEF CacheInv, Unusable
  <2> QED
    BY <2>1, <2>2, <2>3, HitKeepsCache, MissKeepsCache
<1>3. CASE /\ host' = host /\ ratab' = ratab
           /\ asked' = asked \/ asked' = None
  BY <1>3 DEF CacheInv
<1>4. ASSUME NEW i \in Interp, awk_compile(i) \/ Returns(i) PROVE CacheInv'
  BY <1>3, <1>4 DEF awk_compile, Returns
<1>5. ASSUME NEW i \in Interp,
             \/ awk_init(i) \/ awk_setprog(i) \/ awk_addprogfile(i) \/ yyparse(i)
             \/ awk_exec(i) \/ dopa2(i)
      PROVE  CacheInv'
  BY <1>1, <1>3, <1>5 DEF awk_init, awk_setprog, awk_addprogfile, yyparse, awk_exec, dopa2,
  matcher
<1>6. CASE UNCHANGED vars
  BY <1>1, <1>3, <1>6 DEF vars, matcher
<1> QED
  BY <1>1, <1>2, <1>4, <1>5, <1>6 DEF Next

LEMMA CacheStarts == Init => CacheInv
<1> SUFFICES ASSUME Init PROVE CacheInv
  OBVIOUS
<1>1. <<>> \in Seq(SoundEntry) /\ Len(<<>>) <= NFA
  BY EmptySeq, ProgramsAssumption
<1> QED
  BY <1>1 DEF Init, CacheInv

LEMMA CacheShows == CacheInv => CacheTransparent
<1> SUFFICES ASSUME CacheInv, NEW i \in Interp
             PROVE  \A n \in DOMAIN ratab[i] : ratab[i][n].re = requote(ratab[i][n].nval)
  BY DEF CacheInv, CacheTransparent
<1>1. ratab[i] \in Seq(SoundEntry)
  BY DEF CacheInv
<1>2. \A n \in DOMAIN ratab[i] : ratab[i][n] \in SoundEntry
  BY <1>1, LenProperties, ElementOfSeq
<1> QED
  BY <1>2 DEF SoundEntry

\* An expression matches what its text says, in any run of any program: the
\* cache can be seen by nobody, whatever its size.
THEOREM CacheIsTransparent == Spec => []CacheTransparent
BY CacheStarts, CacheShows, CacheStep, PTL DEF Spec
-----------------------------------------------------------------------------
(* The range patterns.  A place of the table belongs to one range, of one  *)
(* program; the places that were never given out are closed, and so are    *)
(* those of a program until it runs.                                       *)
Places == 0..(PA2NUM - 1)

Statuses == {"none", "INIT", "COMPILING", "COMPILED", "RUN", "DONE"}

Given == \A i \in Interp : /\ Len(slots[i]) <= PA2NUM /\ Len(slots[i]) <= paircnt
                           /\ \A k \in DOMAIN slots[i] : slots[i][k] < paircnt
                           /\ status[i] \in {"none", "INIT"} => slots[i] = <<>>

Apart == \A i, j \in Interp : \A k \in DOMAIN slots[i], m \in DOMAIN slots[j] :
           slots[i][k] = slots[j][m] => i = j /\ k = m

Closed == /\ \A n \in Places : n >= paircnt => pairstack[n] = 0
          /\ \A i \in Interp : status[i] = "COMPILING" =>
               \A k \in DOMAIN slots[i] : pairstack[slots[i][k]] = 0

Turns == /\ "of" \in DOMAIN parsing
         /\ parsing.of # None => parsing.of \in Interp /\ status[parsing.of] = "COMPILING"
         /\ running # None =>
              /\ running \in Interp /\ status[running] = "RUN"
              /\ slots[running] # <<>> => pair \in DOMAIN slots[running]

RangeInv == /\ paircnt \in Nat
            /\ pairstack \in [Places -> {0, 1}]
            /\ slots \in [Interp -> Seq(Places)]
            /\ status \in [Interp -> Statuses]
            /\ Given /\ Apart /\ Closed /\ Turns

\* What a token may do to the ranges: nothing, or one more, or the program
\* is dropped with an error, which may have counted one more.
Thrown(i) == /\ \E s \in {"COMPILED", "DONE"} : status' = [status EXCEPT ![i] = s]
             /\ slots' = [slots EXCEPT ![i] = <<>>]
             /\ paircnt' \in {paircnt, paircnt + 1}
             /\ parsing' = NotParsing

Goes(i) == \/ status' = [status EXCEPT ![i] = "COMPILED"] /\ parsing' = NotParsing
           \/ status' = status /\ parsing'.of = i /\ "of" \in DOMAIN parsing'

Shifted(i) == /\ Goes(i)
              /\ (pa2stat(i) \/ UNCHANGED <<paircnt, slots>>)

LEMMA TokenStep ==
  ASSUME RangeInv, NEW i \in Interp, yyparse(i)
  PROVE  /\ status[i] = "COMPILING" /\ UNCHANGED <<pairstack, running, pair>>
         /\ Thrown(i) \/ Shifted(i)
<1>1. status[i] = "COMPILING" /\ UNCHANGED <<pairstack, running, pair>>
  BY ProgramsAssumption DEF RangeInv, Turns, yyparse
<1>2. ASSUME NEW how, NEW toks, Ends(i, how, toks)
      PROVE  /\ parsing' = NotParsing
             /\ \E s \in {"COMPILED", "DONE"} : status' = [status EXCEPT ![i] = s]
             /\ how = "compiled" => status' = [status EXCEPT ![i] = "COMPILED"]
  BY <1>2 DEF Ends
<1>3. ASSUME NEW y, NEW how, Throws(i, y, how), paircnt' \in {paircnt, paircnt + 1}
      PROVE  Thrown(i)
  BY <1>2, <1>3 DEF Throws, Thrown
<1>4. PICK y : LexerThrows(i, y) \/ Refuses(i, y) \/ TableFull(i, y)
               \/ MakedfaThrows(i, y) \/ Shifts(i, y)
  BY DEF yyparse
<1>5. CASE LexerThrows(i, y)
  BY <1>1, <1>3, <1>5 DEF LexerThrows
<1>6. CASE Refuses(i, y)
  BY <1>1, <1>3, <1>6 DEF Refuses
<1>7. CASE TableFull(i, y)
  BY <1>1, <1>3, <1>7 DEF TableFull
<1>8. CASE MakedfaThrows(i, y)
  BY <1>1, <1>3, <1>8 DEF MakedfaThrows
<1>9. CASE Shifts(i, y)
  <2>1. pa2stat(i) \/ UNCHANGED <<paircnt, slots>>
    BY <1>9 DEF Shifts
  <2>2. PICK stack, toks :
          \/ Ends(i, "compiled", toks)
          \/ /\ parsing' = [parsing EXCEPT !.stack = stack, !.toks = toks, !.body = y.body]
             /\ status' = status
    BY <1>9 DEF Shifts
  <2>3. "of" \in DOMAIN parsing /\ parsing.of = i
    BY DEF RangeInv, Turns, yyparse
  <2>4. Goes(i)
    BY <1>2, <2>2, <2>3 DEF Goes
  <2> QED
    BY <1>1, <2>1, <2>4 DEF Shifted
<1> QED
  BY <1>1, <1>4, <1>5, <1>6, <1>7, <1>8, <1>9

\* After a token the ranges are still apart and in order, and no program that
\* is compiled or runs, but the one that has just ended, has other ranges.
LEMMA ThrownKeeps ==
  ASSUME RangeInv, NEW i \in Interp, status[i] = "COMPILING",
         UNCHANGED <<pairstack, running, pair>>, Thrown(i)
  PROVE  RangeInv' /\ [Ideal!Next]_OpenRanges
<1>1. PICK s \in {"COMPILED", "DONE"} : status' = [status EXCEPT ![i] = s]
  BY DEF Thrown
<1>2. /\ slots' = [slots EXCEPT ![i] = <<>>]
      /\ paircnt' \in {paircnt, paircnt + 1} /\ parsing' = NotParsing
  BY DEF Thrown
<1>3. <<>> \in Seq(Places) /\ Len(<<>>) = 0 /\ DOMAIN <<>> = {} /\ PA2NUM \in Nat
  BY EmptySeq, ProgramsAssumption
<1>4. /\ paircnt' \in Nat /\ pairstack' \in [Places -> {0, 1}]
      /\ slots' \in [Interp -> Seq(Places)] /\ status' \in [Interp -> Statuses]
  BY <1>1, <1>2, <1>3 DEF RangeInv, Statuses
<1>5. \A j \in Interp : \/ j # i /\ slots'[j] = slots[j] /\ status'[j] = status[j]
                        \/ j = i /\ slots'[j] = <<>> /\ status'[j] \in {"COMPILED", "DONE"}
  BY <1>1, <1>2 DEF RangeInv
<1>6. Given'
  <2> SUFFICES ASSUME NEW j \in Interp
               PROVE  /\ Len(slots'[j]) <= PA2NUM /\ Len(slots'[j]) <= paircnt'
                      /\ \A k \in DOMAIN slots'[j] : slots'[j][k] < paircnt'
                      /\ status'[j] \in {"none", "INIT"} => slots'[j] = <<>>
    BY DEF Given
  <2>1. \A k \in DOMAIN slots[j] : slots[j][k] \in Places
    BY LenProperties, ElementOfSeq DEF RangeInv
  <2> QED
    BY <1>2, <1>3, <1>5, <2>1 DEF RangeInv, Given, Places
<1>7. Apart'
  BY <1>3, <1>5 DEF RangeInv, Apart
<1>8. Closed'
  BY <1>2, <1>3, <1>5 DEF RangeInv, Closed, Places
<1>9. Turns'
  <2>1. parsing'.of = None /\ "of" \in DOMAIN parsing'
    BY <1>2 DEF NotParsing
  <2>2. running # None => running # i
    BY DEF RangeInv, Turns
  <2> QED
    BY <1>5, <2>1, <2>2 DEF RangeInv, Turns
<1>10. OpenRanges' = OpenRanges
  BY <1>3, <1>5 DEF OpenRanges
<1> QED
  BY <1>4, <1>6, <1>7, <1>8, <1>9, <1>10 DEF RangeInv

LEMMA ShiftedKeeps ==
  ASSUME RangeInv, NEW i \in Interp, status[i] = "COMPILING",
         UNCHANGED <<pairstack, running, pair>>, Shifted(i)
  PROVE  RangeInv' /\ [Ideal!Next]_OpenRanges
<1>1. status'[i] \in {"COMPILING", "COMPILED"} /\ \A j \in Interp \ {i} : status'[j] = status[j]
  BY DEF Shifted, Goes, RangeInv
<1>2. status' \in [Interp -> Statuses]
  BY DEF Shifted, Goes, RangeInv, Statuses
<1>3. /\ slots[i] \in Seq(Places) /\ Len(slots[i]) \in Nat
      /\ DOMAIN slots[i] = 1..Len(slots[i]) /\ PA2NUM \in Nat
      /\ \A j \in Interp : \A k \in DOMAIN slots[j] : slots[j][k] \in Places
  BY LenProperties, ElementOfSeq, ProgramsAssumption DEF RangeInv
<1>4. /\ paircnt' \in Nat /\ paircnt' >= paircnt
      /\ slots' \in [Interp -> Seq(Places)]
      /\ \A j \in Interp \ {i} : slots'[j] = slots[j]
      /\ \/ slots'[i] = slots[i]
         \/ /\ slots'[i] = Append(slots[i], paircnt)
            /\ paircnt \in Places /\ paircnt' = paircnt + 1
  <2>1. CASE UNCHANGED <<paircnt, slots>>
    BY <2>1 DEF RangeInv
  <2>2. CASE pa2stat(i)
    <3>1. paircnt \in Places
      BY <1>3, <2>2 DEF pa2stat, RangeInv, Places
    <3>2. Append(slots[i], paircnt) \in Seq(Places)
      BY <1>3, <3>1, AppendProperties
    <3> QED
      BY <2>2, <3>1, <3>2 DEF pa2stat, RangeInv
  <2> QED
    BY <2>1, <2>2 DEF Shifted
<1>5. \A k \in DOMAIN slots'[i] :
        \/ k \in DOMAIN slots[i] /\ slots'[i][k] = slots[i][k]
        \/ /\ slots'[i][k] = paircnt /\ paircnt' = paircnt + 1 /\ paircnt \in Places
           /\ k = Len(slots[i]) + 1
  BY <1>3, <1>4, AppendProperties
<1>6. Len(slots'[i]) <= PA2NUM /\ Len(slots'[i]) <= paircnt'
  <2>1. CASE slots'[i] = slots[i]
    BY <1>3, <1>4, <2>1 DEF RangeInv, Given
  <2>2. CASE /\ slots'[i] = Append(slots[i], paircnt)
             /\ paircnt \in Places /\ paircnt' = paircnt + 1
    <3>1. Len(slots'[i]) = Len(slots[i]) + 1
      BY <1>3, <2>2, AppendProperties
    <3> QED
      BY <1>3, <2>2, <3>1 DEF RangeInv, Given, Places
  <2> QED
    BY <1>4, <2>1, <2>2
<1>7. \A j \in Interp : \A k \in DOMAIN slots[j] :
        slots[j][k] \in Nat /\ slots[j][k] < paircnt
  BY <1>3 DEF RangeInv, Given, Places
<1>8. \A j \in Interp : \A k \in DOMAIN slots'[j] :
        \/ k \in DOMAIN slots[j] /\ slots'[j][k] = slots[j][k]
        \/ /\ j = i /\ k = Len(slots[i]) + 1
           /\ slots'[j][k] = paircnt /\ paircnt' = paircnt + 1 /\ paircnt \in Places
  BY <1>4, <1>5
<1>9. \A j \in Interp : \A k \in DOMAIN slots'[j] : slots'[j][k] < paircnt'
  BY <1>4, <1>7, <1>8 DEF RangeInv
<1>10. Given'
  <2> SUFFICES ASSUME NEW j \in Interp
               PROVE  /\ Len(slots'[j]) <= PA2NUM /\ Len(slots'[j]) <= paircnt'
                      /\ status'[j] \in {"none", "INIT"} => slots'[j] = <<>>
    BY <1>9 DEF Given
  <2>1. CASE j = i
    BY <1>1, <1>6, <2>1
  <2>2. CASE j # i
    <3>1. slots'[j] = slots[j] /\ status'[j] = status[j]
      BY <1>1, <1>4, <2>2
    <3>2. Len(slots[j]) \in Nat
      BY LenProperties DEF RangeInv
    <3> QED
      BY <1>3, <1>4, <3>1, <3>2 DEF RangeInv, Given
  <2> QED
    BY <2>1, <2>2
<1>11. Apart'
  <2> SUFFICES ASSUME NEW j \in Interp, NEW h \in Interp,
                      NEW k \in DOMAIN slots'[j], NEW m \in DOMAIN slots'[h],
                      slots'[j][k] = slots'[h][m]
               PROVE  j = h /\ k = m
    BY DEF Apart
  <2>1. CASE /\ k \in DOMAIN slots[j] /\ slots'[j][k] = slots[j][k]
             /\ m \in DOMAIN slots[h] /\ slots'[h][m] = slots[h][m]
    <3>1. Apart
      BY DEF RangeInv
    <3>2. slots[j][k] = slots[h][m]
      BY <2>1
    <3> QED
      BY <2>1, <3>1, <3>2, SMTT(20) DEF Apart
  <2>2. \A g \in Interp : \A l \in DOMAIN slots[g] : slots[g][l] # paircnt
    BY <1>7 DEF RangeInv
  <2> QED
    BY <1>8, <2>1, <2>2
<1>12. \A j \in Interp : status'[j] = "COMPILING" =>
         \A k \in DOMAIN slots'[j] : pairstack[slots'[j][k]] = 0
  <2> SUFFICES ASSUME NEW j \in Interp, status'[j] = "COMPILING", NEW k \in DOMAIN slots'[j]
               PROVE  pairstack[slots'[j][k]] = 0
    OBVIOUS
  <2>1. status[j] = "COMPILING"
    BY <1>1
  <2>2. pairstack[paircnt] = 0 \/ paircnt \notin Places
    BY DEF RangeInv, Closed
  <2> QED
    BY <1>8, <2>1, <2>2 DEF RangeInv, Closed
<1>13. \A k \in DOMAIN slots'[i] : pairstack[slots'[i][k]] = 0
  <2>1. pairstack[paircnt] = 0 \/ paircnt \notin Places
    BY DEF RangeInv, Closed
  <2> QED
    BY <1>8, <2>1 DEF RangeInv, Closed
<1>14. Closed'
  <2>1. \A p \in Places : p >= paircnt' => p >= paircnt
    BY <1>4 DEF RangeInv, Places
  <2> QED
    BY <1>12, <2>1 DEF RangeInv, Closed
<1>15. Turns'
  <2>1. /\ "of" \in DOMAIN parsing'
        /\ parsing'.of # None => parsing'.of \in Interp /\ status'[parsing'.of] = "COMPILING"
    BY DEF Shifted, Goes, NotParsing
  <2>2. running # None => running # i
    BY DEF RangeInv, Turns
  <2> QED
    BY <1>1, <1>4, <2>1, <2>2 DEF RangeInv, Turns
<1>16. [Ideal!Next]_OpenRanges
  <2>1. \A j \in Interp \ {i} : OpenRanges'[j] = OpenRanges[j]
    BY <1>1, <1>4 DEF OpenRanges
  <2>2. OpenRanges[i] = <<>>
    BY DEF OpenRanges
  <2>3. CASE status'[i] = "COMPILING"
    <3>1. OpenRanges'[i] = <<>>
      BY <2>3 DEF OpenRanges
    <3> QED
      BY <2>1, <2>2, <3>1 DEF OpenRanges
  <2>4. CASE status'[i] = "COMPILED"
    <3>1. OpenRanges'[i] = [k \in DOMAIN slots'[i] |-> pairstack'[slots'[i][k]] = 1]
      BY <2>4 DEF OpenRanges
    <3>2. \A k \in DOMAIN slots'[i] : (pairstack'[slots'[i][k]] = 1) = FALSE
      BY <1>13
    <3>3. OpenRanges'[i] = [k \in DOMAIN slots'[i] |-> FALSE]
      BY <3>1, <3>2, Zenon
    <3>4. DOMAIN slots'[i] = 1..Len(slots'[i]) /\ Len(slots'[i]) \in 0..PA2NUM
      BY <1>3, <1>4, <1>6, LenProperties
    <3>5. OpenRanges' = [OpenRanges EXCEPT ![i] = [k \in 1..Len(slots'[i]) |-> FALSE]]
      BY <2>1, <3>3, <3>4 DEF OpenRanges
    <3> QED
      BY <2>2, <3>4, <3>5 DEF Ideal!Next, Ideal!Compiled
  <2> QED
    BY <1>1, <2>3, <2>4
<1> QED
  BY <1>2, <1>4, <1>10, <1>11, <1>14, <1>15, <1>16 DEF RangeInv

\* A record comes to a range of the program that runs.
LEMMA RecordKeeps ==
  ASSUME RangeInv, NEW i \in Interp, dopa2(i)
  PROVE  RangeInv' /\ [Ideal!Next]_OpenRanges
<1> DEFINE n == slots[i][pair]
<1>1. /\ status[i] = "RUN" /\ pair \in DOMAIN slots[i]
      /\ UNCHANGED <<status, paircnt, slots, parsing, running>>
  BY ProgramsAssumption DEF dopa2, RangeInv, Turns, compiler
<1>2. /\ n \in Places /\ n < paircnt
      /\ \A j \in Interp : /\ DOMAIN slots[j] = 1..Len(slots[j]) /\ Len(slots[j]) \in Nat
                           /\ \A k \in DOMAIN slots[j] : slots[j][k] \in Places
  BY <1>1, LenProperties, ElementOfSeq DEF RangeInv, Given
<1>3. PICK first \in BOOLEAN, last \in BOOLEAN, next \in BOOLEAN :
        LET open == pairstack[n] = 1 \/ first
        IN  /\ pairstack' = [pairstack EXCEPT ![n] = IF open /\ ~last THEN 1 ELSE 0]
            /\ pair' = IF pair = Len(slots[i]) \/ (open /\ next) THEN 1 ELSE pair + 1
  BY DEF dopa2
<1>4. pairstack' \in [Places -> {0, 1}] /\ \A p \in Places \ {n} : pairstack'[p] = pairstack[p]
  BY <1>3 DEF RangeInv
<1>5. (pairstack'[n] = 1) = ((pairstack[n] = 1 \/ first) /\ ~last)
  BY <1>2, <1>3 DEF RangeInv
<1>6. pair' \in DOMAIN slots[i]
  BY <1>1, <1>2, <1>3
<1>7. \A j \in Interp : \A k \in DOMAIN slots[j] : j # i \/ k # pair => slots[j][k] # n
  BY <1>1 DEF RangeInv, Apart
<1> HIDE DEF n
<1>8. Given' /\ Apart'
  BY <1>1 DEF RangeInv, Given, Apart
<1>9. Closed'
  <2>1. ASSUME NEW p \in Places, p >= paircnt PROVE pairstack'[p] = 0
    BY <1>2, <1>4, <2>1 DEF RangeInv, Closed, Places
  <2>2. ASSUME NEW j \in Interp, status[j] = "COMPILING", NEW k \in DOMAIN slots[j]
        PROVE  pairstack'[slots[j][k]] = 0
    BY <1>1, <1>2, <1>4, <1>7, <2>2 DEF RangeInv, Closed
  <2> QED
    BY <1>1, <2>1, <2>2 DEF Closed
<1>10. Turns'
  BY <1>1, <1>6 DEF RangeInv, Turns, dopa2
<1>11. \E b \in BOOLEAN, c \in BOOLEAN :
         OpenRanges' = [OpenRanges EXCEPT ![i][pair] = (@ \/ b) /\ ~c]
  <2> DEFINE own   == [k \in DOMAIN slots[i] |-> pairstack[slots[i][k]] = 1]
             moved == [k \in DOMAIN slots[i] |-> pairstack'[slots[i][k]] = 1]
  <2>1. OpenRanges[i] = own /\ OpenRanges'[i] = moved
    BY <1>1 DEF OpenRanges
  <2>2. \A j \in Interp \ {i} : OpenRanges'[j] = OpenRanges[j]
    <3> SUFFICES ASSUME NEW j \in Interp \ {i} PROVE OpenRanges'[j] = OpenRanges[j]
      OBVIOUS
    <3>1. \A k \in DOMAIN slots[j] : pairstack'[slots[j][k]] = pairstack[slots[j][k]]
      BY <1>2, <1>4, <1>7
    <3> QED
      BY <1>1, <3>1 DEF OpenRanges
  <2>3. \A k \in DOMAIN slots[i] \ {pair} : pairstack'[slots[i][k]] = pairstack[slots[i][k]]
    BY <1>2, <1>4, <1>7
  <2>4. moved[pair] = ((own[pair] \/ first) /\ ~last)
    BY <1>1, <1>5 DEF n
  <2>5. moved = [own EXCEPT ![pair] = (@ \/ first) /\ ~last]
    BY <1>1, <2>3, <2>4, Zenon
  <2> HIDE DEF own, moved
  <2>6. OpenRanges' = [OpenRanges EXCEPT ![i] = moved]
    <3>1. /\ OpenRanges = [j \in Interp |-> OpenRanges[j]]
          /\ OpenRanges' = [j \in Interp |-> OpenRanges'[j]]
      BY DEF OpenRanges
    <3> QED
      BY <2>1, <2>2, <3>1, Zenon
  <2>7. OpenRanges' = [OpenRanges EXCEPT ![i][pair] = (@ \/ first) /\ ~last]
    BY <2>1, <2>5, <2>6, Zenon
  <2> QED
    BY <1>3, <2>7, Zenon
<1>12. pair \in DOMAIN OpenRanges[i]
  BY <1>1 DEF OpenRanges
<1>13. Ideal!Record(i)
  BY <1>11, <1>12, Zenon DEF Ideal!Record
<1> QED
  BY <1>1, <1>4, <1>8, <1>9, <1>10, <1>13 DEF RangeInv, Ideal!Next

\* A program whose status changes keeps its ranges where they are, or drops them.
LEMMA StatusKeeps ==
  ASSUME RangeInv, NEW i \in Interp, NEW s \in Statuses,
         status' = [status EXCEPT ![i] = s], UNCHANGED <<paircnt, pairstack>>,
         \/ slots' = slots /\ s \notin {"none", "INIT", "COMPILING"}
         \/ slots' = slots /\ slots[i] = <<>>
         \/ slots' = [slots EXCEPT ![i] = <<>>],
         s \in {"COMPILED", "RUN"} => status[i] \in {"COMPILED", "RUN"} /\ slots' = slots,
         Turns'
  PROVE  RangeInv' /\ [Ideal!Next]_OpenRanges
<1>1. <<>> \in Seq(Places) /\ Len(<<>>) = 0 /\ DOMAIN <<>> = {} /\ PA2NUM \in Nat
  BY EmptySeq, ProgramsAssumption
<1>2. slots' \in [Interp -> Seq(Places)] /\ status' \in [Interp -> Statuses]
  BY <1>1 DEF RangeInv
<1>3. status'[i] = s /\ \A j \in Interp \ {i} : status'[j] = status[j] /\ slots'[j] = slots[j]
  BY DEF RangeInv
<1>4. slots'[i] \in {slots[i], <<>>}
  BY DEF RangeInv
<1>5. s \in {"none", "INIT", "COMPILING"} => slots'[i] = <<>>
  BY DEF RangeInv
<1>6. Given'
  <2> SUFFICES ASSUME NEW j \in Interp
               PROVE  /\ Len(slots'[j]) <= PA2NUM /\ Len(slots'[j]) <= paircnt'
                      /\ \A k \in DOMAIN slots'[j] : slots'[j][k] < paircnt'
                      /\ status'[j] \in {"none", "INIT"} => slots'[j] = <<>>
    BY DEF Given
  <2>1. /\ Len(slots[j]) <= PA2NUM /\ Len(slots[j]) <= paircnt
        /\ \A k \in DOMAIN slots[j] : slots[j][k] < paircnt
        /\ status[j] \in {"none", "INIT"} => slots[j] = <<>>
    BY DEF RangeInv, Given
  <2>2. CASE j = i
    BY <1>1, <1>3, <1>4, <1>5, <2>1, <2>2 DEF RangeInv
  <2>3. CASE j # i
    BY <1>3, <2>1, <2>3
  <2> QED
    BY <2>2, <2>3
<1>7. \A j \in Interp : \A k \in DOMAIN slots'[j] :
        k \in DOMAIN slots[j] /\ slots'[j][k] = slots[j][k]
  BY <1>1, <1>3, <1>4
<1>8. Apart'
  BY <1>7 DEF RangeInv, Apart
<1>9. Closed'
  BY <1>1, <1>3, <1>5, <1>7 DEF RangeInv, Closed
<1>10. [Ideal!Next]_OpenRanges
  <2>1. \A j \in Interp \ {i} : OpenRanges'[j] = OpenRanges[j]
    BY <1>3 DEF OpenRanges
  <2>2. CASE s \in {"COMPILED", "RUN"}
    <3>1. OpenRanges'[i] = OpenRanges[i]
      BY <1>3, <2>2 DEF OpenRanges
    <3> QED
      BY <2>1, <3>1 DEF OpenRanges
  <2>3. CASE s \notin {"COMPILED", "RUN"}
    <3>1. OpenRanges'[i] = <<>>
      BY <1>3, <2>3 DEF OpenRanges
    <3>2. OpenRanges' = [OpenRanges EXCEPT ![i] = <<>>]
      BY <2>1, <3>1 DEF OpenRanges
    <3> QED
      BY <3>2 DEF Ideal!Next, Ideal!Dropped
  <2> QED
    BY <2>2, <2>3
<1> QED
  BY <1>2, <1>6, <1>8, <1>9, <1>10 DEF RangeInv

\* The other operations: they move no range.
LEMMA OthersKeep ==
  ASSUME RangeInv, NEW i \in Interp,
         \/ awk_init(i) \/ awk_setprog(i) \/ awk_addprogfile(i) \/ awk_end(i)
         \/ awk_compile(i) \/ awk_exec(i) \/ makedfa(i) \/ Returns(i)
  PROVE  RangeInv' /\ [Ideal!Next]_OpenRanges
<1>1. CASE UNCHANGED <<status, paircnt, pairstack, slots, parsing, running, pair>>
  BY <1>1 DEF RangeInv, Given, Apart, Closed, Turns, OpenRanges
<1>2. Unlocked => parsing.of = None /\ running = None
  BY DEF Unlocked
<1>3. CASE awk_init(i)
  <2>1. Turns' /\ slots[i] = <<>>
    BY <1>2, <1>3 DEF awk_init, compiler, RangeInv, Turns, Given
  <2> QED
    BY <1>3, <2>1, StatusKeeps DEF awk_init, compiler, Statuses
<1>4. CASE awk_end(i)
  <2>1. Turns'
    BY <1>2, <1>4 DEF awk_end, RangeInv, Turns
  <2> QED
    BY <1>4, <2>1, StatusKeeps DEF awk_end, Statuses
<1>5. CASE awk_compile(i)
  <2>1. "of" \in DOMAIN parsing' /\ parsing'.of = i
    BY <1>5 DEF awk_compile, NotParsing
  <2>2. Turns' /\ slots[i] = <<>>
    BY <1>2, <1>5, <2>1 DEF awk_compile, RangeInv, Turns, Given
  <2> QED
    BY <1>5, <2>2, StatusKeeps DEF awk_compile, Statuses
<1>6. CASE awk_exec(i)
  <2>1. slots[i] # <<>> => 1 \in DOMAIN slots[i]
    BY LenProperties, EmptySeq DEF RangeInv
  <2>2. Turns'
    BY <1>2, <1>6, <2>1 DEF awk_exec, RangeInv, Turns
  <2> QED
    BY <1>6, <2>2, StatusKeeps DEF awk_exec, Statuses
<1>7. ASSUME NEW s \in {"COMPILED", "DONE"}, running = i, Stops(i, s),
             UNCHANGED <<paircnt, pairstack, slots, parsing>>
      PROVE  RangeInv' /\ [Ideal!Next]_OpenRanges
  <2>1. status[i] = "RUN"
    BY <1>7, ProgramsAssumption DEF RangeInv, Turns
  <2>2. parsing.of # None => parsing.of # i
    BY <2>1 DEF RangeInv, Turns
  <2>3. Turns'
    BY <1>7, <2>2 DEF Stops, RangeInv, Turns
  <2> QED
    BY <1>7, <2>1, <2>3, StatusKeeps DEF Stops, Statuses
<1>8. CASE Returns(i)
  BY <1>7, <1>8 DEF Returns, compiler
<1>9. CASE makedfa(i)
  <2>1. PICK s : Hit(i, s) \/ Miss(i, s) \/ Unusable(i, s)
    BY <1>9 DEF makedfa
  <2>2. CASE Unusable(i, s)
    BY <1>7, <1>9, <2>2 DEF makedfa, Unusable, compiler
  <2> QED
    BY <1>1, <1>9, <2>1, <2>2 DEF makedfa, Hit, Miss, compiler
<1> QED
  BY <1>1, <1>3, <1>4, <1>5, <1>6, <1>8, <1>9 DEF awk_setprog, awk_addprogfile, compiler

LEMMA RangeStep == RangeInv /\ [Next]_vars => RangeInv' /\ [Ideal!Next]_OpenRanges
<1> SUFFICES ASSUME RangeInv, [Next]_vars PROVE RangeInv' /\ [Ideal!Next]_OpenRanges
  OBVIOUS
<1>1. ASSUME NEW i \in Interp, yyparse(i) PROVE RangeInv' /\ [Ideal!Next]_OpenRanges
  BY <1>1, TokenStep, ThrownKeeps, ShiftedKeeps
<1>2. CASE UNCHANGED vars
  BY <1>2 DEF vars, compiler, RangeInv, Given, Apart, Closed, Turns, OpenRanges
<1> QED
  BY <1>1, <1>2, RecordKeeps, OthersKeep DEF Next

LEMMA RangesStart == Init => RangeInv /\ Ideal!Init
<1> SUFFICES ASSUME Init PROVE RangeInv /\ Ideal!Init
  OBVIOUS
<1>1. <<>> \in Seq(Places) /\ Len(<<>>) = 0 /\ DOMAIN <<>> = {} /\ PA2NUM \in Nat
  BY EmptySeq, ProgramsAssumption
<1>2. /\ paircnt \in Nat /\ pairstack \in [Places -> {0, 1}]
      /\ slots \in [Interp -> Seq(Places)] /\ status \in [Interp -> Statuses]
  BY <1>1 DEF Init, Places, Statuses
<1>3. Given /\ Apart
  BY <1>1 DEF Init, Given, Apart
<1>4. Closed /\ Turns
  BY <1>1 DEF Init, Closed, Turns, NotParsing, Places
<1>5. Ideal!Init
  BY DEF Init, OpenRanges, Ideal!Init
<1> QED
  BY <1>2, <1>3, <1>4, <1>5 DEF RangeInv

\* The ranges of a program are its own, for any number of interpreters in the
\* process, any programs and any size of the table: in any order of
\* compilations, runs and deletions, each starts closed and is moved by the
\* records of its program alone.
THEOREM RangesAreOwn == Spec => ImplementsRangePatterns
BY RangesStart, RangeStep, PTL DEF Spec, ImplementsRangePatterns, Ideal!Spec
-----------------------------------------------------------------------------
(* What a stack of the parser still closes: each symbol that stands for    *)
(* the rest of a construct closes one brace or one parenthesis, and one    *)
(* that is expected opens one.                                             *)
\* What is left of a block, and of a list in parentheses, closes it.
Closes(k) == IF k = "{" THEN {"}", "stmtlist", "inner"}
              ELSE {")", "group", "plist", "args", "patlist"}

Weight(k, sym) == IF sym = k THEN -1 ELSE IF sym \in Closes(k) THEN 1 ELSE 0

Closer(k) == IF k = "{" THEN "}" ELSE ")"

Delta(k, tok) == IF tok = k THEN 1 ELSE IF tok = Closer(k) THEN -1 ELSE 0

Pairs == {"{", "("}

\* f is what is owed at each place of s, from the last one on.
Sums(k, s, f) == /\ f \in [1..Len(s) + 1 -> Nat]
                 /\ \A j \in 1..Len(s) : f[j] = f[j + 1] + Weight(k, s[j])

\* s closes all of the a that are open but b.
Pays(k, s, a, b) == \E f : Sums(k, s, f) /\ f[1] = a /\ f[Len(s) + 1] = b

LEMMA WeightInt == \A k, sym : Weight(k, sym) \in {-1, 0, 1}
BY DEF Weight

LEMMA PaysNone ==
  ASSUME NEW k, NEW b \in Nat
  PROVE  Pays(k, <<>>, b, b)
<1> DEFINE f == [j \in 1..1 |-> b]
<1>1. Sums(k, <<>>, f) /\ f[1] = b
  BY DEF Sums
<1> QED
  BY <1>1 DEF Pays

LEMMA PaysOne ==
  ASSUME NEW k, NEW x, NEW b \in Nat, b + Weight(k, x) \in Nat
  PROVE  Pays(k, <<x>>, b + Weight(k, x), b)
<1> DEFINE f == [j \in 1..2 |-> IF j = 1 THEN b + Weight(k, x) ELSE b]
<1>1. Sums(k, <<x>>, f) /\ f[1] = b + Weight(k, x) /\ f[2] = b
  BY DEF Sums
<1> QED
  BY <1>1 DEF Pays

LEMMA PaysConcat ==
  ASSUME NEW k, NEW S, NEW s \in Seq(S), NEW t \in Seq(S), NEW a, NEW b, NEW c,
         Pays(k, s, a, b), Pays(k, t, b, c)
  PROVE  Pays(k, s \o t, a, c)
<1>1. PICK f : Sums(k, s, f) /\ f[1] = a /\ f[Len(s) + 1] = b
  BY DEF Pays
<1>2. PICK g : Sums(k, t, g) /\ g[1] = b /\ g[Len(t) + 1] = c
  BY DEF Pays
<1> DEFINE u == s \o t
           m == Len(s)
           n == Len(t)
           h == [j \in 1..Len(u) + 1 |-> IF j <= m THEN f[j] ELSE g[j - m]]
<1>3. /\ m \in Nat /\ n \in Nat /\ Len(u) = m + n
      /\ \A j \in 1..m : u[j] = s[j]
      /\ \A j \in 1..n : u[m + j] = t[j]
  BY ConcatProperties, LenProperties
<1>4. f \in [1..m + 1 -> Nat] /\ g \in [1..n + 1 -> Nat]
  BY <1>1, <1>2 DEF Sums
<1> HIDE DEF u
<1>5. h \in [1..Len(u) + 1 -> Nat]
  BY <1>3, <1>4
<1>6. ASSUME NEW j \in 1..Len(u) PROVE h[j] = h[j + 1] + Weight(k, u[j])
  <2>1. CASE j <= m
    <3>1. f[j] = f[j + 1] + Weight(k, s[j]) /\ u[j] = s[j]
      BY <1>1, <1>3, <2>1 DEF Sums
    <3>2. h[j + 1] = f[j + 1]
      BY <1>1, <1>2, <1>3, <2>1
    <3> QED
      BY <1>3, <2>1, <3>1, <3>2
  <2>2. CASE ~(j <= m)
    <3> DEFINE i == j - m
    <3>1. i \in 1..n /\ j = m + i
      BY <1>3, <2>2
    <3>2. g[i] = g[i + 1] + Weight(k, t[i]) /\ u[m + i] = t[i]
      BY <1>2, <1>3, <3>1 DEF Sums
    <3>3. h[j] = g[i] /\ h[j + 1] = g[i + 1]
      BY <1>3, <2>2, <3>1
    <3> QED
      BY <3>1, <3>2, <3>3
  <2> QED
    BY <2>1, <2>2
<1>7. h[1] = a /\ h[Len(u) + 1] = c
  BY <1>1, <1>2, <1>3
<1>8. Sums(k, u, h)
  BY <1>5, <1>6 DEF Sums
<1> HIDE DEF h
<1> QED
  BY <1>7, <1>8 DEF Pays, u

\* The part of a stack after a place.
LEMMA PaysAfter ==
  ASSUME NEW k, NEW S, NEW s \in Seq(S), NEW a, NEW b, Pays(k, s, a, b),
         NEW j \in 1..Len(s), \A i \in 1..j - 1 : Weight(k, s[i]) = 0
  PROVE  \E c \in Nat : a = c + Weight(k, s[j]) /\ Pays(k, SubSeq(s, j + 1, Len(s)), c, b)
<1>1. PICK f : Sums(k, s, f) /\ f[1] = a /\ f[Len(s) + 1] = b
  BY DEF Pays
<1> DEFINE t == SubSeq(s, j + 1, Len(s))
           g == [i \in 1..Len(t) + 1 |-> f[i + j]]
<1>2. /\ Len(s) \in Nat /\ Len(t) = Len(s) - j
      /\ \A i \in 1..Len(t) : t[i] = s[i + j]
  <2>1. Len(s) \in Nat /\ j \in Nat /\ j + 1 \in 1..Len(s) + 1
          /\ Len(s) \in (j + 1) - 1 .. Len(s)
    BY LenProperties
  <2>2. Len(t) = Len(s) - (j + 1) + 1
    BY <2>1, SubSeqProperties
  <2>3. \A i \in 1..Len(s) - (j + 1) + 1 : t[i] = s[(j + 1) + i - 1]
    BY <2>1, SubSeqProperties
  <2>4. \A i \in 1..Len(t) : (j + 1) + i - 1 = i + j
    BY <2>1
  <2> QED
    BY <2>1, <2>2, <2>3, <2>4
<1>3. f \in [1..Len(s) + 1 -> Nat]
  BY <1>1 DEF Sums
<1> HIDE DEF t
<1>4. Sums(k, t, g)
  <2>1. g \in [1..Len(t) + 1 -> Nat]
    BY <1>2, <1>3
  <2>2. ASSUME NEW i \in 1..Len(t) PROVE g[i] = g[i + 1] + Weight(k, t[i])
    <3>1. i + j \in 1..Len(s) /\ (i + 1) + j = (i + j) + 1 /\ i \in 1..Len(t) + 1
          /\ i + 1 \in 1..Len(t) + 1
      BY <1>2
    <3>2. f[i + j] = f[(i + j) + 1] + Weight(k, s[i + j])
      BY <1>1, <3>1 DEF Sums
    <3> QED
      BY <1>2, <3>1, <3>2
  <2> QED
    BY <2>1, <2>2 DEF Sums
<1>5. g[1] = f[j + 1] /\ g[Len(t) + 1] = b
  BY <1>1, <1>2
<1>6. f[j] = a
  <2> DEFINE Bad == {i \in 1..j : f[i] # a}
  <2> SUFFICES ASSUME Bad # {} PROVE FALSE
    BY <1>2
  <2>1. PICK i \in Bad : \A m \in Bad : i <= m
    <3>1. Bad \subseteq Nat
      OBVIOUS
    <3> QED
      BY <3>1, LeastOf
  <2>2. i # 1 /\ i \in 1..j
    BY <1>1, <2>1
  <2>3. i - 1 \in 1..j - 1 /\ i - 1 \in 1..j /\ ~(i <= i - 1) /\ i - 1 \in 1..Len(s)
          /\ (i - 1) + 1 = i
    BY <1>2, <2>2
  <2>4. f[i - 1] = a /\ f[i - 1] = f[(i - 1) + 1] + Weight(k, s[i - 1])
          /\ Weight(k, s[i - 1]) = 0
    BY <1>1, <2>1, <2>3 DEF Sums
  <2>5. f[i] \in Nat
    BY <1>2, <1>3, <2>2
  <2> QED
    BY <2>1, <2>3, <2>4, <2>5
<1>7. f[j] = f[j + 1] + Weight(k, s[j]) /\ f[j + 1] \in Nat
  BY <1>1, <1>2, <1>3 DEF Sums
<1> HIDE DEF g
<1>8. Pays(k, t, f[j + 1], b)
  BY <1>4, <1>5 DEF Pays
<1> QED
  BY <1>6, <1>7, <1>8 DEF t

LEMMA PaysTwo ==
  ASSUME NEW k, NEW x, NEW y, NEW b \in Nat, b + Weight(k, y) \in Nat,
         b + Weight(k, y) + Weight(k, x) \in Nat
  PROVE  Pays(k, <<x, y>>, b + Weight(k, y) + Weight(k, x), b)
<1> DEFINE c == b + Weight(k, y)
           a == c + Weight(k, x)
           f == [j \in 1..3 |-> IF j = 1 THEN a ELSE IF j = 2 THEN c ELSE b]
           s == <<x, y>>
<1>1. f \in [1..3 -> Nat]
  OBVIOUS
<1>2. Len(s) = 2 /\ s[1] = x /\ s[2] = y
  OBVIOUS
<1>3. f[1] = a /\ f[2] = c /\ f[3] = b
  OBVIOUS
<1>4. c = b + Weight(k, y) /\ a = c + Weight(k, x)
  OBVIOUS
<1> HIDE DEF a, c, f, s
<1>5. Sums(k, s, f)
  <2>1. \A j \in 1..2 : j = 1 \/ j = 2
    OBVIOUS
  <2> QED
    BY <1>1, <1>2, <1>3, <1>4, <2>1 DEF Sums
<1>6. Pays(k, s, a, b)
  BY <1>2, <1>3, <1>5 DEF Pays
<1> QED
  BY <1>6 DEF a, c, s

LEMMA PaysThree ==
  ASSUME NEW k, NEW x, NEW y, NEW z, NEW b \in Nat, b + Weight(k, z) \in Nat,
         b + Weight(k, z) + Weight(k, y) \in Nat,
         b + Weight(k, z) + Weight(k, y) + Weight(k, x) \in Nat
  PROVE  Pays(k, <<x, y, z>>, b + Weight(k, z) + Weight(k, y) + Weight(k, x), b)
<1> DEFINE d == b + Weight(k, z)
           c == d + Weight(k, y)
           a == c + Weight(k, x)
           f == [j \in 1..4 |-> IF j = 1 THEN a ELSE IF j = 2 THEN c ELSE IF j = 3 THEN d ELSE b]
           s == <<x, y, z>>
<1>1. f \in [1..4 -> Nat]
  OBVIOUS
<1>2. Len(s) = 3 /\ s[1] = x /\ s[2] = y /\ s[3] = z
  OBVIOUS
<1>3. f[1] = a /\ f[2] = c /\ f[3] = d /\ f[4] = b
  OBVIOUS
<1>4. d = b + Weight(k, z) /\ c = d + Weight(k, y) /\ a = c + Weight(k, x)
  OBVIOUS
<1> HIDE DEF a, c, d, f, s
<1>5. Sums(k, s, f)
  <2>1. \A j \in 1..3 : j = 1 \/ j = 2 \/ j = 3
    OBVIOUS
  <2> QED
    BY <1>1, <1>2, <1>3, <1>4, <2>1 DEF Sums
<1>6. Pays(k, s, a, b)
  BY <1>2, <1>3, <1>5 DEF Pays
<1> QED
  BY <1>6 DEF a, c, d, s
-----------------------------------------------------------------------------
(* The rules of the grammar: what a rule puts on the stack closes what the *)
(* symbol it is for would have closed, and what its token opens.           *)
Toks == {"VAR", "CALL", "BEGIN", "(", ")", "{", "}", "/", ";", ",", NL}

Symbols == {"VAR", "CALL", "BEGIN", "(", ")", "{", "}", "/", ";", ",", "IN", "REGEXPR",
            "opt_nl", "stmt", "stmtlist", "inner", "st", "pas", "pa_stat", "pa2stat", "range",
            "pattern", "more", "more_re", "term", "close", "group", "plist", "args", "patlist",
            NL, EOT}

\* Only a slash has REGEXPR expected next, and nothing has it expected later.
Plain(tok, rest) == /\ rest \in Seq(Symbols)
                    /\ \A j \in 1..Len(rest) : /\ rest[j] \notin {"pas", EOT}
                                               /\ rest[j] = "REGEXPR" => j = 1 /\ tok = "/"

Settles(k, rest, w) == \A b \in Nat : Pays(k, rest, b + w, b)

Lawful(k, rules, w) ==
  \A tok \in DOMAIN rules : /\ tok \in Toks
                            /\ Plain(tok, rules[tok])
                            /\ Settles(k, rules[tok], w + Delta(k, tok))

LEMMA LawfulOn ==
  ASSUME NEW k, NEW tok \in Toks, NEW rest, NEW w,
         Plain(tok, rest), Settles(k, rest, w + Delta(k, tok))
  PROVE  Lawful(k, On(tok, rest), w)
BY DEF Lawful, On

LEMMA LawfulOr ==
  ASSUME NEW k, NEW r, NEW q, NEW w, Lawful(k, r, w), Lawful(k, q, w)
  PROVE  Lawful(k, r | q, w)
<1> SUFFICES ASSUME NEW tok \in DOMAIN (r | q)
             PROVE  /\ tok \in Toks
                    /\ Plain(tok, (r | q)[tok])
                    /\ Settles(k, (r | q)[tok], w + Delta(k, tok))
  BY DEF Lawful
<1>1. CASE tok \in DOMAIN r
  <2>1. (r | q)[tok] = r[tok]
    BY <1>1 DEF |
  <2> QED
    BY <1>1, <2>1 DEF Lawful
<1>2. CASE tok \notin DOMAIN r
  <2>1. (r | q)[tok] = q[tok] /\ tok \in DOMAIN q
    BY <1>2 DEF |
  <2> QED
    BY <2>1 DEF Lawful
<1> QED
  BY <1>1, <1>2

LEMMA DeltaInt == \A k, tok : Delta(k, tok) \in {-1, 0, 1}
BY DEF Delta

LEMMA SettlesConcat ==
  ASSUME NEW k, NEW S, NEW s \in Seq(S), NEW t \in Seq(S), NEW v \in Int, NEW w \in Int,
         Settles(k, s, v), Settles(k, t, w), \A b \in Nat : b + w \in Nat
  PROVE  Settles(k, s \o t, v + w)
<1> SUFFICES ASSUME NEW b \in Nat PROVE Pays(k, s \o t, b + (v + w), b)
  BY DEF Settles
<1>1. Pays(k, t, b + w, b) /\ b + w \in Nat
  BY DEF Settles
<1>2. Pays(k, s, (b + w) + v, b + w)
  BY <1>1 DEF Settles
<1>3. (b + w) + v = b + (v + w)
  OBVIOUS
<1> QED
  BY <1>1, <1>2, <1>3, PaysConcat

\* A part of every rule that nothing of this kind can be in.
Neutral(rest) == /\ rest \in Seq(Symbols)
                 /\ \A j \in 1..Len(rest) : rest[j] \notin {"pas", EOT, "REGEXPR"}

LEMMA PlainConcat ==
  ASSUME NEW tok, NEW s, NEW t, Plain(tok, s), Neutral(t)
  PROVE  Plain(tok, s \o t)
<1>1. s \in Seq(Symbols) /\ t \in Seq(Symbols)
  BY DEF Plain, Neutral
<1>2. /\ s \o t \in Seq(Symbols) /\ Len(s \o t) = Len(s) + Len(t)
      /\ Len(s) \in Nat /\ Len(t) \in Nat
      /\ \A j \in 1..Len(s) : (s \o t)[j] = s[j]
      /\ \A j \in 1..Len(t) : (s \o t)[Len(s) + j] = t[j]
  BY <1>1, ConcatProperties, LenProperties
<1>3. ASSUME NEW j \in 1..Len(s \o t)
      PROVE  /\ (s \o t)[j] \notin {"pas", EOT}
             /\ (s \o t)[j] = "REGEXPR" => j = 1 /\ tok = "/"
  <2>1. CASE j <= Len(s)
    BY <1>2, <2>1 DEF Plain
  <2>2. CASE ~(j <= Len(s))
    <3>1. j - Len(s) \in 1..Len(t) /\ Len(s) + (j - Len(s)) = j
      BY <1>2, <2>2
    <3>2. (s \o t)[j] = t[j - Len(s)]
      BY <1>2, <3>1
    <3> QED
      BY <3>1, <3>2 DEF Neutral
  <2> QED
    BY <2>1, <2>2
<1> QED
  BY <1>2, <1>3 DEF Plain

LEMMA LawfulThen ==
  ASSUME NEW k, NEW rules, NEW rest, NEW v \in Int, NEW w \in Int, Lawful(k, rules, v),
         Neutral(rest), Settles(k, rest, w), \A b \in Nat : b + w \in Nat
  PROVE  Lawful(k, Then(rules, rest), v + w)
<1> SUFFICES ASSUME NEW tok \in DOMAIN rules
             PROVE  /\ tok \in Toks
                    /\ Plain(tok, rules[tok] \o rest)
                    /\ Settles(k, rules[tok] \o rest, (v + w) + Delta(k, tok))
  BY DEF Lawful, Then
<1>1. tok \in Toks /\ Plain(tok, rules[tok]) /\ Settles(k, rules[tok], v + Delta(k, tok))
  BY DEF Lawful
<1>2. Plain(tok, rules[tok] \o rest)
  BY <1>1, PlainConcat
<1>3. v + Delta(k, tok) \in Int
  BY DeltaInt
<1>4. Settles(k, rules[tok] \o rest, (v + Delta(k, tok)) + w)
  <2>1. rules[tok] \in Seq(Symbols) /\ rest \in Seq(Symbols)
    BY <1>1 DEF Plain, Neutral
  <2> QED
    BY <1>1, <1>3, <2>1, SettlesConcat
<1>5. (v + Delta(k, tok)) + w = (v + w) + Delta(k, tok)
  BY DeltaInt
<1> QED
  BY <1>1, <1>2, <1>4, <1>5

LEMMA SettlesNone == \A k : Settles(k, <<>>, 0)
BY PaysNone DEF Settles

LEMMA SettlesOne ==
  ASSUME NEW k, NEW x, \A b \in Nat : b + Weight(k, x) \in Nat
  PROVE  Settles(k, <<x>>, Weight(k, x))
BY PaysOne DEF Settles

LEMMA SettlesTwo ==
  ASSUME NEW k, NEW x, NEW y, NEW w, w = Weight(k, y) + Weight(k, x),
         Weight(k, y) \in Nat, w \in Nat
  PROVE  Settles(k, <<x, y>>, w)
<1> SUFFICES ASSUME NEW b \in Nat PROVE Pays(k, <<x, y>>, b + w, b)
  BY DEF Settles
<1>1. b + Weight(k, y) \in Nat /\ b + Weight(k, y) + Weight(k, x) \in Nat
      /\ b + Weight(k, y) + Weight(k, x) = b + w
  BY WeightInt
<1> QED
  BY <1>1, PaysTwo

LEMMA SettlesThree ==
  ASSUME NEW k, NEW x, NEW y, NEW z, NEW w, w = Weight(k, z) + Weight(k, y) + Weight(k, x),
         Weight(k, z) \in Nat, Weight(k, z) + Weight(k, y) \in Nat, w \in Nat
  PROVE  Settles(k, <<x, y, z>>, w)
<1> SUFFICES ASSUME NEW b \in Nat PROVE Pays(k, <<x, y, z>>, b + w, b)
  BY DEF Settles
<1>1. /\ b + Weight(k, z) \in Nat /\ b + Weight(k, z) + Weight(k, y) \in Nat
      /\ b + Weight(k, z) + Weight(k, y) + Weight(k, x) \in Nat
      /\ b + Weight(k, z) + Weight(k, y) + Weight(k, x) = b + w
  BY WeightInt
<1> QED
  BY <1>1, PaysThree

LEMMA ZeroOne == 0 \in Int /\ 0 \in Nat /\ 1 \in Nat
OBVIOUS

LEMMA NatInt == \A x \in Nat : x \in Int
OBVIOUS

LEMMA PlusZero == \A x \in Int : 0 + x \in Int /\ (0 + x) + 0 = 0 + x
  /\ \A y \in Nat : 0 + y = y
OBVIOUS

LEMMA WeightInInt == \A k, sym : Weight(k, sym) \in Int
BY WeightInt

LEMMA PlusNone == \A b \in Nat : b + 0 \in Nat
OBVIOUS

\* The rules of one token, by the number of symbols they put on the stack.
LEMMA OnNone ==
  ASSUME NEW k, NEW tok \in Toks, NEW w \in Int,
         (w = 0 /\ Delta(k, tok) = 0) \/ Delta(k, tok) + w = 0
  PROVE  Lawful(k, On(tok, <<>>), w)
<1>1. Plain(tok, <<>>)
  BY DEF Plain
<1>2. w + Delta(k, tok) = 0
  BY DeltaInt
<1>3. Settles(k, <<>>, w + Delta(k, tok))
  BY <1>2, SettlesNone
<1> QED
  BY <1>1, <1>3, LawfulOn

LEMMA OnOne ==
  ASSUME NEW k, NEW tok \in Toks, NEW x, NEW w \in Int, Plain(tok, <<x>>),
         Weight(k, x) = 0, (w = 0 /\ Delta(k, tok) = 0) \/ Delta(k, tok) + w = 0
  PROVE  Lawful(k, On(tok, <<x>>), w)
<1>1. w + Delta(k, tok) = 0
  BY DeltaInt
<1>2. Settles(k, <<x>>, 0)
  BY SettlesOne
<1> QED
  BY <1>1, <1>2, LawfulOn

LEMMA OnTwo ==
  ASSUME NEW k, NEW tok \in Toks, NEW x, NEW y, Plain(tok, <<x, y>>), Weight(k, y) \in Nat,
         \/ Weight(k, x) + Weight(k, y) = 0 /\ Delta(k, tok) = 0
         \/ Weight(k, x) = 0 /\ Weight(k, y) = Delta(k, tok)
  PROVE  Lawful(k, On(tok, <<x, y>>), 0)
<1>1. Settles(k, <<x, y>>, 0 + Delta(k, tok))
  BY SettlesTwo, WeightInt, DeltaInt
<1> QED
  BY <1>1, LawfulOn

LEMMA OnThree ==
  ASSUME NEW k, NEW tok \in Toks, NEW x, NEW y, NEW z, NEW w \in Int, Plain(tok, <<x, y, z>>),
         Weight(k, x) = 0, Weight(k, y) = 0, Weight(k, z) \in Nat,
         \/ w = 0 /\ Weight(k, z) = Delta(k, tok)
         \/ Delta(k, tok) = 0 /\ Weight(k, z) = w
  PROVE  Lawful(k, On(tok, <<x, y, z>>), w)
<1>1. Settles(k, <<x, y, z>>, w + Delta(k, tok))
  BY SettlesThree, DeltaInt
<1> QED
  BY <1>1, LawfulOn

\* What each symbol of the grammar still closes.
Flat == {"opt_nl", "stmt", "pas", "pa_stat", "pa2stat", "range", "st", "pattern", "more",
         "more_re", "term", "close", "REGEXPR", "IN"}

LEMMA FlatWeight ==
  ASSUME NEW k \in Pairs, NEW x \in Flat
  PROVE  Weight(k, x) = 0
BY DEF Flat, Pairs, Weight, Closes

LEMMA FlatDelta ==
  ASSUME NEW k \in Pairs, NEW x \in {"VAR", "CALL", "BEGIN", "/", ";", ",", NL, EOT, "REGEXPR", "IN"}
  PROVE  Delta(k, x) = 0
BY DEF Pairs, Delta, Closer, NL, EOT

LEMMA OpposedSum == 1 + (-1) = 0 /\ (-1) + 1 = 0 /\ 0 + 0 = 0
OBVIOUS

LEMMA BraceWeights ==
  ASSUME NEW k \in Pairs
  PROVE  /\ Weight(k, "{") + Delta(k, "{") = 0
         /\ \A x \in {"inner", "stmtlist"} : Weight(k, x) = Delta(k, "{")
         /\ Delta(k, "}") + Delta(k, "{") = 0 /\ Delta(k, "{") \in Nat
<1>1. \A x \in {"inner", "stmtlist"} : Weight(k, x) = Delta(k, "{")
  BY DEF Pairs, Weight, Closes, Delta, Closer
<1>2. CASE k = "{"
  <2>1. Weight(k, "{") = -1 /\ Delta(k, "}") = -1 /\ Delta(k, "{") = 1
    BY <1>2 DEF Weight, Closes, Delta, Closer
  <2> QED
    BY <1>1, <2>1, ZeroOne, OpposedSum, Zenon
<1>3. CASE k = "("
  <2>1. Weight(k, "{") = 0 /\ Delta(k, "}") = 0 /\ Delta(k, "{") = 0
    BY <1>3 DEF Weight, Closes, Delta, Closer
  <2> QED
    BY <1>1, <2>1, ZeroOne, OpposedSum, Zenon
<1> QED
  BY <1>2, <1>3 DEF Pairs

LEMMA ParenWeights ==
  ASSUME NEW k \in Pairs
  PROVE  /\ Weight(k, "(") + Delta(k, "(") = 0
         /\ \A x \in {")", "group", "plist", "args", "patlist"} : Weight(k, x) = Delta(k, "(")
         /\ Delta(k, ")") + Delta(k, "(") = 0 /\ Delta(k, "(") \in Nat
<1>1. \A x \in {")", "group", "plist", "args", "patlist"} : Weight(k, x) = Delta(k, "(")
  BY DEF Pairs, Weight, Closes, Delta, Closer
<1>2. CASE k = "{"
  <2>1. Weight(k, "(") = 0 /\ Delta(k, ")") = 0 /\ Delta(k, "(") = 0
    BY <1>2 DEF Weight, Closes, Delta, Closer
  <2> QED
    BY <1>1, <2>1, ZeroOne, OpposedSum, Zenon
<1>3. CASE k = "("
  <2>1. Weight(k, "(") = -1 /\ Delta(k, ")") = -1 /\ Delta(k, "(") = 1
    BY <1>3 DEF Weight, Closes, Delta, Closer
  <2> QED
    BY <1>1, <2>1, ZeroOne, OpposedSum, Zenon
<1> QED
  BY <1>2, <1>3 DEF Pairs

LEMMA TermLaw ==
  ASSUME NEW k \in Pairs
  PROVE  Lawful(k, Term, 0)
<1>1. Lawful(k, On("VAR", <<>>), 0)
  <2>1. "VAR" \in Toks /\ Delta(k, "VAR") = 0
    BY FlatDelta DEF Toks
  <2> QED
    BY <2>1, OnNone
<1>2. Lawful(k, On("CALL", <<"(", "args">>), 0)
  <2>1. "CALL" \in Toks /\ Plain("CALL", <<"(", "args">>)
    BY DEF Toks, Plain, Symbols, EOT
  <2>3. Delta(k, "CALL") = 0
    BY FlatDelta
  <2>2. Weight(k, "args") \in Nat /\ Weight(k, "(") + Weight(k, "args") = 0
    BY ParenWeights, Zenon
  <2> QED
    BY <2>1, <2>2, <2>3, OnTwo
<1>3. Lawful(k, On("(", <<"pattern", ")">>), 0)
  <2>1. "(" \in Toks /\ Plain("(", <<"pattern", ")">>) /\ Weight(k, "pattern") = 0
    BY FlatWeight DEF Toks, Plain, Symbols, EOT, Flat
  <2>2. Weight(k, ")") \in Nat /\ Weight(k, ")") = Delta(k, "(")
    BY ParenWeights
  <2> QED
    BY <2>1, <2>2, OnTwo
<1> QED
  BY <1>1, <1>2, <1>3, LawfulOr DEF Term

LEMMA PatternLaw ==
  ASSUME NEW k \in Pairs
  PROVE  Lawful(k, Pattern, 0)
<1>1. Lawful(k, On("(", <<"pattern", "group">>), 0)
  <2>1. "(" \in Toks /\ Plain("(", <<"pattern", "group">>) /\ Weight(k, "pattern") = 0
    BY FlatWeight DEF Toks, Plain, Symbols, EOT, Flat
  <2>2. Weight(k, "group") \in Nat /\ Weight(k, "group") = Delta(k, "(")
    BY ParenWeights
  <2> QED
    BY <2>1, <2>2, OnTwo
<1>2. Lawful(k, On("/", <<"REGEXPR", "close", "more_re">>), 0)
  <2>1. "/" \in Toks /\ Plain("/", <<"REGEXPR", "close", "more_re">>)
    BY DEF Toks, Plain, Symbols, EOT
  <2>2. Weight(k, "REGEXPR") = 0 /\ Weight(k, "close") = 0 /\ Weight(k, "more_re") = 0
    BY FlatWeight DEF Flat
  <2>3. Delta(k, "/") = 0
    BY FlatDelta
  <2> QED
    BY <2>1, <2>2, <2>3, OnThree
<1>3. Lawful(k, Then(Term, <<"more">>), 0)
  <2>1. Neutral(<<"more">>) /\ Settles(k, <<"more">>, 0)
    BY SettlesOne, FlatWeight DEF Neutral, Symbols, EOT, Flat
  <2> QED
    BY <2>1, TermLaw, LawfulThen
<1> QED
  BY <1>1, <1>2, <1>3, LawfulOr DEF Pattern

\* The symbols that can be anywhere.
Words == Symbols \ {"pas", EOT, "REGEXPR"}

LEMMA PlainWords ==
  ASSUME NEW tok, NEW x \in Words, NEW y \in Words, NEW z \in Words
  PROVE  Plain(tok, <<x, y, z>>) /\ Plain(tok, <<x>>)
BY DEF Words, Plain

LEMMA BraceOn ==
  ASSUME NEW k \in Pairs, NEW z \in {"inner", "stmtlist"}
  PROVE  Lawful(k, On("{", <<"opt_nl", "stmt", z>>), 0)
<1> "{" \in Toks /\ "opt_nl" \in Words /\ "stmt" \in Words /\ z \in Words
  BY DEF Toks, Words, Symbols, EOT
<1>1. Plain("{", <<"opt_nl", "stmt", z>>)
  BY PlainWords
<1>2. Weight(k, "opt_nl") = 0 /\ Weight(k, "stmt") = 0
  BY FlatWeight DEF Flat
<1>3. Weight(k, z) \in Nat /\ Weight(k, z) = Delta(k, "{")
  BY BraceWeights
<1> QED
  BY <1>1, <1>2, <1>3, ZeroOne, OnThree, Zenon

\* The same, and more.
LEMMA ActionLaw ==
  ASSUME NEW k \in Pairs
  PROVE  /\ Lawful(k, On("{", Action), 0)
         /\ Lawful(k, On("{", Action \o <<"pa2stat">>), 0)
<1>1. Lawful(k, On("{", Action), 0)
  BY BraceOn DEF Action
<1>2. "{" \in Toks /\ Plain("{", Action) /\ Settles(k, Action, 0 + Delta(k, "{"))
  BY <1>1, Zenon DEF Lawful, On
<1>3. 0 + Delta(k, "{") \in Int /\ (0 + Delta(k, "{")) + 0 = 0 + Delta(k, "{")
  BY BraceWeights, NatInt, PlusZero, Zenon
<1>4. Neutral(<<"pa2stat">>) /\ Settles(k, <<"pa2stat">>, 0)
  BY SettlesOne, FlatWeight DEF Neutral, Symbols, EOT, Flat
<1>5. Plain("{", Action \o <<"pa2stat">>)
  BY <1>2, <1>4, PlainConcat
<1>6. Settles(k, Action \o <<"pa2stat">>, 0 + Delta(k, "{"))
  <2>1. Action \in Seq(Symbols) /\ <<"pa2stat">> \in Seq(Symbols)
    BY <1>2, <1>4, Zenon DEF Plain, Neutral
  <2> QED
    BY <1>2, <1>3, <1>4, <2>1, ZeroOne, PlusNone, SettlesConcat, Zenon
<1> QED
  BY <1>1, <1>2, <1>5, <1>6, LawfulOn, Zenon

\* The brace that follows BEGIN and the action it opens, which closes it.
LEMMA OpenedSum ==
  \A b, d \in Nat : \A v \in Int :
    v + d = 0 => b + d \in Nat /\ (b + d) + v = b /\ (b + d) + v \in Nat
OBVIOUS

LEMMA OpenedNone == \A b \in Nat : \A d : d = 0 => b + (0 + d) = b
OBVIOUS

LEMMA BeginLaw ==
  ASSUME NEW k \in Pairs
  PROVE  Lawful(k, On("BEGIN", <<"{">> \o Action), 0)
<1>1. "BEGIN" \in Toks /\ Plain("BEGIN", <<"{">>) /\ Neutral(Action)
  <2>1. "BEGIN" \in Toks
    BY DEF Toks
  <2>2. Plain("BEGIN", <<"{">>)
    <3>1. "{" \in Words
      BY DEF Words, Symbols, EOT
    <3> QED
      BY <3>1, PlainWords
  <2>3. Neutral(Action)
    BY DEF Symbols, EOT, Neutral, Action
  <2> QED
    BY <2>1, <2>2, <2>3
<1>2. Plain("BEGIN", <<"{">> \o Action)
  BY <1>1, PlainConcat
<1> DEFINE d == Delta(k, "{")
           v == Weight(k, "{")
<1>3. d \in Nat /\ v + d = 0 /\ v \in Int
  BY BraceWeights, WeightInInt, Zenon
<1>4. \A b \in Nat : Pays(k, Action, b + d, b)
  <2>1. Settles(k, Action, 0 + d)
    BY ActionLaw, Zenon DEF Lawful, On
  <2>2. 0 + d = d
    BY <1>3, PlusZero, Zenon
  <2> QED
    BY <2>1, <2>2, Zenon DEF Settles
<1>5. Delta(k, "BEGIN") = 0
  BY FlatDelta
<1>6. <<"{">> \in Seq(Symbols) /\ Action \in Seq(Symbols)
  BY <1>1, Zenon DEF Plain, Neutral
<1>7. ASSUME NEW b \in Nat PROVE Pays(k, <<"{">> \o Action, b, b)
  <2>1. Pays(k, Action, b + d, b)
    BY <1>4
  <2>2. b + d \in Nat /\ (b + d) + v \in Nat /\ (b + d) + v = b
    BY <1>3, OpenedSum, Zenon
  <2>3. Pays(k, <<"{">>, (b + d) + Weight(k, "{"), b + d)
    BY <2>2, PaysOne, Zenon
  <2>4. Pays(k, <<"{">>, b, b + d)
    BY <2>2, <2>3, Zenon
  <2> QED
    BY <1>6, <2>1, <2>4, PaysConcat, Zenon
<1>8. Settles(k, <<"{">> \o Action, 0 + Delta(k, "BEGIN"))
  <2> SUFFICES ASSUME NEW b \in Nat
               PROVE  Pays(k, <<"{">> \o Action, b + (0 + Delta(k, "BEGIN")), b)
    BY Zenon DEF Settles
  <2> QED
    BY <1>5, <1>7, OpenedNone, Zenon
<1> QED
  BY <1>1, <1>2, <1>8, LawfulOn, Zenon

LEMMA CommaLaw ==
  ASSUME NEW k \in Pairs, NEW z \in {"range", "plist", "patlist"}
  PROVE  Lawful(k, Comma(z), Weight(k, z))
<1> "," \in Toks /\ "opt_nl" \in Words /\ "pattern" \in Words /\ z \in Words
  BY DEF Toks, Words, Symbols, EOT
<1>1. Plain(",", <<"opt_nl", "pattern", z>>)
  BY PlainWords
<1>2. Weight(k, "opt_nl") = 0 /\ Weight(k, "pattern") = 0 /\ Delta(k, ",") = 0
  BY FlatWeight, FlatDelta DEF Flat
<1>3. Weight(k, z) \in Nat
  <2>1. CASE z = "range"
    BY <2>1, FlatWeight, ZeroOne DEF Flat
  <2>2. CASE z \in {"plist", "patlist"}
    BY <2>2, ParenWeights
  <2> QED
    BY <2>1, <2>2
<1>4. Weight(k, z) \in Int
  BY <1>3, NatInt
<1> QED
  BY <1>1, <1>2, <1>3, <1>4, OnThree, Zenon DEF Comma

\* An end of line or a semicolon, and the ends of line after it.
LEMMA LinesLaw ==
  ASSUME NEW k \in Pairs, NEW tok \in {";", NL}
  PROVE  Lawful(k, On(tok, <<"opt_nl">>), 0)
<1> tok \in Toks /\ "opt_nl" \in Words
  BY DEF Toks, Words, Symbols, EOT
<1>1. Plain(tok, <<"opt_nl">>)
  BY PlainWords
<1>2. Weight(k, "opt_nl") = 0 /\ Delta(k, tok) = 0
  BY FlatWeight, FlatDelta DEF Flat
<1> QED
  BY <1>1, <1>2, ZeroOne, OnOne, Zenon

LEMMA StmtLaw ==
  ASSUME NEW k \in Pairs
  PROVE  Lawful(k, Stmt, 0)
<1>1. Lawful(k, On(";", <<"opt_nl">>), 0)
  BY LinesLaw
<1>2. Lawful(k, On("{", <<"opt_nl", "stmt", "inner">>), 0)
  BY BraceOn
<1>3. Lawful(k, Then(Pattern, <<"st">>), 0)
  <2>1. Neutral(<<"st">>) /\ Settles(k, <<"st">>, 0)
    BY SettlesOne, FlatWeight DEF Neutral, Symbols, EOT, Flat
  <2> QED
    BY <2>1, PatternLaw, LawfulThen
<1> QED
  BY <1>1, <1>2, <1>3, LawfulOr DEF Stmt

\* A list of statements, expressions or arguments: its end, or one of them and
\* what the list goes on with.
LEMMA ListLaw ==
  ASSUME NEW k \in Pairs, NEW z \in Symbols \ {"pas", EOT, "REGEXPR"}, NEW rules,
         Weight(k, z) \in Nat, Lawful(k, rules, 0)
  PROVE  Lawful(k, Then(rules, <<z>>), Weight(k, z))
<1>1. Neutral(<<z>>)
  BY DEF Neutral
<1>2. Settles(k, <<z>>, Weight(k, z))
  BY SettlesOne
<1> QED
  BY <1>1, <1>2, LawfulThen

\* The rules, one symbol at a time.
Fields == {"pas", "pa_stat", "range", "stmt", "stmtlist", "inner", "st", "opt_nl", "pattern",
           "more", "more_re", "term", "group", "plist", "args", "patlist", "close"}

LEMMA RuleOf ==
  /\ DOMAIN Rules = Fields
  /\ Rules["pa_stat"] = On("{", Action) | Comma("range")
  /\ Rules["range"] = On("{", Action \o <<"pa2stat">>)
  /\ Rules["stmt"] = Stmt
  /\ Rules["stmtlist"] = On("}", <<>>) | Then(Stmt, <<"stmtlist">>)
  /\ Rules["inner"] = On("}", <<"opt_nl">>) | Then(Stmt, <<"inner">>)
  /\ Rules["st"] = On(NL, <<"opt_nl">>) | On(";", <<"opt_nl">>)
  /\ Rules["opt_nl"] = On(NL, <<"opt_nl">>)
  /\ Rules["pattern"] = Pattern
  /\ Rules["more"] = On("/", <<"term", "more">>) | Then(Term, <<"more">>)
  /\ Rules["more_re"] = Then(Term, <<"more">>)
  /\ Rules["term"] = Term
  /\ Rules["group"] = On(")", <<"more">>) | Comma("plist")
  /\ Rules["plist"] = On(")", <<"IN">>) | Comma("plist")
  /\ Rules["args"] = On(")", <<>>) | Then(Pattern, <<"patlist">>)
  /\ Rules["patlist"] = On(")", <<>>) | Comma("patlist")
  /\ Rules["close"] = On("/", <<>>)
BY Zenon DEF Rules, Fields

\* Every rule: what it is for, and what it puts on the stack instead.
LEMMA RulesLaw ==
  ASSUME NEW k \in Pairs, NEW sym \in DOMAIN Rules \ {"pas"}
  PROVE  Lawful(k, Rules[sym], Weight(k, sym))
<1> USE ZeroOne
<1>1. CASE sym \in {"stmt", "pattern", "term"}
  <2>1. Weight(k, sym) = 0
    BY <1>1, FlatWeight DEF Flat
  <2>2. Lawful(k, Stmt, 0) /\ Lawful(k, Pattern, 0) /\ Lawful(k, Term, 0)
    BY StmtLaw, PatternLaw, TermLaw
  <2> QED
    BY <1>1, <2>1, <2>2, RuleOf
<1>2. CASE sym = "opt_nl"
  BY <1>2, LinesLaw, FlatWeight, RuleOf DEF Flat
<1>3. CASE sym = "st"
  BY <1>3, LinesLaw, LawfulOr, FlatWeight, RuleOf DEF Flat
<1>4. CASE sym \in {"pa_stat", "range"}
  <2>1. Weight(k, sym) = 0 /\ Weight(k, "range") = 0
    BY <1>4, FlatWeight DEF Flat
  <2>2. Lawful(k, On("{", Action) | Comma("range"), 0)
    BY <2>1, ActionLaw, CommaLaw, LawfulOr
  <2> QED
    BY <1>4, <2>1, <2>2, ActionLaw, RuleOf
<1>5. CASE sym = "stmtlist"
  <2>1. Lawful(k, On("}", <<>>), Weight(k, "stmtlist"))
    <3>1. "}" \in Toks /\ Delta(k,
          "}") + Weight(k, "stmtlist") = 0 /\ Weight(k, "stmtlist") \in Int
      BY BraceWeights, NatInt, Zenon DEF Toks
    <3> QED
      BY <3>1, OnNone, Zenon
  <2>2. Lawful(k, Then(Stmt, <<"stmtlist">>), Weight(k, "stmtlist"))
    BY StmtLaw, ListLaw, BraceWeights DEF Symbols, EOT
  <2> QED
    BY <1>5, <2>1, <2>2, LawfulOr, RuleOf
<1>6. CASE sym = "inner"
  <2>1. Lawful(k, On("}", <<"opt_nl">>), Weight(k, "inner"))
    <3>1. Delta(k, "}") + Weight(k, "inner") = 0 /\ Weight(k, "inner") \in Int
      BY BraceWeights, NatInt, Zenon
    <3>2. "}" \in Toks /\ Plain("}", <<"opt_nl">>) /\ Weight(k, "opt_nl") = 0
      BY FlatWeight DEF Plain, Symbols, EOT, Toks, Flat
    <3> QED
      BY <3>1, <3>2, OnOne, Zenon
  <2>2. Lawful(k, Then(Stmt, <<"inner">>), Weight(k, "inner"))
    BY StmtLaw, ListLaw, BraceWeights DEF Symbols, EOT
  <2> QED
    BY <1>6, <2>1, <2>2, LawfulOr, RuleOf
<1>7. CASE sym \in {"more", "more_re"}
  <2>1. Weight(k, "more") = 0 /\ Weight(k, sym) = 0
    BY <1>7, FlatWeight DEF Flat
  <2>2. Lawful(k, Then(Term, <<"more">>), 0)
    BY <2>1, TermLaw, ListLaw DEF Symbols, EOT
  <2>3. Lawful(k, On("/", <<"term", "more">>), 0)
    <3>1. "/" \in Toks /\ Plain("/", <<"term", "more">>)
      BY DEF Plain, Symbols, EOT, Toks
    <3>2. Delta(k, "/") = 0 /\ Weight(k, "term") = 0
      BY FlatDelta, FlatWeight DEF Flat
    <3> QED
      BY <2>1, <3>1, <3>2, OnTwo
  <2>4. Lawful(k, On("/", <<"term", "more">>) | Then(Term, <<"more">>), 0)
    BY <2>2, <2>3, LawfulOr
  <2> QED
    BY <1>7, <2>1, <2>2, <2>4, RuleOf
<1>8. CASE sym \in {"group", "plist", "args", "patlist"}
  <2> DEFINE w == Delta(k, "(")
  <2>1. /\ \A x \in {")", "group", "plist", "args", "patlist"} : Weight(k, x) = w
        /\ Delta(k, ")") + w = 0 /\ w \in Nat /\ w \in Int
    BY ParenWeights, NatInt, Zenon
  <2> HIDE DEF w
  <2>2. Lawful(k, On(")", <<>>), w)
    BY <2>1, OnNone DEF Toks
  <2>3. \A x \in {"more", "IN"} : Lawful(k, On(")", <<x>>), w)
    <3> SUFFICES ASSUME NEW x \in {"more", "IN"} PROVE Lawful(k, On(")", <<x>>), w)
      OBVIOUS
    <3>1. x \in Words /\ ")" \in Toks
      BY DEF Words, Symbols, EOT, Toks
    <3>2. Plain(")", <<x>>) /\ Weight(k, x) = 0
      BY <3>1, PlainWords, FlatWeight DEF Flat
    <3> QED
      BY <2>1, <3>1, <3>2, OnOne, Zenon
  <2>4. Lawful(k, Comma("plist"), w) /\ Lawful(k, Comma("patlist"), w)
    BY <2>1, CommaLaw
  <2>5. Lawful(k, Then(Pattern, <<"patlist">>), w)
    BY <2>1, PatternLaw, ListLaw DEF Symbols, EOT
  <2>6. /\ Lawful(k, On(")", <<"more">>) | Comma("plist"), w)
        /\ Lawful(k, On(")", <<"IN">>) | Comma("plist"), w)
        /\ Lawful(k, On(")", <<>>) | Then(Pattern, <<"patlist">>), w)
        /\ Lawful(k, On(")", <<>>) | Comma("patlist"), w)
    BY <2>2, <2>3, <2>4, <2>5, LawfulOr
  <2> QED
    BY <1>8, <2>1, <2>6, RuleOf
<1>9. CASE sym = "close"
  <2>1. "/" \in Toks /\ Delta(k, "/") = 0 /\ Weight(k, "close") = 0
    BY FlatDelta, FlatWeight DEF Flat, Toks
  <2> QED
    BY <1>9, <2>1, OnNone, RuleOf
<1> QED
  BY <1>1, <1>2, <1>3, <1>4, <1>5, <1>6, <1>7, <1>8, <1>9, RuleOf, Zenon DEF Fields

\* The rules for the start: all but the one of the end begin a part of the
\* program, after which there may be another.
Part == On(NL, <<>>) | On(";", <<>>) | On("{", Action)
        | On("BEGIN", <<"{">> \o Action) | Then(Pattern, <<"pa_stat">>)

LEMMA PartLaw ==
  ASSUME NEW k \in Pairs
  PROVE  Lawful(k, Part, 0)
<1>1. Lawful(k, On(NL, <<>>), 0) /\ Lawful(k, On(";", <<>>), 0)
  <2>1. NL \in Toks /\ ";" \in Toks
    BY DEF Toks
  <2>2. Delta(k, NL) = 0 /\ Delta(k, ";") = 0
    BY FlatDelta
  <2> QED
    BY <2>1, <2>2, ZeroOne, OnNone, Zenon
<1>2. Lawful(k, On("{", Action), 0)
  BY ActionLaw
<1>3. Lawful(k, On("BEGIN", <<"{">> \o Action), 0)
  BY BeginLaw
<1>4. Lawful(k, Then(Pattern, <<"pa_stat">>), 0)
  <2>1. Weight(k, "pa_stat") = 0
    BY FlatWeight DEF Flat
  <2> QED
    BY <2>1, ZeroOne, PatternLaw, ListLaw DEF Symbols, EOT
<1> QED
  BY <1>1, <1>2, <1>3, <1>4, LawfulOr DEF Part

LEMMA PasRule == /\ Rules["pas"] = On(EOT, <<>>) | Then(Part, <<"pas">>)
                 /\ EOT \notin DOMAIN Part
<1>1. Rules["pas"] = On(EOT, <<>>) | Then(Part, <<"pas">>)
  BY DEF Rules, Part
<1>2. EOT \notin DOMAIN Part
  <2>1. Lawful("(", Part, 0)
    BY PartLaw DEF Pairs
  <2>2. EOT \notin Toks
    BY DEF Toks, EOT, NL
  <2> QED
    BY <2>1, <2>2 DEF Lawful
<1> QED
  BY <1>1, <1>2
-----------------------------------------------------------------------------
(* The stacks of the parser: the start is below the rest of a part of the  *)
(* program.                                                                *)
Grounded(s) == /\ s \in Seq(Symbols)
               /\ Len(s) > 0 /\ s[Len(s)] = "pas"
               /\ \A j \in 1..Len(s) - 1 : s[j] \notin {"pas", EOT}

Stacked(s) == Grounded(s) /\ \A j \in 2..Len(s) : s[j] # "REGEXPR"

LEMMA MetAt ==
  ASSUME NEW s, Stacked(s), NEW tok
  PROVE  /\ Met(s, tok) \in 1..Len(s)
         /\ Selects(s[Met(s, tok)], tok) \/ s[Met(s, tok)] \notin Optional
         /\ \A i \in 1..(Met(s, tok) - 1) : s[i] \in Optional /\ ~Selects(s[i], tok)
<1> DEFINE Meets(j) == Selects(s[j], tok) \/ s[j] \notin Optional
           At == {j \in DOMAIN s : Meets(j)}
<1>1. s \in Seq(Symbols) /\ Len(s) \in Nat /\ Len(s) > 0 /\ DOMAIN s = 1..Len(s)
        /\ s[Len(s)] = "pas"
  BY LenProperties DEF Stacked, Grounded
<1>2. Len(s) \in At
  BY <1>1 DEF Optional
<1>3. PICK j \in At : \A i \in At : j <= i
  <2>1. At \subseteq Nat
    BY <1>1
  <2> HIDE DEF At
  <2> QED
    BY <1>2, <2>1, LeastOf
<1>4. \E i \in DOMAIN s :
        /\ Selects(s[i], tok) \/ s[i] \notin Optional
        /\ \A m \in 1..(i - 1) : s[m] \in Optional /\ ~Selects(s[m], tok)
  <2>1. ASSUME NEW m \in 1..(j - 1) PROVE s[m] \in Optional /\ ~Selects(s[m], tok)
    <3>1. m \in DOMAIN s /\ ~(j <= m)
      BY <1>1, <1>3
    <3> QED
      BY <1>3, <3>1
  <2> QED
    BY <1>3, <2>1
<1> QED
  BY <1>1, <1>4 DEF Met

LEMMA OptionalWeight ==
  ASSUME NEW k \in Pairs, NEW sym \in Optional
  PROVE  Weight(k, sym) = 0
BY FlatWeight DEF Optional, Flat

\* A symbol without rules is a token.
LEMMA TokenWeight ==
  ASSUME NEW k \in Pairs, NEW sym \in Symbols \ Fields
  PROVE  Weight(k, sym) + Delta(k, sym) = 0
<1>1. CASE sym \in {"{", "}"}
  <2>1. Weight(k, "{") + Delta(k, "{") = 0
    BY BraceWeights
  <2>2. Weight(k, "}") + Delta(k, "}") = 0
    <3>1. CASE k = "{"
      BY <3>1, OpposedSum, Zenon DEF Weight, Closes, Delta, Closer
    <3>2. CASE k = "("
      BY <3>2, OpposedSum, Zenon DEF Weight, Closes, Delta, Closer
    <3> QED
      BY <3>1, <3>2 DEF Pairs
  <2> QED
    BY <1>1, <2>1, <2>2, Zenon
<1>2. CASE sym \in {"(", ")"}
  <2>1. Weight(k, "(") + Delta(k, "(") = 0
    BY ParenWeights
  <2>2. Weight(k, ")") + Delta(k, ")") = 0
    <3>1. CASE k = "{"
      BY <3>1, OpposedSum, Zenon DEF Weight, Closes, Delta, Closer
    <3>2. CASE k = "("
      BY <3>2, OpposedSum, Zenon DEF Weight, Closes, Delta, Closer
    <3> QED
      BY <3>1, <3>2 DEF Pairs
  <2> QED
    BY <1>2, <2>1, <2>2, Zenon
<1>3. CASE sym \in {"VAR", "CALL", "BEGIN", "/", ";", ",", "IN", "REGEXPR", "pa2stat", NL, EOT}
  <2>1. Weight(k, sym) = 0
    BY <1>3 DEF Weight, Closes, Pairs, NL, EOT
  <2>2. Delta(k, sym) = 0
    BY <1>3 DEF Delta, Closer, Pairs, NL, EOT
  <2> QED
    BY <2>1, <2>2, OpposedSum, Zenon
<1> QED
  BY <1>1, <1>2, <1>3 DEF Symbols, Fields

\* What a stack becomes: what Plain symbols are put on it.
LEMMA GroundedConcat ==
  ASSUME NEW tok, NEW u, NEW v, Plain(tok, u), Grounded(v),
         \A j \in 1..Len(v) : v[j] # "REGEXPR"
  PROVE  /\ Stacked(u \o v) /\ u \o v # <<>>
         /\ Head(u \o v) = "REGEXPR" => tok = "/"
<1>1. u \in Seq(Symbols) /\ v \in Seq(Symbols)
  BY DEF Plain, Grounded
<1> DEFINE e == u \o v
<1>2. /\ e \in Seq(Symbols) /\ Len(e) = Len(u) + Len(v)
      /\ Len(u) \in Nat /\ Len(v) \in Nat
      /\ \A j \in 1..Len(u) : e[j] = u[j]
      /\ \A j \in 1..Len(v) : e[Len(u) + j] = v[j]
  BY <1>1, ConcatProperties, LenProperties
<1>3. Len(v) > 0 /\ v[Len(v)] = "pas" /\ \A j \in 1..Len(v) - 1 : v[j] \notin {"pas", EOT}
  BY DEF Grounded
<1>4. \A j \in 1..Len(u) : u[j] \notin {"pas", EOT} /\ (u[j] = "REGEXPR" => j = 1 /\ tok = "/")
  BY DEF Plain
<1> HIDE DEF e
<1>5. ASSUME NEW j \in 1..Len(e) - 1 PROVE e[j] \notin {"pas", EOT}
  <2>1. CASE j <= Len(u)
    BY <1>2, <1>4, <2>1
  <2>2. CASE ~(j <= Len(u))
    <3>1. j - Len(u) \in 1..Len(v) - 1 /\ Len(u) + (j - Len(u)) = j /\ j - Len(u) \in 1..Len(v)
      BY <1>2, <2>2
    <3> QED
      BY <1>2, <1>3, <3>1
  <2> QED
    BY <2>1, <2>2
<1>6. ASSUME NEW j \in 1..Len(e), e[j] = "REGEXPR" PROVE j = 1 /\ tok = "/"
  <2>1. CASE j <= Len(u)
    BY <1>2, <1>4, <1>6, <2>1
  <2>2. CASE ~(j <= Len(u))
    <3>1. Len(u) + (j - Len(u)) = j /\ j - Len(u) \in 1..Len(v)
      BY <1>2, <2>2
    <3> QED
      BY <1>2, <1>6, <3>1
  <2> QED
    BY <2>1, <2>2
<1>7. Len(e) > 0 /\ e[Len(e)] = "pas"
  BY <1>2, <1>3
<1>8. Stacked(e)
  BY <1>2, <1>5, <1>6, <1>7 DEF Stacked, Grounded
<1>9. Head(e) = e[1] /\ e # <<>>
  BY <1>2, <1>7, HeadTailProperties
<1> QED
  BY <1>2, <1>6, <1>7, <1>8, <1>9 DEF e

LEMMA GroundedAfter ==
  ASSUME NEW s, Stacked(s), NEW j \in 1..Len(s) - 1
  PROVE  LET v == SubSeq(s, j + 1, Len(s))
         IN  /\ Grounded(v)
             /\ \A i \in 1..Len(v) : v[i] # "REGEXPR"
<1> DEFINE v == SubSeq(s, j + 1, Len(s))
<1>1. /\ s \in Seq(Symbols) /\ Len(s) \in Nat /\ s[Len(s)] = "pas"
      /\ \A i \in 1..Len(s) - 1 : s[i] \notin {"pas", EOT}
      /\ \A i \in 2..Len(s) : s[i] # "REGEXPR"
  BY LenProperties DEF Stacked, Grounded
<1>2. j + 1 \in 1..Len(s) + 1 /\ Len(s) \in (j + 1) - 1 .. Len(s) /\ j \in Nat
  BY <1>1
<1>3. v \in Seq(Symbols) /\ Len(v) = Len(s) - (j + 1) + 1
  BY <1>1, <1>2, SubSeqProperties
<1>4. \A i \in 1..Len(s) - (j + 1) + 1 : v[i] = s[(j + 1) + i - 1]
  BY <1>1, <1>2, SubSeqProperties
<1> HIDE DEF v
<1>5. \A i \in 1..Len(v) : v[i] = s[j + i] /\ j + i \in 2..Len(s)
  <2> SUFFICES ASSUME NEW i \in 1..Len(v) PROVE v[i] = s[j + i] /\ j + i \in 2..Len(s)
    OBVIOUS
  <2>1. (j + 1) + i - 1 = j + i /\ i \in 1..Len(s) - (j + 1) + 1 /\ j + i \in 2..Len(s)
    BY <1>1, <1>2, <1>3
  <2> QED
    BY <1>4, <2>1
<1>6. Len(v) > 0 /\ Len(v) \in 1..Len(v) /\ j + Len(v) = Len(s)
  BY <1>1, <1>2, <1>3
<1>7. v[Len(v)] = "pas"
  BY <1>1, <1>5, <1>6
<1>8. \A i \in 1..Len(v) - 1 : v[i] \notin {"pas", EOT}
  <2> SUFFICES ASSUME NEW i \in 1..Len(v) - 1 PROVE v[i] \notin {"pas", EOT}
    OBVIOUS
  <2>1. i \in 1..Len(v) /\ j + i \in 1..Len(s) - 1
    BY <1>1, <1>2, <1>6
  <2> QED
    BY <1>1, <1>5, <2>1
<1>9. \A i \in 1..Len(v) : v[i] # "REGEXPR"
  BY <1>1, <1>5
<1> QED
  BY <1>3, <1>6, <1>7, <1>8, <1>9 DEF Grounded, v

\* The token that the end of the program is for.
LEMMA EndOnStart ==
  ASSUME NEW s, Stacked(s), Takes(s, EOT)
  PROVE  Met(s, EOT) = Len(s) /\ Expected(s, EOT) = <<>>
<1> DEFINE j == Met(s, EOT)
           sym == s[j]
<1>1. j \in 1..Len(s) /\ Selects(sym, EOT) /\ Len(s) \in Nat /\ s \in Seq(Symbols)
  BY MetAt, LenProperties DEF Takes, Stacked, Grounded
<1>2. sym = "pas"
  <2>1. CASE sym \in Fields \ {"pas"}
    <3>1. Lawful("{", Rules[sym], Weight("{", sym))
      BY <2>1, RulesLaw, RuleOf, Zenon DEF Pairs
    <3>2. EOT \in DOMAIN Rules[sym]
      BY <1>1, <2>1, RuleOf DEF Selects
    <3>3. EOT \notin Toks
      BY DEF Toks, EOT, NL
    <3> QED
      BY <3>1, <3>2, <3>3, Zenon DEF Lawful
  <2>2. CASE sym \notin Fields
    <3>1. sym = EOT
      BY <1>1, <2>2, RuleOf DEF Selects
    <3>2. j = Len(s)
      BY <1>1, <3>1 DEF Stacked, Grounded
    <3> QED
      BY <3>2 DEF Stacked, Grounded
  <2> QED
    BY <2>1, <2>2
<1>3. j = Len(s)
  BY <1>1, <1>2 DEF Stacked, Grounded
<1>4. Rules["pas"][EOT] = <<>>
  BY PasRule DEF |, On
<1>5. SubSeq(s, j + 1, Len(s)) = <<>>
  <2>1. s \in Seq(Symbols)
    BY <1>1
  <2> QED
    BY <1>1, <1>3, <2>1
<1>6. sym # EOT
  BY <1>2 DEF EOT
<1>7. Expected(s, EOT) = <<>> \o <<>>
  BY <1>2, <1>4, <1>5, <1>6 DEF Expected
<1> QED
  BY <1>3, <1>7
-----------------------------------------------------------------------------
(* One token of the parser.                                                *)
LEMMA PaysEmpty ==
  ASSUME NEW k, NEW a, NEW b, Pays(k, <<>>, a, b)
  PROVE  a = b
<1>1. Len(<<>>) + 1 = 1
  OBVIOUS
<1> QED
  BY <1>1 DEF Pays

LEMMA PaysNat ==
  ASSUME NEW k, NEW s \in Seq(Symbols), NEW a, NEW b, Pays(k, s, a, b)
  PROVE  a \in Nat
<1>1. 1 \in 1..Len(s) + 1
  BY LenProperties
<1> QED
  BY <1>1 DEF Pays, Sums

LEMMA PaidOnStart ==
  ASSUME NEW s, Stacked(s), NEW tok, Met(s, tok) = Len(s), NEW k \in Pairs, NEW a,
         Pays(k, s, a, 0)
  PROVE  a = 0
<1> DEFINE j == Met(s, tok)
<1>1. j = Len(s) /\ j \in 1..Len(s) /\ Len(s) \in Nat /\ s \in Seq(Symbols) /\ s[j] = "pas"
  BY MetAt, LenProperties DEF Stacked, Grounded
<1>2. \A i \in 1..j - 1 : Weight(k, s[i]) = 0
  BY MetAt, OptionalWeight
<1>3. PICK c \in Nat : a = c + Weight(k, s[j]) /\ Pays(k, SubSeq(s, j + 1, Len(s)), c, 0)
  BY <1>1, <1>2, PaysAfter
<1>4. Weight(k, s[j]) = 0
  BY <1>1, FlatWeight DEF Flat
<1>5. SubSeq(s, j + 1, Len(s)) = <<>>
  BY <1>1
<1>6. c = 0
  BY <1>3, <1>5, PaysEmpty
<1> QED
  BY <1>3, <1>4, <1>6

\* What takes the place of the symbols up to the one met.
Put(sym, tok) == IF sym = tok THEN <<>> ELSE Rules[sym][tok]

LEMMA PutIs ==
  ASSUME NEW s, Stacked(s), NEW tok, Takes(s, tok), tok # EOT
  PROVE  \E u, v : /\ Expected(s, tok) = u \o v
                   /\ Plain(tok, u) /\ Grounded(v) /\ \A i \in 1..Len(v) : v[i] # "REGEXPR"
                   /\ tok \in Symbols
                   /\ \A k \in Pairs : \A a : Pays(k, s, a, 0) =>
                        a + Delta(k, tok) \in Nat /\ Pays(k, u \o v, a + Delta(k, tok), 0)
<1> DEFINE j == Met(s, tok)
           sym == s[j]
           rest == SubSeq(s, j + 1, Len(s))
<1>1. /\ j \in 1..Len(s) /\ Selects(sym, tok) /\ Len(s) \in Nat /\ s \in Seq(Symbols)
      /\ s[Len(s)] = "pas" /\ sym \in Symbols
      /\ \A i \in 1..Len(s) - 1 : s[i] \notin {"pas", EOT}
  BY MetAt, LenProperties DEF Takes, Stacked, Grounded
<1>2. ASSUME NEW k \in Pairs, NEW a, Pays(k, s, a, 0)
      PROVE  \E c \in Nat : a = c + Weight(k, sym) /\ Pays(k, rest, c, 0)
  <2>1. \A i \in 1..j - 1 : Weight(k, s[i]) = 0
    BY MetAt, OptionalWeight
  <2> QED
    BY <1>1, <1>2, <2>1, PaysAfter
<1>3. Toks \subseteq Symbols
  BY DEF Toks, Symbols
<1> HIDE DEF rest
<1>4. CASE sym = "pas"
  <2>1. j = Len(s)
    BY <1>1, <1>4
  <2>2. rest = <<>>
    BY <1>1, <2>1 DEF rest
  <2>4. tok \in DOMAIN Part /\ Rules["pas"][tok] = Part[tok] \o <<"pas">>
    <3>1. tok \in DOMAIN Rules["pas"]
      BY <1>1, <1>4, RuleOf DEF Selects, Fields
    <3> QED
      BY PasRule, <3>1 DEF |, On, Then
  <2>5. tok \in Toks /\ Plain(tok, Part[tok])
    BY PartLaw, <2>4, Zenon DEF Lawful, Pairs
  <2> DEFINE u == Part[tok]
             v == <<"pas">>
  <2>6. Grounded(v) /\ \A i \in 1..Len(v) : v[i] # "REGEXPR"
    BY DEF Grounded, Symbols, EOT
  <2>7. sym # tok
    BY <1>4, <2>5 DEF Toks, NL
  <2>8. u \in Seq(Symbols) /\ v \in Seq(Symbols)
    BY <2>5, <2>6 DEF Plain, Grounded
  <2> HIDE DEF u, v
  <2>9. Expected(s, tok) = u \o v
    <3>1. Expected(s, tok) = (u \o v) \o <<>>
      BY <1>4, <2>2, <2>4, <2>7 DEF Expected, rest, u, v
    <3> QED
      BY <2>8, <3>1
  <2>10. ASSUME NEW k \in Pairs, NEW a, Pays(k, s, a, 0)
         PROVE  a + Delta(k, tok) \in Nat /\ Pays(k, u \o v, a + Delta(k, tok), 0)
    <3>1. a = 0 /\ Weight(k, "pas") = 0
      BY <2>1, <2>10, PaidOnStart, FlatWeight DEF Flat
    <3>2. Pays(k, v, 0 + Weight(k, "pas"), 0)
      BY <3>1, PaysOne DEF v
    <3>3. Pays(k, u, 0 + (0 + Delta(k, tok)), 0)
      BY <2>4, PartLaw DEF Lawful, Settles, u
    <3>4. 0 + (0 + Delta(k, tok)) = a + Delta(k, tok) /\ 0 + Weight(k, "pas") = 0
      BY <3>1, DeltaInt
    <3>5. Pays(k, u \o v, a + Delta(k, tok), 0)
      BY <2>8, <3>2, <3>3, <3>4, PaysConcat
    <3> QED
      BY <2>8, <3>5, PaysNat, ConcatProperties
  <2> QED
    BY <1>3, <2>5, <2>6, <2>9, <2>10 DEF u
<1>5. CASE sym # "pas"
  <2> DEFINE u == Put(sym, tok)
  <2>1. j \in 1..Len(s) - 1 /\ sym # EOT
    BY <1>1, <1>5
  <2>2. Grounded(rest) /\ \A i \in 1..Len(rest) : rest[i] # "REGEXPR"
    BY <2>1, GroundedAfter DEF rest
  <2>3. Expected(s, tok) = u \o rest
    BY DEF Expected, Put, rest
  <2>4. /\ tok \in Symbols /\ Plain(tok, u)
        /\ \A k \in Pairs : Settles(k, u, Weight(k, sym) + Delta(k, tok))
    <3>1. CASE sym \in Fields
      <4>1. tok \in DOMAIN Rules[sym] /\ \A k \in Pairs : Lawful(k, Rules[sym], Weight(k, sym))
        BY <1>1, <1>5, <3>1, RuleOf, RulesLaw DEF Selects
      <4>2. /\ tok \in Toks /\ Plain(tok, Rules[sym][tok])
            /\ \A k \in Pairs : Settles(k, Rules[sym][tok], Weight(k, sym) + Delta(k, tok))
        BY <4>1, Zenon DEF Lawful, Pairs
      <4>3. Toks \cap Fields = {}
        BY Zenon DEF Toks, Fields, NL
      <4> QED
        BY <1>3, <3>1, <4>2, <4>3 DEF Put
    <3>2. CASE sym \notin Fields
      <4>1. sym = tok
        BY <1>1, <3>2, RuleOf DEF Selects
      <4>2. \A k \in Pairs : Weight(k, sym) + Delta(k, tok) = 0
        BY <1>1, <3>2, <4>1, TokenWeight
      <4>3. Plain(tok, <<>>)
        BY DEF Plain
      <4> QED
        BY <1>1, <4>1, <4>2, <4>3, SettlesNone DEF Put
    <3> QED
      BY <3>1, <3>2
  <2>5. ASSUME NEW k \in Pairs, NEW a, Pays(k, s, a, 0)
        PROVE  a + Delta(k, tok) \in Nat /\ Pays(k, u \o rest, a + Delta(k, tok), 0)
    <3>1. PICK c \in Nat : a = c + Weight(k, sym) /\ Pays(k, rest, c, 0)
      BY <1>2, <2>5
    <3>2. Pays(k, u, c + (Weight(k, sym) + Delta(k, tok)), c)
      BY <2>4 DEF Settles
    <3>3. c + (Weight(k, sym) + Delta(k, tok)) = a + Delta(k, tok)
      BY <3>1, WeightInt, DeltaInt
    <3>4. u \in Seq(Symbols) /\ rest \in Seq(Symbols)
      BY <2>2, <2>4 DEF Plain, Grounded
    <3>5. Pays(k, u \o rest, a + Delta(k, tok), 0)
      BY <3>1, <3>2, <3>3, <3>4, PaysConcat
    <3> QED
      BY <3>4, <3>5, PaysNat, ConcatProperties
  <2> QED
    BY <2>2, <2>3, <2>4, <2>5
<1> QED
  BY <1>4, <1>5

LEMMA ParserEnds ==
  ASSUME NEW s, Stacked(s), Takes(s, EOT)
  PROVE  Reduced(Expected(s, EOT)) = <<>> /\ ~StartsRegexpr(s, EOT)
BY EndOnStart DEF Reduced, StartsRegexpr

LEMMA ParserGoesOn ==
  ASSUME NEW s, Stacked(s), NEW tok, Takes(s, tok), tok # EOT
  PROVE  LET rest == Reduced(Expected(s, tok))
         IN  /\ Stacked(rest) /\ rest # <<>> /\ tok \in Symbols
             /\ StartsRegexpr(s, tok) => tok = "/"
             /\ \A k \in Pairs : \A a : Pays(k, s, a, 0) =>
                  a + Delta(k, tok) \in Nat /\ Pays(k, rest, a + Delta(k, tok), 0)
<1>1. PICK u, v : /\ Expected(s, tok) = u \o v
                  /\ Plain(tok, u) /\ Grounded(v) /\ \A i \in 1..Len(v) : v[i] # "REGEXPR"
                  /\ tok \in Symbols
                  /\ \A k \in Pairs : \A a : Pays(k, s, a, 0) =>
                       a + Delta(k, tok) \in Nat /\ Pays(k, u \o v, a + Delta(k, tok), 0)
  BY PutIs
<1> DEFINE e == Expected(s, tok)
<1>2. /\ Stacked(e) /\ e # <<>>
      /\ Head(e) = "REGEXPR" => tok = "/"
      /\ \A k \in Pairs : \A a : Pays(k, s, a, 0) =>
           a + Delta(k, tok) \in Nat /\ Pays(k, e, a + Delta(k, tok), 0)
  BY <1>1, GroundedConcat
<1>3. StartsRegexpr(s, tok) => tok = "/"
  BY <1>2 DEF StartsRegexpr
<1> HIDE DEF e
<1>4. CASE Head(e) # "pa2stat"
  BY <1>1, <1>2, <1>3, <1>4 DEF Reduced, e
<1>5. CASE Head(e) = "pa2stat"
  <2>1. e \in Seq(Symbols) /\ Len(e) \in Nat /\ Len(e) > 0 /\ e[Len(e)] = "pas"
    BY <1>2, LenProperties DEF Stacked, Grounded
  <2>2. Head(e) = e[1] /\ Tail(e) = SubSeq(e, 1 + 1, Len(e))
    BY <2>1
  <2>3. Len(e) # 1 /\ 1 \in 1..Len(e) - 1 /\ 1 \in 1..Len(e)
    BY <1>5, <2>1, <2>2
  <2> DEFINE v1 == SubSeq(e, 1 + 1, Len(e))
  <2>4. Grounded(v1) /\ \A i \in 1..Len(v1) : v1[i] # "REGEXPR"
    BY <1>2, <2>3, GroundedAfter
  <2>5. Stacked(v1) /\ v1 # <<>>
    <3>1. Len(v1) \in Nat /\ Len(v1) > 0
      BY <2>4, LenProperties DEF Grounded
    <3> HIDE DEF v1
    <3>2. \A i \in 2..Len(v1) : i \in 1..Len(v1)
      BY <3>1
    <3> QED
      BY <2>4, <3>1, <3>2 DEF Stacked
  <2>6. Reduced(e) = v1
    BY <1>2, <1>5, <2>2 DEF Reduced
  <2>7. ASSUME NEW k \in Pairs, NEW a, Pays(k, s, a, 0)
        PROVE  a + Delta(k, tok) \in Nat /\ Pays(k, v1, a + Delta(k, tok), 0)
    <3>1. a + Delta(k, tok) \in Nat /\ Pays(k, e, a + Delta(k, tok), 0)
      BY <1>2, <2>7
    <3>2. Weight(k, e[1]) = 0
      BY <1>5, <2>2, FlatWeight DEF Flat
    <3>3. \A i \in 1..1 - 1 : Weight(k, e[i]) = 0
      OBVIOUS
    <3>4. PICK c \in Nat : a + Delta(k, tok) = c + Weight(k, e[1]) /\ Pays(k, v1, c, 0)
      BY <2>1, <2>3, <3>1, <3>3, PaysAfter
    <3>5. c = a + Delta(k, tok)
      BY <3>2, <3>4
    <3> QED
      BY <3>1, <3>4, <3>5
  <2> QED
    BY <1>1, <1>3, <2>5, <2>6, <2>7 DEF e
<1> QED
  BY <1>4, <1>5

LEMMA CloseIsPlain ==
  ASSUME NEW s, Stacked(s), NEW tok, Takes(s, tok), Head(s) = "close"
  PROVE  tok = "/" /\ ~StartsRegexpr(s, tok)
<1>1. /\ s \in Seq(Symbols) /\ Len(s) \in Nat /\ Len(s) > 0 /\ s[Len(s)] = "pas"
      /\ s[1] = "close" /\ 1 \in 1..Len(s)
  BY LenProperties DEF Stacked, Grounded
<1>2. Met(s, tok) = 1
  <2>1. /\ Met(s, tok) \in 1..Len(s)
        /\ \A i \in 1..(Met(s, tok) - 1) : s[i] \in Optional
    BY MetAt
  <2>2. s[1] \notin Optional
    BY <1>1 DEF Optional
  <2> QED
    BY <1>1, <2>1, <2>2
<1>3. Len(s) # 1 /\ 1 \in 1..Len(s) - 1
  BY <1>1
<1>4. Selects("close", tok)
  BY <1>1, <1>2 DEF Takes
<1>5. tok = "/" /\ Rules["close"][tok] = <<>>
  BY <1>4, RuleOf DEF Selects, Fields, On
<1> DEFINE v == SubSeq(s, 1 + 1, Len(s))
<1>6. Grounded(v) /\ \A i \in 1..Len(v) : v[i] # "REGEXPR"
  BY <1>3, GroundedAfter
<1>7. v \in Seq(Symbols) /\ Len(v) \in Nat /\ Len(v) > 0
  BY <1>6, LenProperties DEF Grounded
<1>8. Expected(s, tok) = <<>> \o v
  BY <1>1, <1>2, <1>5 DEF Expected
<1> HIDE DEF v
<1>9. Expected(s, tok) = v /\ Head(v) = v[1] /\ 1 \in 1..Len(v)
  BY <1>7, <1>8
<1> QED
  BY <1>5, <1>6, <1>9 DEF StartsRegexpr
-----------------------------------------------------------------------------
(* The lexer: what it has read and put back, and what it counts.           *)
Read == STRING \cup {EOT}

LexerStates == [sc : BOOLEAN, reg : BOOLEAN, bracecnt : Int, parencnt : Int, yysbuf : Seq(Read)]

Sources == [kind : {"none", "string", "files"}, text : Seq(STRING), nprog : Nat, at : Nat,
            ended : BOOLEAN]

\* No more than one character is put back, and the program is read up to its end.
Scanned(l, s) == /\ l \in LexerStates /\ Len(l.yysbuf) <= 1
                 /\ s \in Sources /\ s.at \in 1..Len(s.text) + 1

Left(l, s) == Len(l.yysbuf) + Len(s.text) + 1 - s.at

LEMMA AheadIs ==
  ASSUME NEW l, NEW s, Scanned(l, s)
  PROVE  /\ Ahead(l, s) \in Seq(Read) /\ Len(Ahead(l, s)) = Left(l, s) /\ Left(l, s) \in Nat
         /\ Len(l.yysbuf) \in {0, 1} /\ Len(l.yysbuf) <= Left(l, s)
         /\ l.yysbuf = <<EOT>> => Left(l, s) >= 1 /\ Ahead(l, s)[1] = EOT
<1> DEFINE b == l.yysbuf
           t == SubSeq(s.text, s.at, Len(s.text))
           r == Reverse(b)
<1>1. /\ b \in Seq(Read) /\ Len(b) \in {0, 1}
      /\ s.text \in Seq(STRING) /\ Len(s.text) \in Nat /\ s.at \in 1..Len(s.text) + 1
  <2>1. b \in Seq(Read) /\ s.text \in Seq(STRING) /\ Len(b) <= 1 /\ s.at \in 1..Len(s.text) + 1
    BY DEF Scanned, LexerStates, Sources
  <2>2. Len(b) \in Nat /\ Len(s.text) \in Nat
    BY <2>1, LenProperties
  <2>3. Len(b) \in {0, 1}
    <3>1. \A n \in Nat : n <= 1 => n \in {0, 1}
      OBVIOUS
    <3> QED
      BY <2>1, <2>2, <3>1, Zenon
  <2> QED
    BY <2>1, <2>2, <2>3, Zenon
<1>2. t \in Seq(STRING) /\ Len(t) = Len(s.text) - s.at + 1
  <2>1. Len(s.text) \in s.at - 1 .. Len(s.text)
    BY <1>1
  <2> QED
    BY <1>1, <2>1, SubSeqProperties
<1>3. t \in Seq(Read)
  <2>1. STRING \subseteq Read
    BY DEF Read
  <2> QED
    BY <1>2, <2>1, SeqMonotonic
<1> HIDE DEF b, t
<1>4. r \in Seq(Read) /\ Len(r) = Len(b) /\ \A i \in 1..Len(b) : r[i] = b[(Len(b) - i) + 1]
  <2>1. \A i \in 1..Len(b) : (Len(b) - i) + 1 \in 1..Len(b)
    BY <1>1
  <2>2. [i \in 1..Len(b) |-> b[(Len(b) - i) + 1]] \in [1..Len(b) -> Read]
    BY <1>1, <2>1, ElementOfSeq
  <2>3. Len(b) \in Nat
    BY <1>1
  <2> QED
    BY <2>2, <2>3, IsSequence DEF Reverse
<1>5. /\ Ahead(l, s) = r \o t /\ r \o t \in Seq(Read) /\ Len(r \o t) = Len(r) + Len(t)
      /\ \A i \in 1..Len(r) : (r \o t)[i] = r[i]
  BY <1>3, <1>4, ConcatProperties DEF Ahead, b, t
<1>6. Len(Ahead(l, s)) = Left(l, s) /\ Left(l, s) \in Nat /\ Len(b) <= Left(l, s)
  <2>1. Left(l, s) = Len(b) + Len(s.text) + 1 - s.at
    BY DEF Left, b
  <2>2. Len(Ahead(l, s)) = Len(b) + Len(t)
    BY <1>4, <1>5
  <2> QED
    BY <1>1, <1>2, <2>1, <2>2
<1>7. ASSUME b = <<EOT>> PROVE Left(l, s) >= 1 /\ Ahead(l, s)[1] = EOT
  <2>1. Len(b) = 1 /\ b[1] = EOT
    BY <1>7
  <2> QED
    BY <1>4, <1>5, <1>6, <2>1
<1> QED
  BY <1>1, <1>5, <1>6, <1>7 DEF b

LEMMA InputIs ==
  ASSUME NEW l, NEW s, Scanned(l, s), NEW n \in Nat, n >= 1
  PROVE  /\ input(l, s, n) \in Read
         /\ n > Left(l, s) => input(l, s, n) = EOT
<1>1. Ahead(l, s) \in Seq(Read) /\ Len(Ahead(l, s)) = Left(l, s) /\ Left(l, s) \in Nat
  BY AheadIs
<1>2. EOT \in Read
  BY DEF Read
<1>3. CASE n <= Left(l, s)
  <2>1. n \in 1..Len(Ahead(l, s))
    BY <1>1, <1>3
  <2> QED
    BY <1>1, <1>3, <2>1, ElementOfSeq DEF input
<1>4. CASE ~(n <= Left(l, s))
  BY <1>1, <1>2, <1>4 DEF input
<1> QED
  BY <1>1, <1>3, <1>4

\* What the lexer passes over ends with the program at the latest.
LEMMA PastIs ==
  ASSUME NEW l, NEW s, Scanned(l, s), NEW k \in 1..Left(l, s) + 1, NEW S, EOT \notin S
  PROVE  /\ Past(l, s, k, S) \in k..Left(l, s) + 1
         /\ input(l, s, Past(l, s, k, S)) \notin S
         /\ \A m \in k..(Past(l, s, k, S) - 1) : input(l, s, m) \in S
<1> DEFINE L == Left(l, s)
           At == {n \in k..(L + k) : input(l, s, n) \notin S}
<1>1. L \in Nat /\ Len(Ahead(l, s)) = L
  BY AheadIs
<1> HIDE DEF L
<1>2. k \in 1..L + 1
  BY DEF L
<1>3. L + 1 \in k..(L + k) /\ input(l, s, L + 1) = EOT
  BY <1>1, <1>2, InputIs DEF L
<1>4. L + 1 \in At /\ At \subseteq Nat
  BY <1>1, <1>2, <1>3
<1>5. PICK n \in At : \A m \in At : n <= m
  <2> HIDE DEF At
  <2> QED
    BY <1>4, LeastOf
<1>6. n \in k..L + 1
  BY <1>1, <1>2, <1>4, <1>5
<1>7. \A m \in k..(n - 1) : input(l, s, m) \in S
  <2> SUFFICES ASSUME NEW m \in k..(n - 1), input(l, s, m) \notin S PROVE FALSE
    OBVIOUS
  <2>1. m \in At
    BY <1>1, <1>2, <1>6
  <2> QED
    BY <1>1, <1>2, <1>5, <1>6, <2>1
<1> DEFINE p == Past(l, s, k, S)
<1>8. /\ p \in k..(L + k) /\ input(l, s, p) \notin S
      /\ \A m \in k..(p - 1) : input(l, s, m) \in S
  BY <1>1, <1>5, <1>7 DEF Past
<1> HIDE DEF p
<1>9. p <= L + 1
  <2> SUFFICES ASSUME ~(p <= L + 1) PROVE FALSE
    OBVIOUS
  <2>1. L + 1 \in k..(p - 1)
    BY <1>1, <1>2, <1>8
  <2> QED
    BY <1>3, <1>8, <2>1
<1>10. p \in k..L + 1
  BY <1>1, <1>2, <1>8, <1>9
<1> QED
  BY <1>8, <1>10 DEF p, L

Bit(b) == IF b THEN 1 ELSE 0

\* What a program still has of its own.
Kept(s, t) == t.text = s.text /\ t.kind = s.kind /\ Unread(t) = Unread(s)

\* The states of the lexer, field by field.
Lexing(c, r, b, p, u) == [sc |-> c, reg |-> r, bracecnt |-> b, parencnt |-> p, yysbuf |-> u]

LEMMA LexingIs ==
  ASSUME NEW c, NEW r, NEW b, NEW p, NEW u
  PROVE  /\ Lexing(c, r, b, p, u).sc = c /\ Lexing(c, r, b, p, u).reg = r
         /\ Lexing(c, r, b, p, u).bracecnt = b /\ Lexing(c, r, b, p, u).parencnt = p
         /\ Lexing(c, r, b, p, u).yysbuf = u
         /\ \A x : [Lexing(c, r, b, p, u) EXCEPT !.sc = x] = Lexing(x, r, b, p, u)
         /\ \A x : [Lexing(c, r, b, p, u) EXCEPT !.reg = x] = Lexing(c, x, b, p, u)
         /\ \A x : [Lexing(c, r, b, p, u) EXCEPT !.bracecnt = x] = Lexing(c, r, x, p, u)
         /\ \A x : [Lexing(c, r, b, p, u) EXCEPT !.parencnt = x] = Lexing(c, r, b, x, u)
         /\ \A x : [Lexing(c, r, b, p, u) EXCEPT !.yysbuf = x] = Lexing(c, r, b, p, x)
BY DEF Lexing

LEMMA LexingTyped ==
  ASSUME NEW c \in BOOLEAN, NEW r \in BOOLEAN, NEW b \in Int, NEW p \in Int, NEW u \in Seq(Read)
  PROVE  Lexing(c, r, b, p, u) \in LexerStates
BY DEF Lexing, LexerStates

LEMMA LexerStateIs ==
  ASSUME NEW l \in LexerStates
  PROVE  /\ l = Lexing(l.sc, l.reg, l.bracecnt, l.parencnt, l.yysbuf)
         /\ l.sc \in BOOLEAN /\ l.reg \in BOOLEAN /\ l.bracecnt \in Int /\ l.parencnt \in Int
         /\ l.yysbuf \in Seq(Read)
BY DEF LexerStates, Lexing

\* Some of them.
No  == FALSE
Yes == TRUE

LEMMA YesAndNo == Yes /\ ~No /\ Yes \in BOOLEAN /\ No \in BOOLEAN /\ Bit(Yes) = 1 /\ Bit(No) = 0
BY DEF Yes, No, Bit

Drained(l)   == [l EXCEPT !.yysbuf = <<>>]
Unslashed(l) == [l EXCEPT !.reg = No]
Settled(l)   == [l EXCEPT !.sc = No]

LEMMA LexerStatesAre ==
  ASSUME NEW l \in LexerStates
  PROVE  /\ Drained(l) = Lexing(l.sc, l.reg, l.bracecnt, l.parencnt, <<>>)
         /\ Unslashed(l) = Lexing(l.sc, No, l.bracecnt, l.parencnt, l.yysbuf)
         /\ Settled(l) = Lexing(No, l.reg, l.bracecnt, l.parencnt, l.yysbuf)
         /\ Drained(l) \in LexerStates /\ Unslashed(l) \in LexerStates
              /\ Settled(l) \in LexerStates
<1> DEFINE c == l.sc
           r == l.reg
           b == l.bracecnt
           p == l.parencnt
           u == l.yysbuf
<1>1. /\ c \in BOOLEAN /\ r \in BOOLEAN /\ b \in Int /\ p \in Int /\ u \in Seq(Read)
      /\ l = Lexing(c, r, b, p, u) /\ <<>> \in Seq(Read)
  BY LexerStateIs
<1> HIDE DEF c, r, b, p, u
<1>2. Drained(l) = Lexing(c, r, b, p, <<>>)
  BY <1>1, LexingIs DEF Drained
<1>3. Unslashed(l) = Lexing(c, No, b, p, u)
  BY <1>1, LexingIs DEF Unslashed
<1>4. Settled(l) = Lexing(No, r, b, p, u)
  BY <1>1, LexingIs DEF Settled
<1>5. Drained(l) \in LexerStates
  BY <1>1, <1>2, LexingTyped
<1>6. Unslashed(l) \in LexerStates /\ Settled(l) \in LexerStates
  BY <1>1, <1>3, <1>4, YesAndNo, LexingTyped
<1> QED
  BY <1>2, <1>3, <1>4, <1>5, <1>6 DEF c, r, b, p, u

LEMMA LexedIs ==
  ASSUME NEW l, NEW s, Scanned(l, s), NEW n \in 0..Left(l, s) + 1, NEW tok, NEW how
  PROVE  LET y == Lexed(l, s, n, tok, how)
         IN  /\ y = [tok |-> tok, body |-> <<>>, how |-> how, l |-> y.l, s |-> y.s]
             /\ y.l = IF n = 0 THEN l ELSE Drained(l)
             /\ Scanned(y.l, y.s) /\ Kept(s, y.s)
             /\ Left(y.l, y.s) = IF n <= Left(l, s) THEN Left(l, s) - n ELSE 0
<1> DEFINE L == Left(l, s)
           old == Len(l.yysbuf)
           y == Lexed(l, s, n, tok, how)
           at == IF n > L THEN Len(s.text) + 1 ELSE IF n > old THEN s.at + n - old ELSE s.at
           ended == s.ended \/ (n > L /\ s.kind = "files")
           m == [l EXCEPT !.yysbuf = IF n = 0 THEN @ ELSE <<>>]
           t == [s EXCEPT !.at = at, !.ended = ended]
<1>1. /\ L \in Nat /\ Len(Ahead(l, s)) = L /\ old \in {0, 1} /\ old <= L /\ n \in Nat
      /\ L = old + Len(s.text) + 1 - s.at
  <2>1. L \in Nat /\ Len(Ahead(l, s)) = L /\ old \in {0, 1} /\ old <= L
    BY AheadIs
  <2>2. n \in Nat
    BY <2>1
  <2> QED
    BY <2>1, <2>2 DEF Left
<1> HIDE DEF L, old
<1>2. /\ l \in LexerStates /\ s \in Sources /\ s.at \in 1..Len(s.text) + 1
      /\ l.yysbuf \in Seq(Read) /\ s.text \in Seq(STRING) /\ Len(s.text) \in Nat
  BY LenProperties DEF Scanned, LexerStates, Sources
<1>3. SubSeq(l.yysbuf, 1, old - n) = IF n = 0 THEN l.yysbuf ELSE <<>>
  <2>1. CASE n = 0
    <3>1. old - n = Len(l.yysbuf)
      BY <1>1, <2>1 DEF old
    <3>2. SubSeq(l.yysbuf, 1, Len(l.yysbuf)) = l.yysbuf
      BY <1>2
    <3> QED
      BY <2>1, <3>1, <3>2
  <2>2. CASE n # 0
    <3>1. old - n < 1 /\ old - n \in Int
      BY <1>1, <2>2
    <3> QED
      BY <1>2, <2>2, <3>1
  <2> QED
    BY <2>1, <2>2
<1>4. y = [tok |-> tok, body |-> <<>>, how |-> how, l |-> m, s |-> t]
  BY <1>1, <1>3 DEF Lexed, old
<1>5. y.l = m /\ y.s = t
  BY <1>4
<1>6. at \in 1..Len(s.text) + 1 /\ at \in Nat /\ ended \in BOOLEAN
  BY <1>1, <1>2 DEF Sources
<1>7. /\ t \in Sources /\ t.text = s.text /\ t.kind = s.kind /\ t.at = at
      /\ Unread(t) = Unread(s)
  BY <1>2, <1>6 DEF Sources, Unread
<1>8. /\ m \in LexerStates /\ m.yysbuf = IF n = 0 THEN l.yysbuf ELSE <<>>
      /\ Len(m.yysbuf) = IF n = 0 THEN old ELSE 0
  <2>1. m.yysbuf = (IF n = 0 THEN l.yysbuf ELSE <<>>) /\ <<>> \in Seq(Read) /\ Len(<<>>) = 0
    BY <1>2 DEF LexerStates
  <2>2. m \in LexerStates
    BY <1>2, <2>1 DEF LexerStates
  <2>3. Len(m.yysbuf) = IF n = 0 THEN old ELSE 0
    BY <2>1 DEF old
  <2> QED
    BY <2>1, <2>2, <2>3
<1> HIDE DEF m, t, at
<1>9. Left(m, t) = IF n <= L THEN L - n ELSE 0
  <2>1. Left(m, t) = (IF n = 0 THEN old ELSE 0) + Len(s.text) + 1 - at
    BY <1>7, <1>8 DEF Left
  <2> HIDE <1>4, <1>5
  <2>2. Len(s.text) \in Nat /\ s.at \in Nat
    BY <1>2
  <2>3. CASE n = 0
    BY <1>1, <2>1, <2>2, <2>3 DEF at
  <2>4. CASE n # 0 /\ n > L
    BY <1>1, <2>1, <2>2, <2>4 DEF at
  <2>5. CASE n # 0 /\ ~(n > L)
    <3>1. CASE n > old
      <4>1. at = s.at + n - old
        BY <2>5, <3>1 DEF at
      <4>2. Left(m, t) = Len(s.text) + 1 - at
        BY <2>1, <2>2, <2>5, <4>1, <1>1
      <4>3. n <= L
        BY <1>1, <2>5
      <4>4. Left(m, t) = Len(s.text) + 1 - (s.at + n - old)
        BY <4>1, <4>2
      <4>5. \A len, a \in Nat : len + 1 - (a + n - old) = (old + len + 1 - a) - n
        BY <1>1
      <4>6. Left(m, t) = L - n
        BY <1>1, <2>2, <4>4, <4>5, Zenon
      <4> QED
        BY <4>3, <4>6
    <3>2. CASE ~(n > old)
      <4>1. n = 1 /\ old = 1
        BY <1>1, <2>5, <3>2
      <4> QED
        BY <1>1, <2>1, <2>2, <2>5, <4>1 DEF at
    <3> QED
      BY <3>1, <3>2
  <2> QED
    BY <2>3, <2>4, <2>5
<1>10. Scanned(m, t)
  BY <1>1, <1>6, <1>7, <1>8 DEF Scanned
<1>11. m = IF n = 0 THEN l ELSE Drained(l)
  BY <1>2 DEF m, Drained, LexerStates
<1> QED
  BY <1>4, <1>5, <1>7, <1>9, <1>10, <1>11 DEF Kept, L

LEMMA LexedShape ==
  ASSUME NEW l, NEW s, NEW n, NEW tok, NEW how
  PROVE  /\ Lexed(l, s, n, tok, how).tok = tok /\ Lexed(l, s, n, tok, how).how = how
         /\ Lexed(l, s, n, tok, how) =
              [tok |-> tok, body |-> <<>>, how |-> how, l |-> Lexed(l, s, n, tok, how).l,
               s |-> Lexed(l, s, n, tok, how).s]
BY DEF Lexed

LEMMA LexedToken ==
  ASSUME NEW l, NEW s, Scanned(l, s), NEW n \in 1..Left(l, s) + 1, NEW tok, NEW how
  PROVE  /\ Lexed(l, s, n, tok, how).l = Drained(l)
         /\ Scanned(Drained(l), Lexed(l, s, n, tok, how).s)
         /\ Kept(s, Lexed(l, s, n, tok, how).s)
         /\ Left(Drained(l), Lexed(l, s, n, tok, how).s)
              = IF n <= Left(l, s) THEN Left(l, s) - n ELSE 0
<1> DEFINE y == Lexed(l, s, n, tok, how)
<1>1. n \in 0..Left(l, s) + 1 /\ n # 0
  BY AheadIs
<1>2. /\ y.l = IF n = 0 THEN l ELSE Drained(l)
      /\ Scanned(y.l, y.s) /\ Kept(s, y.s)
      /\ Left(y.l, y.s) = IF n <= Left(l, s) THEN Left(l, s) - n ELSE 0
  BY <1>1, LexedIs
<1> HIDE DEF y
<1>3. y.l = Drained(l)
  BY <1>1, <1>2
<1> QED
  BY <1>2, <1>3 DEF y

LEMMA LexedOwed ==
  ASSUME NEW l, NEW s, Scanned(l, s), NEW n, n = 0, NEW tok, NEW how
  PROVE  /\ Lexed(l, s, n, tok, how).l = l
         /\ Scanned(l, Lexed(l, s, n, tok, how).s)
         /\ Kept(s, Lexed(l, s, n, tok, how).s)
         /\ Left(l, Lexed(l, s, n, tok, how).s) = Left(l, s)
<1> DEFINE y == Lexed(l, s, n, tok, how)
<1>1. n \in 0..Left(l, s) + 1 /\ Left(l, s) \in Nat
  BY AheadIs
<1>2. /\ y.l = IF n = 0 THEN l ELSE Drained(l)
      /\ Scanned(y.l, y.s) /\ Kept(s, y.s)
      /\ Left(y.l, y.s) = IF n <= Left(l, s) THEN Left(l, s) - n ELSE 0
  BY <1>1, LexedIs
<1> HIDE DEF y
<1>3. y.l = l
  BY <1>2
<1> QED
  BY <1>1, <1>2, <1>3 DEF y
-----------------------------------------------------------------------------
(* One token of the lexer.                                                 *)
OpenBrace  == "{"
CloseBrace == "}"
Semicolon  == ";"

\* What is counted: a } whose ; has been returned is still owed.
Counter(l, k) == IF k = "(" THEN l.parencnt ELSE l.bracecnt + Bit(l.sc)

\* A token is paid for with what it reads, or was announced before.
Spends(l, s, y) ==
  /\ y.l.yysbuf # <<>> => ~y.l.sc /\ y.tok # "/"
  /\ 1 + 2 * Left(y.l, y.s) + Bit(y.l.sc) + Bit(y.tok = "/")
       <= 2 * Left(l, s) + Bit(l.reg) + Bit(l.sc) + (IF y.l.yysbuf = <<EOT>> THEN 2 ELSE 0)

GoodToken(l, s, y) ==
  /\ \A k \in Pairs : Counter(y.l, k) = Counter(l, k) + Delta(k, y.tok)
  /\ y.tok = EOT => y.l.yysbuf = <<>> /\ ~y.l.sc /\ ~l.sc
  /\ y.tok # EOT /\ (l.yysbuf # <<>> => ~l.sc) => Spends(l, s, y)

Good(l, s, y) == /\ Scanned(y.l, y.s) /\ Kept(s, y.s)
                 /\ y.how \in {"ok", "syntax", "fatal"}
                 /\ y.how = "ok" => GoodToken(l, s, y)

LEMMA DeltaOf ==
  ASSUME NEW k \in Pairs
  PROVE  /\ \A x : x \notin {OpenBrace, CloseBrace, "(", ")"} => Delta(k, x) = 0
         /\ k = "(" => /\ Delta(k, OpenBrace) = 0 /\ Delta(k, CloseBrace) = 0
                       /\ Delta(k, "(") = 1 /\ Delta(k, ")") = 0 - 1
         /\ k # "(" => /\ Delta(k, OpenBrace) = 1 /\ Delta(k, CloseBrace) = 0 - 1
                       /\ Delta(k, "(") = 0 /\ Delta(k, ")") = 0
<1>1. -1 = 0 - 1
  OBVIOUS
<1> QED
  BY <1>1, Zenon DEF Delta, Closer, Pairs, OpenBrace, CloseBrace

LEMMA CounterIs ==
  ASSUME NEW l, NEW k
  PROVE  /\ k = "(" => Counter(l, k) = l.parencnt
         /\ k # "(" => Counter(l, k) = l.bracecnt + Bit(l.sc)
BY DEF Counter

\* A character that counts nothing, read or put back.
LEMMA PlainToken ==
  ASSUME NEW l, NEW s, Scanned(l, s), ~l.sc, NEW n \in 1..Left(l, s) + 1, NEW tok,
         tok \notin {OpenBrace, CloseBrace, "(", ")"}, tok # EOT => Left(l, s) >= 1
  PROVE  Good(l, s, Lexed(l, s, n, tok, "ok"))
<1> DEFINE y == Lexed(l, s, n, tok, "ok")
           L == Left(l, s)
<1>0. l \in LexerStates /\ L \in Nat
  BY AheadIs DEF Scanned
<1>1. /\ y.tok = tok /\ y.how = "ok" /\ y.l = Drained(l)
      /\ Scanned(y.l, y.s) /\ Kept(s, y.s)
      /\ Left(y.l, y.s) = IF n <= L THEN L - n ELSE 0
  BY LexedToken, LexedShape
<1> HIDE DEF y, L
<1>2. y.l.yysbuf = <<>> /\ y.l.sc = FALSE /\ y.l.bracecnt = l.bracecnt
        /\ y.l.parencnt = l.parencnt
  <2>1. y.l = Lexing(l.sc, l.reg, l.bracecnt, l.parencnt, <<>>)
    BY <1>0, <1>1, LexerStatesAre
  <2> QED
    BY <2>1, LexingIs
<1>3. \A k \in Pairs : Counter(y.l, k) = Counter(l, k) + Delta(k, y.tok)
  BY <1>0, <1>1, <1>2, DeltaOf DEF Counter, Bit, LexerStates
<1>4. ASSUME tok # EOT PROVE Spends(l, s, y)
  <2>1. L >= 1 /\ n \in Nat /\ n >= 1
    BY <1>0, <1>4 DEF L
  <2>2. Left(y.l, y.s) + 1 <= L /\ Left(y.l, y.s) \in Nat
    <3>1. CASE n <= L
      BY <1>0, <1>1, <2>1, <3>1
    <3>2. CASE ~(n <= L)
      BY <1>0, <1>1, <2>1, <3>2
    <3> QED
      BY <3>1, <3>2
  <2> QED
    BY <1>0, <1>1, <1>2, <2>1, <2>2 DEF Spends, Bit, L
<1> QED
  BY <1>1, <1>2, <1>3, <1>4 DEF Good, GoodToken, y

\* What is read and put back: the character after the token, or the end.
Lexemes == {"BEGIN", "VAR", "CALL", "REGEXPR"}

LEMMA UnputToken ==
  ASSUME NEW l, NEW s, Scanned(l, s), ~l.sc, NEW n \in 1..Left(l, s) + 1, NEW c \in Read,
         NEW tok \in Lexemes,
         Left(l, s) >= 1, n > Left(l, s) => c = EOT, n >= 2 \/ l.reg
  PROVE  /\ Good(l, s, unput(Lexed(Unslashed(l), s, n, tok, "ok"), c))
         /\ unput(Lexed(Unslashed(l), s, n, tok, "ok"), c).tok = tok
<1> DEFINE m == Unslashed(l)
           x == Lexed(m, s, n, tok, "ok")
           y == unput(x, c)
           L == Left(l, s)
<1>0. /\ Scanned(m, s) /\ Left(m, s) = L /\ l \in LexerStates /\ m \in LexerStates
      /\ Drained(m) \in LexerStates
      /\ Drained(m) = Lexing(l.sc, No, l.bracecnt, l.parencnt, <<>>)
  <2>1. l \in LexerStates
    BY DEF Scanned
  <2>2. m \in LexerStates /\ m = Lexing(l.sc, No, l.bracecnt, l.parencnt, l.yysbuf)
    BY <2>1, LexerStatesAre
  <2> HIDE DEF m
  <2>3. m.sc = l.sc /\ m.bracecnt = l.bracecnt /\ m.parencnt = l.parencnt /\ m.yysbuf = l.yysbuf
    BY <2>2, LexingIs
  <2>4. [m EXCEPT !.yysbuf = <<>>] = Lexing(l.sc, No, l.bracecnt, l.parencnt, <<>>)
    BY <2>2, LexingIs
  <2>5. Drained(m) \in LexerStates
    BY <2>2, LexerStatesAre
  <2>6. Scanned(m, s) /\ Left(m, s) = L
    BY <2>2, <2>3 DEF Scanned, Left
  <2> QED
    BY <2>1, <2>2, <2>4, <2>5, <2>6 DEF Drained
<1>1. /\ x = [tok |-> tok, body |-> <<>>, how |-> "ok", l |-> x.l, s |-> x.s]
      /\ x.l = Drained(m)
      /\ Scanned(x.l, x.s) /\ Kept(s, x.s)
      /\ Left(x.l, x.s) = IF n <= L THEN L - n ELSE 0
      /\ L \in Nat /\ n \in Nat /\ n >= 1 /\ L >= 1
  <2> HIDE DEF m
  <2>1. n \in 1..Left(m, s) + 1
    BY <1>0
  <2>2. x = [tok |-> tok, body |-> <<>>, how |-> "ok", l |-> x.l, s |-> x.s]
    BY LexedShape
  <2>5. Scanned(m, s)
    BY <1>0
  <2>0. x.l = Drained(m)
    BY <2>5, <2>1, LexedToken, SMT
  <2>3. /\ Scanned(Drained(m), x.s) /\ Kept(s, x.s)
        /\ Left(Drained(m), x.s) = IF n <= Left(m, s) THEN Left(m, s) - n ELSE 0
    BY <2>5, <2>1, LexedToken, SMT
  <2>4. L \in Nat /\ n \in Nat /\ n >= 1 /\ L >= 1
    BY AheadIs
  <2> HIDE DEF x, L
  <2> QED
    BY <1>0, <2>0, <2>2, <2>3, <2>4
<1>2. y = [x EXCEPT !.l.yysbuf = Append(@, c)]
  BY DEF unput
<1> HIDE DEF x, y, L, m
<1>3. x.l = Lexing(l.sc, No, l.bracecnt, l.parencnt, <<>>) /\ x.l \in LexerStates
  BY <1>0, <1>1, Zenon
<1>4. /\ y.tok = tok /\ y.how = "ok" /\ y.s = x.s
      /\ y.l = Lexing(l.sc, No, l.bracecnt, l.parencnt, <<c>>)
  <2> DEFINE q == x.l
             t == x.s
             z == [q EXCEPT !.yysbuf = <<c>>]
  <2>1. q.yysbuf = <<>> /\ Append(<<>>, c) = <<c>>
    BY <1>3, LexingIs
  <2>2. z = Lexing(l.sc, No, l.bracecnt, l.parencnt, <<c>>)
    BY <1>3, LexingIs
  <2>3. x = [tok |-> tok, body |-> <<>>, how |-> "ok", l |-> q, s |-> t]
    BY <1>1
  <2> HIDE DEF q, t
  <2>4. y = [tok |-> tok, body |-> <<>>, how |-> "ok", l |-> [q EXCEPT !.yysbuf = Append(@, c)], s |-> t]
    BY <1>2, <2>3
  <2>5. [q EXCEPT !.yysbuf = Append(@, c)] = z
    BY <2>1
  <2> HIDE DEF z
  <2>6. y.tok = tok /\ y.how = "ok" /\ y.s = t /\ y.l = z
    BY <2>4, <2>5
  <2> QED
    BY <2>2, <2>6 DEF t
<1>5. /\ y.l.yysbuf = <<c>> /\ y.l.sc = FALSE /\ y.l.bracecnt = l.bracecnt
      /\ y.l.parencnt = l.parencnt /\ y.l \in LexerStates
  <2>1. <<c>> \in Seq(Read) /\ No \in BOOLEAN
    BY YesAndNo
  <2>2. l.sc \in BOOLEAN /\ l.bracecnt \in Int /\ l.parencnt \in Int
    BY <1>0, LexerStateIs
  <2>3. y.l \in LexerStates
    BY <1>4, <2>1, <2>2, LexingTyped
  <2>4. y.l.yysbuf = <<c>> /\ y.l.sc = l.sc /\ y.l.bracecnt = l.bracecnt
          /\ y.l.parencnt = l.parencnt
    BY <1>4, LexingIs
  <2> QED
    BY <2>2, <2>3, <2>4
<1>6. Scanned(y.l, y.s) /\ Kept(s, y.s) /\ x.l.yysbuf = <<>>
  <2>1. x.l.yysbuf = <<>>
    BY <1>3, LexingIs
  <2>2. Len(<<c>>) <= 1
    OBVIOUS
  <2> QED
    BY <1>1, <1>4, <1>5, <2>1, <2>2 DEF Scanned
<1>7. Left(y.l, y.s) = 1 + Left(x.l, x.s)
  <2>1. x.s.at \in Nat /\ Len(x.s.text) \in Nat
    BY <1>1, LenProperties DEF Scanned, Sources
  <2>2. Len(<<c>>) = 1 /\ Len(<<>>) = 0
    OBVIOUS
  <2>3. Left(y.l, y.s) = 1 + Len(x.s.text) + 1 - x.s.at
    BY <1>4, <1>5, <2>2 DEF Left
  <2>4. Left(x.l, x.s) = 0 + Len(x.s.text) + 1 - x.s.at
    BY <1>6, <2>2 DEF Left
  <2>5. \A len, at \in Nat : 1 + len + 1 - at = 1 + (0 + len + 1 - at)
    OBVIOUS
  <2> QED
    BY <2>1, <2>3, <2>4, <2>5, Zenon
<1>8. \A k \in Pairs : Counter(y.l, k) = Counter(l, k) + Delta(k, y.tok)
  <2>1. tok \notin {OpenBrace, CloseBrace, "(", ")"}
    BY Zenon DEF OpenBrace, CloseBrace, Lexemes
  <2> QED
    BY <1>0, <1>4, <1>5, <2>1, DeltaOf DEF Counter, Bit, LexerStates
<1>9. tok # EOT /\ tok # "/"
  BY DEF EOT, Lexemes
<1>10. Spends(l, s, y)
  <2>0. /\ Bit(y.l.sc) = 0 /\ Bit(y.tok = "/") = 0 /\ Bit(l.sc) = 0 /\ Bit(l.reg) \in Nat
        /\ y.l.yysbuf # <<>> /\ ~y.l.sc /\ y.tok # "/"
    <3>1. y.l.yysbuf # <<>>
      BY <1>5
    <3>2. y.tok # "/" /\ ~y.l.sc
      BY <1>4, <1>5, <1>9
    <3>3. Bit(y.tok = "/") = 0 /\ Bit(y.l.sc) = 0 /\ Bit(l.sc) = 0
      BY <3>2, Zenon DEF Bit
    <3>4. Bit(l.reg) \in Nat
      BY DEF Bit
    <3> QED
      BY <3>1, <3>2, <3>3, <3>4
  <2>1. CASE n > L
    <3>1. c = EOT /\ Left(y.l, y.s) = 1
      BY <1>1, <1>7, <2>1 DEF L
    <3> QED
      BY <1>1, <1>5, <2>0, <3>1 DEF Spends, L
  <2>2. CASE ~(n > L)
    <3>1. Left(y.l, y.s) = 1 + (L - n)
      BY <1>1, <1>7, <2>2
    <3>2. n >= 2 \/ Bit(l.reg) = 1
      BY DEF Bit
    <3>3. 1 + 2 * Left(y.l, y.s) <= 2 * L + Bit(l.reg)
      BY <1>1, <3>1, <3>2, <2>2 DEF Bit
    <3> QED
      BY <1>1, <2>0, <2>2, <3>1, <3>3 DEF Spends, L
  <2> QED
    BY <2>1, <2>2
<1> QED
  BY <1>4, <1>6, <1>8, <1>9, <1>10 DEF Good, GoodToken, y, x, m

\* What goes wrong is read, too.
LEMMA BadToken ==
  ASSUME NEW l, NEW s, Scanned(l, s), NEW n \in 1..Left(l, s) + 1, NEW tok, NEW how,
         how = "syntax" \/ how = "fatal"
  PROVE  Good(l, s, Lexed(l, s, n, tok, how))
<1> DEFINE y == Lexed(l, s, n, tok, how)
<1>1. n \in 0..Left(l, s) + 1
  BY AheadIs
<1>2. Scanned(y.l, y.s) /\ Kept(s, y.s)
  BY <1>1, LexedIs, Zenon
<1>3. y.how = how
  BY DEF Lexed
<1> HIDE DEF y
<1>4. how # "ok" /\ how \in {"ok", "syntax", "fatal"}
  OBVIOUS
<1> QED
  BY <1>2, <1>3, <1>4, Zenon DEF Good, y
-----------------------------------------------------------------------------
(* What the tokens with a case of their own do to the counters.            *)
LEMMA CountsIs ==
  ASSUME NEW y, NEW tok, NEW how, NEW body, NEW t, NEW d,
         NEW c, NEW r, NEW b, NEW p, NEW u,
         y = [tok |-> tok, body |-> body, how |-> how, l |-> Lexing(c, r, b, p, u), s |-> t]
  PROVE  /\ Counts(y, "bracecnt", d) =
              [tok |-> tok, body |-> body, how |-> how, l |-> Lexing(c, r, b + d, p, u), s |-> t]
         /\ Counts(y, "parencnt", d) =
              [tok |-> tok, body |-> body, how |-> how, l |-> Lexing(c, r, b, p + d, u), s |-> t]
<1> DEFINE m == Lexing(c, r, b, p, u)
<1>1. /\ Counts(y, "bracecnt", d) = [y EXCEPT !.l.bracecnt = @ + d]
      /\ Counts(y, "parencnt", d) = [y EXCEPT !.l.parencnt = @ + d]
  BY DEF Counts
<1>2. /\ [m EXCEPT !.bracecnt = @ + d] = Lexing(c, r, b + d, p, u)
      /\ [m EXCEPT !.parencnt = @ + d] = Lexing(c, r, b, p + d, u)
  BY DEF Lexing
<1> HIDE DEF m
<1>3. y.l = m
  BY DEF m
<1>4. [y EXCEPT !.l.bracecnt = @ + d] = [tok |-> tok, body |-> body, how |-> how,
                                         l |-> [m EXCEPT !.bracecnt = @ + d], s |-> t]
  BY <1>3
<1>5. [y EXCEPT !.l.parencnt = @ + d] = [tok |-> tok, body |-> body, how |-> how,
                                         l |-> [m EXCEPT !.parencnt = @ + d], s |-> t]
  BY <1>3
<1> QED
  BY <1>1, <1>2, <1>4, <1>5

\* A brace or a parenthesis.
Counted(l, tok, c, b, p) ==
  \A k \in Pairs : (IF k = "(" THEN p ELSE b + Bit(c)) = Counter(l, k) + Delta(k, tok)

LEMMA CountedToken ==
  ASSUME NEW l, NEW s, Scanned(l, s), ~l.sc, NEW n \in 1..Left(l, s), NEW tok, NEW tok1,
         NEW how,
         tok # EOT, tok # "/", how \in {"ok", "syntax"},
         NEW b \in Int, NEW p \in Int, NEW c \in BOOLEAN, NEW y,
         y = [tok |-> tok, body |-> <<>>, how |-> how,
              l |-> Lexing(c, l.reg, b, p, <<>>),
              s |-> Lexed(l, s, n, tok1, how).s],
         how = "ok" => Counted(l, tok, c, b, p)
  PROVE  Good(l, s, y)
<1> DEFINE x == Lexed(l, s, n, tok1, how)
           L == Left(l, s)
<1>1. /\ Scanned(Drained(l), x.s) /\ Kept(s, x.s)
      /\ Left(Drained(l), x.s) = L - n
      /\ L \in Nat /\ l \in LexerStates /\ n \in Nat /\ n >= 1
  <2>1. n \in 1..L + 1 /\ L \in Nat /\ n <= L /\ n \in Nat /\ n >= 1 /\ l \in LexerStates
    BY AheadIs DEF Scanned
  <2>2. /\ Scanned(Drained(l), x.s) /\ Kept(s, x.s)
        /\ Left(Drained(l), x.s) = IF n <= L THEN L - n ELSE 0
    BY <2>1, LexedToken
  <2> HIDE DEF x, L
  <2> QED
    BY <2>1, <2>2
<1> HIDE DEF x, L
<1>2. /\ y.l = Lexing(c, l.reg, b, p, <<>>)
      /\ y.s = x.s /\ y.tok = tok /\ y.how = how
  BY DEF x
<1>3. /\ y.l.yysbuf = <<>> /\ y.l.sc = c /\ y.l.bracecnt = b /\ y.l.parencnt = p
      /\ y.l \in LexerStates /\ Drained(l).yysbuf = <<>>
  <2>1. <<>> \in Seq(Read)
    OBVIOUS
  <2> QED
    <3>1. y.l = Lexing(c, l.reg, b, p, <<>>) /\ l.reg \in BOOLEAN
      BY <1>1, <1>2, LexerStateIs
    <3>2. y.l.yysbuf = <<>> /\ y.l.sc = c /\ y.l.bracecnt = b /\ y.l.parencnt = p
      BY <3>1, LexingIs
    <3>3. y.l \in LexerStates
      BY <2>1, <3>1, LexingTyped
    <3>4. Drained(l).yysbuf = <<>>
      <4>1. Drained(l) = Lexing(l.sc, l.reg, l.bracecnt, l.parencnt, <<>>)
        BY <1>1, LexerStatesAre
      <4> QED
        BY <4>1, LexingIs
    <3> QED
      BY <3>2, <3>3, <3>4
<1>4. Scanned(y.l, y.s) /\ Kept(s, y.s) /\ Left(y.l, y.s) = L - n
  BY <1>1, <1>2, <1>3 DEF Scanned, Left
<1>5. Spends(l, s, y)
  BY <1>1, <1>2, <1>3, <1>4 DEF Spends, Bit, L
<1>6. ASSUME how = "ok" PROVE \A k \in Pairs : Counter(y.l, k) = Counter(l, k) + Delta(k, y.tok)
  BY <1>2, <1>3, <1>6 DEF Counter, Counted
<1>7. y.how \in {"ok", "syntax", "fatal"}
  BY <1>2
<1> QED
  BY <1>2, <1>4, <1>5, <1>6, <1>7, Zenon DEF Good, GoodToken

\* The } whose ; has been returned.
LEMMA OwedToken ==
  ASSUME NEW l, NEW s, Scanned(l, s), l.sc
  PROVE  Good(l, s, Lexed(Settled(l), s, 0, CloseBrace, "ok"))
<1> DEFINE m == Settled(l)
           y == Lexed(m, s, 0, CloseBrace, "ok")
           L == Left(l, s)
<1>1. /\ l \in LexerStates /\ m \in LexerStates
      /\ m = Lexing(No, l.reg, l.bracecnt, l.parencnt, l.yysbuf)
  BY LexerStatesAre DEF Scanned
<1> HIDE DEF m
<1>2. Scanned(m, s) /\ Left(m, s) = L /\ L \in Nat
  <2>1. m.yysbuf = l.yysbuf
    BY <1>1, LexingIs
  <2> QED
    BY <1>1, <2>1, AheadIs DEF Scanned, Left
<1>3. /\ y.tok = CloseBrace /\ y.how = "ok"
      /\ y.l = m /\ Scanned(m, y.s) /\ Kept(s, y.s)
      /\ Left(m, y.s) = L
  <2>1. y.tok = CloseBrace /\ y.how = "ok"
    BY LexedShape
  <2>2. Scanned(m, s)
    BY <1>2
  <2>3. y.l = m /\ Scanned(m, y.s) /\ Kept(s, y.s) /\ Left(m, y.s) = Left(m, s)
    BY <2>2, LexedOwed, SMT
  <2> HIDE DEF y
  <2> QED
    BY <1>2, <2>1, <2>3
<1> HIDE DEF y, L
<1>4. /\ y.l.yysbuf = l.yysbuf /\ ~y.l.sc /\ Bit(y.l.sc) = 0 /\ y.l.bracecnt = l.bracecnt
      /\ y.l.parencnt = l.parencnt /\ l.bracecnt \in Int /\ l.parencnt \in Int
      /\ Bit(l.sc) = 1 /\ Bit(l.reg) \in Nat
  <2>1. /\ y.l.yysbuf = l.yysbuf /\ y.l.sc = No /\ y.l.bracecnt = l.bracecnt
        /\ y.l.parencnt = l.parencnt
    BY <1>1, <1>3, LexingIs
  <2>2. l.bracecnt \in Int /\ l.parencnt \in Int
    BY <1>1, LexerStateIs
  <2>3. Bit(l.sc) = 1 /\ Bit(l.reg) \in Nat
    BY DEF Bit
  <2> QED
    BY <2>1, <2>2, <2>3, YesAndNo
<1>5. \A k \in Pairs : Counter(y.l, k) = Counter(l, k) + Delta(k, y.tok)
  <2> SUFFICES ASSUME NEW k \in Pairs PROVE Counter(y.l, k)
    = Counter(l, k) + Delta(k, CloseBrace)
    BY <1>3
  <2>1. CASE k = "("
    BY <1>4, <2>1, DeltaOf, CounterIs
  <2>2. CASE k # "("
    <3>1. Counter(y.l, k) = l.bracecnt + 0 /\ Counter(l, k) = l.bracecnt + 1
      BY <1>4, <2>2, CounterIs
    <3>2. Delta(k, CloseBrace) = 0 - 1
      BY <2>2, DeltaOf
    <3>3. \A q \in Int : q + 0 = (q + 1) + (0 - 1)
      OBVIOUS
    <3> QED
      BY <1>4, <3>1, <3>2, <3>3, Zenon
  <2> QED
    BY <2>1, <2>2
<1>6. y.tok # EOT /\ y.tok # "/"
  BY <1>3, Zenon DEF CloseBrace, EOT
<1>7. ASSUME l.yysbuf # <<>> => ~l.sc PROVE Spends(l, s, y)
  <2>1. y.l.yysbuf = <<>>
    BY <1>4, <1>7
  <2>2. Left(y.l, y.s) = Left(l, s) /\ Left(l, s) \in Nat
    BY <1>2, <1>3 DEF L
  <2> QED
    <3>1. Bit(y.tok = "/") = 0
      BY <1>6, Zenon DEF Bit
    <3> QED
      <4>1. \A n, r, e \in Nat : 1 + 2 * n + 0 + 0 <= 2 * n + r + 1 + e
        OBVIOUS
      <4>2. (IF y.l.yysbuf = <<EOT>> THEN 2 ELSE 0) \in Nat
        OBVIOUS
      <4> HIDE DEF L
      <4>3. 1 + 2 * Left(y.l, y.s) + Bit(y.l.sc) + Bit(y.tok = "/")
              <= 2 * Left(l, s) + Bit(l.reg) + Bit(l.sc) + (IF y.l.yysbuf = <<EOT>> THEN 2 ELSE 0)
        BY <1>4, <2>2, <3>1, <4>1, <4>2, Zenon
      <4> QED
        BY <2>1, <4>3, Zenon DEF Spends
<1>8. Scanned(y.l, y.s)
  BY <1>3
<1> QED
  BY <1>3, <1>5, <1>6, <1>7, <1>8, Zenon DEF Good, GoodToken, y, m

\* The case of a closing token.
LEMMA ClosingIs ==
  ASSUME NEW l, NEW s, Scanned(l, s), ~l.sc, NEW k \in 1..Left(l, s),
         input(l, s, k) = CloseBrace \/ input(l, s, k) = ")"
  PROVE  Good(l, s, Closing(l, s, k))
<1> DEFINE X(tok, how) == Lexed(l, s, k, tok, how)
           b == l.bracecnt
           p == l.parencnt
           c == l.sc
<1>1. l \in LexerStates /\ b \in Int /\ p \in Int /\ ~c /\ c \in BOOLEAN /\ Bit(c) = 0
  BY LexerStateIs DEF Scanned, Bit
<1>2. k \in 1..Left(l, s) + 1
  BY AheadIs
<1>3. Drained(l) = Lexing(c, l.reg, b, p, <<>>)
  BY <1>1, LexerStatesAre
<1>4. \A tok, how : X(tok, how) = [tok |-> tok, body |-> <<>>, how |-> how,
                                  l |-> Lexing(c, l.reg, b, p, <<>>), s |-> X(tok, how).s]
  <2>1. \A tok, how : X(tok, how).l = Drained(l)
    BY <1>2, LexedToken
  <2>2. \A tok, how : X(tok, how) = [tok |-> tok, body |-> <<>>, how |-> how,
                                     l |-> X(tok, how).l, s |-> X(tok, how).s]
    BY LexedShape
  <2> HIDE DEF X, b, p, c
  <2> QED
    BY <1>3, <2>1, <2>2
<1> HIDE DEF X
<1>5. \A tok, how :
        /\ Counts(X(tok, how), "bracecnt", -1) =
             [tok |-> tok, body |-> <<>>, how |-> how,
              l |-> Lexing(c, l.reg, b + (-1), p, <<>>), s |-> X(tok, how).s]
        /\ Counts(X(tok, how), "parencnt", -1) =
             [tok |-> tok, body |-> <<>>, how |-> how,
              l |-> Lexing(c, l.reg, b, p + (-1), <<>>), s |-> X(tok, how).s]
  <2> HIDE DEF b, p, c
  <2> QED
    BY <1>4, CountsIs
<1>6. b + (-1) \in Int /\ p + (-1) \in Int
  BY <1>1
<1>7. CASE input(l, s, k) = CloseBrace
  <2>1. CloseBrace # EOT /\ CloseBrace # "/" /\ Semicolon # EOT /\ Semicolon # "/"
        /\ Semicolon \notin {OpenBrace, CloseBrace, "(", ")"}
    BY Zenon DEF CloseBrace, OpenBrace, Semicolon, EOT
  <2>2. CASE b <= 0
    <3> DEFINE y == Closing(l, s, k)
    <3>1. y = Counts(X(CloseBrace, "syntax"), "bracecnt", -1)
      BY <1>7, <2>2, Zenon DEF Closing, CloseBrace, X
    <3>2. y = [tok |-> CloseBrace, body |-> <<>>, how |-> "syntax",
               l |-> Lexing(c, l.reg, b + (-1), p, <<>>), s |-> X(CloseBrace, "syntax").s]
      BY <1>5, <3>1
    <3> HIDE DEF y, b, p, c
    <3>3. "syntax" \in {"ok", "syntax"} /\ "syntax" # "ok"
      OBVIOUS
    <3>4. Good(l, s, y)
      <4> DEFINE d == b + (-1)
                 h == "syntax"
      <4>1. d \in Int /\ p \in Int /\ c \in BOOLEAN /\ h \in {"ok", "syntax"} /\ h # "ok"
        BY <1>1, <1>6
      <4>2. y = [tok |-> CloseBrace, body |-> <<>>, how |-> h,
                 l |-> Lexing(c, l.reg, d, p, <<>>), s |-> Lexed(l, s, k, CloseBrace, h).s]
        BY <3>2 DEF X
      <4> HIDE DEF d, h
      <4> QED
        BY <2>1, <4>1, <4>2, CountedToken
    <3> QED
      BY <3>4 DEF y
  <2>3. CASE ~(b <= 0)
    <3> DEFINE y == Closing(l, s, k)
               z == Counts(X(Semicolon, "ok"), "bracecnt", -1)
               d == b + (-1)
               h == "ok"
               m == Lexing(c, l.reg, d, p, <<>>)
    <3>1. y = [z EXCEPT !.l.sc = TRUE]
      BY <1>7, <2>3, Zenon DEF Closing, CloseBrace, Semicolon, X
    <3>2. z = [tok |-> Semicolon, body |-> <<>>, how |-> h, l |-> m, s |-> X(Semicolon, h).s]
      BY <1>5
    <3> HIDE DEF y, z, h
    <3>3. [m EXCEPT !.sc = Yes] = Lexing(Yes, l.reg, d, p, <<>>)
      BY LexingIs
    <3> HIDE DEF b, p, c
    <3>4. Good(l, s, y)
      <4> HIDE DEF m
      <4>0. l \in LexerStates
        BY <1>1
      <4>1. d \in Int /\ p \in Int /\ Yes \in BOOLEAN /\ h \in {"ok", "syntax"}
        BY <1>1, <1>6, YesAndNo DEF h
      <4>2. Counted(l, Semicolon, Yes, d, p)
        <5> SUFFICES ASSUME NEW q \in Pairs
                     PROVE  (IF q = "(" THEN p ELSE d + Bit(Yes)) = Counter(l, q) + Delta(q, Semicolon)
          BY DEF Counted
        <5>1. Delta(q, Semicolon) = 0
          BY <2>1, DeltaOf
        <5>2. CASE q = "("
          BY <1>1, <5>1, <5>2, CounterIs DEF p
        <5>3. CASE q # "("
          <6>1. Counter(l, q) = b + 0 /\ Bit(Yes) = 1
            BY <1>1, <5>3, CounterIs, YesAndNo DEF b, c
          <6>2. \A e \in Int : (e + (-1)) + 1 = (e + 0) + 0
            OBVIOUS
          <6>3. d + Bit(Yes) = Counter(l, q) + Delta(q, Semicolon)
            BY <1>1, <5>1, <6>1, <6>2, Zenon DEF d
          <6> QED
            BY <5>3, <6>3
        <5> QED
          BY <5>2, <5>3
      <4> HIDE DEF d
      <4>3. y = [tok |-> Semicolon, body |-> <<>>, how |-> h,
                 l |-> Lexing(Yes, l.reg, d, p, <<>>), s |-> Lexed(l, s, k, Semicolon, h).s]
        <5>1. y = [z EXCEPT !.l.sc = Yes]
          BY <3>1 DEF Yes
        <5>2. z.l = m
          BY <3>2
        <5>3. [z EXCEPT !.l.sc = Yes] = [tok |-> Semicolon, body |-> <<>>, how |-> h,
                                         l |-> [m EXCEPT !.sc = Yes], s |-> X(Semicolon, h).s]
          BY <3>2, <5>2
        <5> QED
          BY <3>3, <5>1, <5>3 DEF X
      <4> QED
        BY <2>1, <4>1, <4>2, <4>3, CountedToken, SMT
    <3> QED
      BY <3>4 DEF y
  <2> QED
    BY <2>2, <2>3
<1>8. CASE input(l, s, k) = ")"
  <2>1. ")" # EOT /\ ")" # "/"
    BY Zenon DEF EOT
  <2> DEFINE y == Closing(l, s, k)
             d == p + (-1)
             how == IF p <= 0 THEN "syntax" ELSE "ok"
             tok == ")"
  <2>2. y = Counts(X(tok, how), "parencnt", -1)
    BY <1>8, Zenon DEF Closing, X
  <2>3. how \in {"ok", "syntax"}
    OBVIOUS
  <2> HIDE DEF how, y
  <2>4. y = [tok |-> tok, body |-> <<>>, how |-> how,
             l |-> Lexing(c, l.reg, b, d, <<>>), s |-> X(tok, how).s]
    BY <1>5, <2>2
  <2>5. Counted(l, tok, c, b, d)
    BY <1>1, DeltaOf DEF Counter, Counted
  <2>6. tok # EOT /\ tok # "/" /\ d \in Int
    BY <1>6, <2>1
  <2> HIDE DEF b, c, d, tok
  <2>7. Good(l, s, y)
    <3>1. y = [tok |-> tok, body |-> <<>>, how |-> how,
               l |-> Lexing(c, l.reg, b, d, <<>>), s |-> Lexed(l, s, k, tok, how).s]
      BY <2>4 DEF X
    <3>2. b \in Int /\ c \in BOOLEAN
      BY <1>1
    <3> QED
      BY <2>3, <2>5, <2>6, <3>1, <3>2, CountedToken
  <2> QED
    BY <2>7 DEF y
<1> QED
  BY <1>7, <1>8

\* The case of an opening token.
LEMMA OpeningIs ==
  ASSUME NEW l, NEW s, Scanned(l, s), ~l.sc, NEW k \in 1..Left(l, s), NEW tok, NEW name,
         (tok = OpenBrace /\ name = "bracecnt") \/ (tok = "(" /\ name = "parencnt")
  PROVE  Good(l, s, Counts(Lexed(l, s, k, tok, "ok"), name, 1))
<1> DEFINE h == "ok"
           x == Lexed(l, s, k, tok, h)
           y == Counts(x, name, 1)
           b == l.bracecnt
           p == l.parencnt
           c == l.sc
           d == IF tok = "(" THEN b ELSE b + 1
           e == IF tok = "(" THEN p + 1 ELSE p
<1>1. l \in LexerStates /\ b \in Int /\ p \in Int /\ ~c /\ c \in BOOLEAN /\ Bit(c) = 0
  BY LexerStateIs DEF Scanned, Bit
<1>2. k \in 1..Left(l, s) + 1
  BY AheadIs
<1>3. Drained(l) = Lexing(c, l.reg, b, p, <<>>)
  BY <1>1, LexerStatesAre
<1>4. x = [tok |-> tok, body |-> <<>>, how |-> h, l |-> Lexing(c, l.reg, b, p, <<>>), s |-> x.s]
  <2> HIDE DEF h, b, p, c
  <2>1. x.l = Drained(l)
    BY <1>2, LexedToken
  <2>2. x = [tok |-> tok, body |-> <<>>, how |-> h, l |-> x.l, s |-> x.s]
    BY LexedShape
  <2> HIDE DEF x
  <2> QED
    BY <1>3, <2>1, <2>2
<1>5. tok # EOT /\ tok # "/" /\ OpenBrace # "("
  BY Zenon DEF OpenBrace, EOT
<1>6. y = [tok |-> tok, body |-> <<>>, how |-> h, l |-> Lexing(c, l.reg, d, e, <<>>), s |-> x.s]
  <2> HIDE DEF x, b, p, c, h
  <2>1. /\ Counts(x, "bracecnt", 1) = [tok |-> tok, body |-> <<>>, how |-> h,
                                       l |-> Lexing(c, l.reg, b + 1, p, <<>>), s |-> x.s]
        /\ Counts(x, "parencnt", 1) = [tok |-> tok, body |-> <<>>, how |-> h,
                                       l |-> Lexing(c, l.reg, b, p + 1, <<>>), s |-> x.s]
    <3> DEFINE t == x.s
               r == l.reg
    <3>1. x = [tok |-> tok, body |-> <<>>, how |-> h, l |-> Lexing(c, r, b, p, <<>>), s |-> t]
      BY <1>4
    <3> HIDE DEF t, r
    <3>2. \A n : /\ Counts(x, "bracecnt", n) = [tok |-> tok, body |-> <<>>, how |-> h,
                                       l |-> Lexing(c, r, b + n, p, <<>>), s |-> t]
                 /\ Counts(x, "parencnt", n) = [tok |-> tok, body |-> <<>>, how |-> h,
                                       l |-> Lexing(c, r, b, p + n, <<>>), s |-> t]
      BY <3>1, CountsIs
    <3> QED
      BY <3>2 DEF t, r
  <2>2. CASE tok = OpenBrace /\ name = "bracecnt"
    BY <1>5, <2>1, <2>2
  <2>3. CASE tok = "(" /\ name = "parencnt"
    BY <2>1, <2>3
  <2> QED
    BY <2>2, <2>3
<1>7. d \in Int /\ e \in Int
  BY <1>1
<1>8. Counted(l, tok, c, d, e)
  <2> SUFFICES ASSUME NEW q \in Pairs
               PROVE  (IF q = "(" THEN e ELSE d + Bit(c)) = Counter(l, q) + Delta(q, tok)
    BY DEF Counted
  <2>1. /\ q = "(" => Counter(l, q) = p
        /\ q # "(" => Counter(l, q) = b + 0
    BY <1>1, CounterIs
  <2>2. CASE tok = OpenBrace
    BY <1>1, <1>5, <2>1, <2>2, DeltaOf
  <2>3. CASE tok = "("
    BY <1>1, <1>5, <2>1, <2>3, DeltaOf
  <2> QED
    BY <2>2, <2>3
<1>9. h \in {"ok", "syntax"}
  OBVIOUS
<1> HIDE DEF y, h, d, e, b, p
<1>10. Good(l, s, y)
  BY <1>1, <1>5, <1>6, <1>7, <1>8, <1>9, CountedToken DEF x
<1> QED
  BY <1>10 DEF y, h
-----------------------------------------------------------------------------
(* The names, the expressions and the other tokens, each a good token.     *)
LEMMA LetterSet == EOT \notin Letter /\ EOT # NoFile
BY Zenon DEF EOT, Letter, NoFile

LEMMA NameIs ==
  ASSUME NEW l, NEW s, Scanned(l, s), ~l.sc, ~l.reg, NEW k \in 1..Left(l, s),
         input(l, s, k) \in Letter
  PROVE  Good(l, s, Name(l, s, k))
<1> DEFINE L == Left(l, s)
           n == Past(l, s, k, Letter)
           d == input(l, s, n)
           y == Name(l, s, k)
<1>1. /\ L \in Nat /\ L >= 1 /\ k \in 1..L + 1 /\ l \in LexerStates
  BY AheadIs DEF Scanned
<1>2. /\ n \in k..L + 1 /\ d \notin Letter
  BY <1>1, LetterSet, PastIs
<1> HIDE DEF n
<1>3. n # k
  BY <1>2
<1>4. n \in 1..L + 1 /\ n >= 2 /\ n \in Nat
  BY <1>1, <1>2, <1>3
<1>5. d \in Read /\ (n > L => d = EOT)
  BY <1>4, InputIs
<1>6. Unslashed(l) = l
  <2>1. l.reg = No
    BY <1>1, LexerStateIs, YesAndNo
  <2> QED
    BY <1>1, <2>1, LexerStateIs, LexerStatesAre
<1> HIDE DEF d, L
<1>7. \A t \in Lexemes : Good(l, s, unput(Lexed(l, s, n, t, "ok"), d))
  <2> SUFFICES ASSUME NEW t \in Lexemes PROVE Good(l, s, unput(Lexed(l, s, n, t, "ok"), d))
    OBVIOUS
  <2>1. n \in 1..Left(l, s) + 1 /\ Left(l, s) >= 1 /\ (n > Left(l, s) => d = EOT)
          /\ (n >= 2 \/ l.reg)
    BY <1>1, <1>4, <1>5 DEF L
  <2>2. Good(l, s, unput(Lexed(Unslashed(l), s, n, t, "ok"), d))
    BY <1>5, <2>1, UnputToken
  <2> QED
    BY <1>6, <2>2
<1>8. \/ d = NoFile /\ y = Lexed(l, s, n, NoFile, "fatal")
      \/ d = EOT /\ y = Lexed(l, s, n, "BEGIN", "ok")
      \/ y = unput(Lexed(l, s, n, "BEGIN", "ok"), d)
      \/ y = unput(Lexed(l, s, n, "CALL", "ok"), d)
      \/ y = unput(Lexed(l, s, n, "VAR", "ok"), d)
  BY Zenon DEF Name, n, d
<1>9. CASE d = NoFile /\ y = Lexed(l, s, n, NoFile, "fatal")
  <2> DEFINE h == "fatal"
  <2>1. h = "syntax" \/ h = "fatal"
    OBVIOUS
  <2> HIDE DEF h, y
  <2>2. Good(l, s, Lexed(l, s, n, NoFile, h))
    <3>1. n \in 1..Left(l, s) + 1
      BY <1>4 DEF L
    <3> QED
      BY <2>1, <3>1, BadToken
  <2> QED
    BY <1>9, <2>2 DEF h, y
<1>10. CASE d = EOT /\ y = Lexed(l, s, n, "BEGIN", "ok")
  <2> HIDE DEF y
  <2> DEFINE t == "BEGIN"
  <2>1. t \notin {OpenBrace, CloseBrace, "(", ")"}
    BY Zenon DEF OpenBrace, CloseBrace
  <2>2. n \in 1..Left(l, s) + 1 /\ (t # EOT => Left(l, s) >= 1)
    BY <1>1, <1>4 DEF L
  <2> HIDE DEF t
  <2>3. Good(l, s, Lexed(l, s, n, t, "ok"))
    BY <2>1, <2>2, PlainToken
  <2> QED
    BY <1>10, <2>3 DEF t, y
<1>11. ASSUME NEW t \in Lexemes, y = unput(Lexed(l, s, n, t, "ok"), d) PROVE Good(l, s, y)
  BY <1>7, <1>11, Zenon
<1>12. "BEGIN" \in Lexemes /\ "CALL" \in Lexemes /\ "VAR" \in Lexemes
  BY DEF Lexemes
<1> QED
  BY <1>8, <1>9, <1>10, <1>11, <1>12, Zenon

\* The characters of a regular expression.
Body == STRING \ {"/", NL, EOT, NoFile}

LEMMA WithBody ==
  ASSUME NEW l, NEW s, NEW y, NEW b, NEW tok, NEW how, NEW c,
         y = [tok |-> tok, body |-> c, how |-> how, l |-> y.l, s |-> y.s], Good(l, s, y)
  PROVE  Good(l, s, [y EXCEPT !.body = b])
<1> DEFINE z == [y EXCEPT !.body = b]
<1>1. z.tok = y.tok /\ z.how = y.how /\ z.l = y.l /\ z.s = y.s
  OBVIOUS
<1> HIDE DEF z
<1>2. Spends(l, s, y) => Spends(l, s, z)
  BY <1>1, Zenon DEF Spends
<1>3. GoodToken(l, s, y) => GoodToken(l, s, z)
  BY <1>1, <1>2, Zenon DEF GoodToken
<1>4. Good(l, s, z)
  BY <1>1, <1>3, Zenon DEF Good
<1> QED
  BY <1>4 DEF z

LEMMA BadUnslashed ==
  ASSUME NEW l, NEW s, Scanned(l, s), NEW n \in 1..Left(l, s) + 1, NEW tok, NEW how,
         how = "syntax" \/ how = "fatal"
  PROVE  Good(l, s, Lexed(Unslashed(l), s, n, tok, how))
<1> DEFINE m == Unslashed(l)
           y == Lexed(m, s, n, tok, how)
<1>1. Scanned(m, s) /\ Left(m, s) = Left(l, s)
  <2>1. l \in LexerStates
    BY DEF Scanned
  <2>2. m \in LexerStates /\ m.yysbuf = l.yysbuf
    <3>1. m \in LexerStates /\ m = Lexing(l.sc, No, l.bracecnt, l.parencnt, l.yysbuf)
      BY <2>1, LexerStatesAre
    <3> HIDE DEF m
    <3> QED
      BY <3>1, LexingIs
  <2> QED
    BY <2>2 DEF Scanned, Left
<1> HIDE DEF m
<1>2. n \in 1..Left(m, s) + 1
  BY <1>1
<1>3. Scanned(m, s)
  BY <1>1
<1>4. Good(m, s, y)
  BY <1>2, <1>3, BadToken
<1>5. y.how = how /\ how # "ok"
  BY LexedShape
<1> HIDE DEF y
<1>6. Good(l, s, y)
  BY <1>4, <1>5, Zenon DEF Good
<1> QED
  BY <1>6 DEF y, m

LEMMA RegexprIs ==
  ASSUME NEW l, NEW s, Scanned(l, s), ~l.sc, l.reg
  PROVE  Good(l, s, Regexpr(Unslashed(l), s))
<1> DEFINE m == Unslashed(l)
           n == Past(m, s, 1, Body)
           d == input(m, s, n)
           y == Regexpr(m, s)
<1>1. Scanned(m, s) /\ Left(m, s) = Left(l, s)
  <2>1. l \in LexerStates
    BY DEF Scanned
  <2>2. m \in LexerStates /\ m.yysbuf = l.yysbuf
    <3>1. m \in LexerStates /\ m = Lexing(l.sc, No, l.bracecnt, l.parencnt, l.yysbuf)
      BY <2>1, LexerStatesAre
    <3> HIDE DEF m
    <3> QED
      BY <3>1, LexingIs
  <2> QED
    BY <2>2 DEF Scanned, Left
<1> HIDE DEF m
<1>2. EOT \notin Body /\ "/" # EOT
  BY DEF Body, EOT
<1>3. Left(m, s) \in Nat /\ 1 \in 1..Left(m, s) + 1
  BY <1>1, AheadIs
<1>4. n \in 1..Left(m, s) + 1
  <2>1. Scanned(m, s)
    BY <1>1
  <2> QED
    BY <1>2, <1>3, <2>1, PastIs
<1> HIDE DEF n
<1>5. n \in 1..Left(l, s) + 1 /\ n \in Nat /\ n >= 1
  BY <1>1, <1>3, <1>4
<1>6. d \in Read /\ (n > Left(m, s) => d = EOT)
  <2>1. Scanned(m, s)
    BY <1>1
  <2> QED
    BY <1>5, <2>1, InputIs
<1>7. \/ /\ d = "/"
         /\ y = [unput(Lexed(m, s, n, "REGEXPR", "ok"), d) EXCEPT !.body = SubSeq(Ahead(m, s), 1, n - 1)]
      \/ y = Lexed(m, s, n, d, "fatal")
      \/ y = Lexed(m, s, n, d, "syntax")
  BY DEF Regexpr, n, d, Body
<1> HIDE DEF d
<1>8. CASE /\ d = "/"
           /\ y = [unput(Lexed(m, s, n, "REGEXPR", "ok"), d) EXCEPT !.body = SubSeq(Ahead(m, s), 1, n - 1)]
  <2> DEFINE t == "REGEXPR"
             x == Lexed(m, s, n, t, "ok")
             z == unput(x, d)
  <2>1. t \in Lexemes
    BY DEF Lexemes
  <2> HIDE DEF t, y
  <2>2. n <= Left(m, s)
    BY <1>2, <1>3, <1>5, <1>6, <1>8
  <2>3. Left(l, s) >= 1 /\ (n > Left(l, s) => d = EOT)
    BY <1>1, <1>3, <1>5, <2>2
  <2>4. Good(l, s, z)
    BY <1>5, <1>6, <2>1, <2>3, UnputToken DEF m
  <2>5. z = [tok |-> t, body |-> <<>>, how |-> "ok", l |-> z.l, s |-> z.s]
    <3>1. x = [tok |-> t, body |-> <<>>, how |-> "ok", l |-> x.l, s |-> x.s]
      BY LexedShape
    <3> HIDE DEF x
    <3> QED
      BY <3>1 DEF unput
  <2> HIDE DEF z
  <2>6. \A b : Good(l, s, [z EXCEPT !.body = b])
    BY <2>4, <2>5, WithBody
  <2> DEFINE b == SubSeq(Ahead(m, s), 1, n - 1)
  <2>7. y = [z EXCEPT !.body = b]
    BY <1>8, Zenon DEF z, x, t
  <2> HIDE DEF b
  <2>8. Good(l, s, y)
    BY <2>6, <2>7
  <2> QED
    BY <2>8 DEF y, m
<1>9. ASSUME NEW h, h = "fatal" \/ h = "syntax", y = Lexed(m, s, n, d, h) PROVE Good(l, s, y)
  <2> HIDE DEF y
  <2>1. Good(l, s, Lexed(m, s, n, d, h))
    BY <1>5, <1>9, BadUnslashed DEF m
  <2> QED
    BY <1>9, <2>1
<1> QED
  BY <1>7, <1>8, <1>9, Zenon DEF m, y
-----------------------------------------------------------------------------
(* One token of the lexer is a good one, whatever it begins with.          *)
Blank == {" "}

\* The first character is one of these, or none of them.
LEMMA Firsts ==
  /\ \A x \in Letter : x # CloseBrace /\ x # ")" /\ x # OpenBrace /\ x # "(" /\ x # NoFile
  /\ CloseBrace # OpenBrace /\ CloseBrace # "(" /\ CloseBrace # NoFile
  /\ ")" # OpenBrace /\ ")" # "(" /\ ")" # NoFile
  /\ OpenBrace # "(" /\ OpenBrace # NoFile /\ "(" # NoFile
BY Zenon DEF Letter, CloseBrace, OpenBrace, NoFile

\* The token that the lexer returns, by its first character.
ByFirst(l, s, k, c, y) ==
  /\ c \in Letter => y = Name(l, s, k)
  /\ c = CloseBrace \/ c = ")" => y = Closing(l, s, k)
  /\ c = OpenBrace => y = Counts(Lexed(l, s, k, c, "ok"), "bracecnt", 1)
  /\ c = "(" => y = Counts(Lexed(l, s, k, c, "ok"), "parencnt", 1)
  /\ c = NoFile => y = Lexed(l, s, k, c, "fatal")
  /\ c \notin Letter /\ c \notin {CloseBrace, ")", OpenBrace, "(", NoFile}
       => y = Lexed(l, s, k, c, "ok")

LEMMA YylexIs ==
  ASSUME NEW l, NEW s
  PROVE  LET k == Past(l, s, 1, Blank)
             c == input(l, s, k)
             y == yylex(l, s)
         IN  /\ l.sc => y = Lexed(Settled(l), s, 0, CloseBrace, "ok")
             /\ ~l.sc /\ l.reg => y = Regexpr(Unslashed(l), s)
             /\ ~l.sc /\ ~l.reg => ByFirst(l, s, k, c, y)
<1> DEFINE k == Past(l, s, 1, Blank)
           c == input(l, s, k)
           y == yylex(l, s)
<1>1. l.sc => y = Lexed(Settled(l), s, 0, CloseBrace, "ok")
  BY Zenon DEF yylex, Settled, CloseBrace, No
<1>2. ~l.sc /\ l.reg => y = Regexpr(Unslashed(l), s)
  BY Zenon DEF yylex, Unslashed, No
<1>3. ASSUME ~l.sc, ~l.reg
      PROVE  y = CASE c \in Letter              -> Name(l, s, k)
                   [] c \in {CloseBrace, ")"}   -> Closing(l, s, k)
                   [] c = OpenBrace             -> Counts(Lexed(l, s, k, c, "ok"), "bracecnt", 1)
                   [] c = "("                   -> Counts(Lexed(l, s, k, c, "ok"), "parencnt", 1)
                   [] c = NoFile                -> Lexed(l, s, k, c, "fatal")
                   [] OTHER                     -> Lexed(l, s, k, c, "ok")
  BY <1>3, Zenon DEF yylex, Blank, OpenBrace, CloseBrace
<1> HIDE DEF y, c, k
<1>4. ASSUME ~l.sc, ~l.reg
      PROVE  ByFirst(l, s, k, c, y)
  BY <1>3, <1>4, Firsts DEF ByFirst
<1> QED
  BY <1>1, <1>2, <1>4 DEF y, c, k

LEMMA LexIs ==
  ASSUME NEW l, NEW s, Scanned(l, s)
  PROVE  Good(l, s, yylex(l, s))
<1> DEFINE L == Left(l, s)
           k == Past(l, s, 1, Blank)
           c == input(l, s, k)
           y == yylex(l, s)
<1>1. CASE l.sc
  BY <1>1, OwedToken, YylexIs
<1>2. CASE ~l.sc /\ l.reg
  BY <1>2, RegexprIs, YylexIs
<1>3. CASE ~l.sc /\ ~l.reg
  <2>1. ByFirst(l, s, k, c, y)
    BY <1>3, YylexIs
  <2>2. L \in Nat /\ 1 \in 1..L + 1
    BY AheadIs
  <2>3. EOT \notin Blank
    BY Zenon DEF EOT, Blank
  <2>4. k \in 1..L + 1
    BY <2>2, <2>3, PastIs
  <2> HIDE DEF k
  <2>5. k > L => c = EOT
    BY <2>2, <2>4, InputIs
  <2>6. c # EOT => k \in 1..L /\ L >= 1
    BY <2>2, <2>4, <2>5
  <2>7. l \in LexerStates /\ ~l.sc /\ ~l.reg
    BY <1>3 DEF Scanned
  <2> HIDE DEF c, y
  <2>8. CASE c \in Letter
    <3>1. y = Name(l, s, k)
      BY <2>1, <2>8 DEF ByFirst
    <3> QED
      BY <2>6, <2>7, <2>8, <3>1, LetterSet, NameIs DEF c, L, y
  <2>9. CASE c = CloseBrace \/ c = ")"
    <3>1. c # EOT
      BY <2>9, Zenon DEF CloseBrace, EOT
    <3>2. y = Closing(l, s, k)
      BY <2>1, <2>9 DEF ByFirst
    <3> QED
      BY <2>6, <2>7, <2>9, <3>1, <3>2, ClosingIs DEF c, L, y
  <2>10. CASE c = OpenBrace
    <3>1. c # EOT
      BY <2>10, Zenon DEF OpenBrace, EOT
    <3>2. y = Counts(Lexed(l, s, k, c, "ok"), "bracecnt", 1)
      BY <2>1, <2>10 DEF ByFirst
    <3> QED
      BY <2>6, <2>7, <2>10, <3>1, <3>2, OpeningIs DEF L, y
  <2>11. CASE c = "("
    <3>1. c # EOT
      BY <2>11, Zenon DEF EOT
    <3>2. y = Counts(Lexed(l, s, k, c, "ok"), "parencnt", 1)
      BY <2>1, <2>11 DEF ByFirst
    <3> QED
      BY <2>6, <2>7, <2>11, <3>1, <3>2, OpeningIs DEF L, y
  <2>12. CASE c = NoFile
    <3> DEFINE h == "fatal"
    <3>1. h = "syntax" \/ h = "fatal"
      OBVIOUS
    <3>2. y = Lexed(l, s, k, c, h)
      BY <2>1, <2>12 DEF ByFirst
    <3> HIDE DEF h
    <3>3. Good(l, s, Lexed(l, s, k, c, h))
      BY <2>4, <3>1, BadToken DEF L
    <3> QED
      BY <3>2, <3>3 DEF y
  <2>13. CASE c \notin Letter /\ c \notin {CloseBrace, ")", OpenBrace, "(", NoFile}
    <3>1. y = Lexed(l, s, k, c, "ok")
      BY <2>1, <2>13 DEF ByFirst
    <3>2. c \notin {OpenBrace, CloseBrace, "(", ")"}
      BY <2>13
    <3> QED
      BY <2>4, <2>6, <2>7, <3>1, <3>2, PlainToken DEF L, y
  <2> QED
    BY <2>8, <2>9, <2>10, <2>11, <2>12, <2>13 DEF y
<1> QED
  BY <1>1, <1>2, <1>3

\* The 0 of an end that was put back is the first token.
LEMMA EotFirst ==
  ASSUME NEW l, NEW s, Scanned(l, s), ~l.sc, ~l.reg, l.yysbuf = <<EOT>>
  PROVE  yylex(l, s).how = "ok" /\ yylex(l, s).tok = EOT
<1> DEFINE k == Past(l, s, 1, Blank)
           c == input(l, s, k)
           y == yylex(l, s)
<1>1. Left(l, s) \in Nat /\ Left(l, s) >= 1 /\ Ahead(l, s)[1] = EOT
        /\ Len(Ahead(l, s)) = Left(l, s)
  BY AheadIs
<1>2. input(l, s, 1) = EOT
  BY <1>1 DEF input
<1>3. EOT \notin Blank
  BY Zenon DEF EOT, Blank
<1>4. k \in 1..Left(l, s) + 1 /\ \A m \in 1..(k - 1) : input(l, s, m) \in Blank
  <2>1. 1 \in 1..Left(l, s) + 1
    BY <1>1
  <2> QED
    BY <1>3, <2>1, PastIs
<1> HIDE DEF k
<1>5. k = 1
  <2> SUFFICES ASSUME k # 1 PROVE FALSE
    OBVIOUS
  <2>1. 1 \in 1..(k - 1)
    BY <1>1, <1>4
  <2> QED
    BY <1>2, <1>3, <1>4, <2>1
<1>6. c = EOT
  BY <1>2, <1>5
<1>7. ByFirst(l, s, k, c, y)
  BY YylexIs DEF k
<1>8. EOT \notin {CloseBrace, ")", OpenBrace, "(", NoFile}
  BY Zenon DEF EOT, OpenBrace, CloseBrace, NoFile
<1> HIDE DEF c, y
<1>9. y = Lexed(l, s, k, c, "ok")
  BY <1>6, <1>7, <1>8, LetterSet DEF ByFirst
<1>10. y.how = "ok" /\ y.tok = EOT
  BY <1>6, <1>9, LexedShape
<1> QED
  BY <1>10 DEF y
-----------------------------------------------------------------------------
(* The counters of the lexer decide over nothing but a closing token.      *)
Off(l, a, b) == Lexing(l.sc, l.reg, l.bracecnt + a, l.parencnt + b, l.yysbuf)

InputOf(A, k) == IF k <= Len(A) THEN A[k] ELSE EOT

PastOf(A, k, S) ==
  CHOOSE n \in k..(Len(A) + k) : InputOf(A, n) \notin S
    /\ \A m \in k..(n - 1) : InputOf(A, m) \in S

MovedOf(A, u, s, n) ==
  [s EXCEPT !.at = IF n > Len(A) THEN Len(s.text) + 1 ELSE IF n > Len(u) THEN @ + n - Len(u) ELSE @,
            !.ended = @ \/ (n > Len(A) /\ s.kind = "files")]

LEMMA ReadsAlike ==
  ASSUME NEW l, NEW m, NEW s, m.yysbuf = l.yysbuf
  PROVE  /\ Ahead(m, s) = Ahead(l, s)
         /\ \A k : input(m, s, k) = input(l, s, k)
         /\ \A k, S : Past(m, s, k, S) = Past(l, s, k, S)
<1>1. Ahead(m, s) = Ahead(l, s)
  BY Zenon DEF Ahead
<1>2. \A k : input(m, s, k) = InputOf(Ahead(m, s), k)
        /\ input(l, s, k) = InputOf(Ahead(l, s), k)
  BY Zenon DEF input, InputOf
<1>3. \A k, S : /\ Past(m, s, k, S) = PastOf(Ahead(m, s), k, S)
                /\ Past(l, s, k, S) = PastOf(Ahead(l, s), k, S)
  BY Zenon DEF Past, PastOf, input, InputOf
<1> QED
  BY <1>1, <1>2, <1>3

LEMMA MovesAlike ==
  ASSUME NEW l, NEW m, NEW s, m.yysbuf = l.yysbuf, NEW n, NEW tok, NEW how
  PROVE  Lexed(m, s, n, tok, how).s = Lexed(l, s, n, tok, how).s
<1>1. Lexed(m, s, n, tok, how).s = MovedOf(Ahead(m, s), m.yysbuf, s, n)
  BY DEF Lexed, MovedOf
<1>2. Lexed(l, s, n, tok, how).s = MovedOf(Ahead(l, s), l.yysbuf, s, n)
  BY DEF Lexed, MovedOf
<1> QED
  BY <1>1, <1>2, ReadsAlike
-----------------------------------------------------------------------------
(* Twins: two lexers that differ in their counters and read the same       *)
(* program.                                                                *)
\* A token with all of its fields.
Shaped(y) == y = [tok |-> y.tok, body |-> y.body, how |-> y.how, l |-> y.l, s |-> y.s]

\* The same token of two lexers that differ in their counters.
Twins(Y, y, a, b) == /\ Shaped(Y) /\ Shaped(y) /\ y.l \in LexerStates
                     /\ Y.tok = y.tok /\ Y.body = y.body /\ Y.how = y.how
                     /\ Y.s = y.s /\ Y.l = Off(y.l, a, b)

LEMMA OffLexing ==
  ASSUME NEW c, NEW r, NEW b, NEW p, NEW u, NEW d, NEW e
  PROVE  Off(Lexing(c, r, b, p, u), d, e) = Lexing(c, r, b + d, p + e, u)
BY LexingIs DEF Off

LEMMA UnputIs ==
  ASSUME NEW y, NEW tok, NEW how, NEW body, NEW t, NEW x,
         NEW c, NEW r, NEW b, NEW p, NEW u,
         y = [tok |-> tok, body |-> body, how |-> how, l |-> Lexing(c, r, b, p, u), s |-> t]
  PROVE  unput(y, x) = [tok |-> tok, body |-> body, how |-> how,
                        l |-> Lexing(c, r, b, p, Append(u, x)), s |-> t]
<1> DEFINE m == Lexing(c, r, b, p, u)
<1>1. unput(y, x) = [y EXCEPT !.l.yysbuf = Append(@, x)]
  BY DEF unput
<1>2. [m EXCEPT !.yysbuf = Append(@, x)] = Lexing(c, r, b, p, Append(u, x))
  BY DEF Lexing
<1> HIDE DEF m
<1>3. y.l = m
  BY DEF m
<1>4. [y EXCEPT !.l.yysbuf = Append(@, x)] = [tok |-> tok, body |-> body, how |-> how,
                                             l |-> [m EXCEPT !.yysbuf = Append(@, x)], s |-> t]
  BY <1>3
<1> QED
  BY <1>1, <1>2, <1>4

LEMMA OffIs ==
  ASSUME NEW l \in LexerStates, NEW a \in Int, NEW b \in Int
  PROVE  /\ Off(l, a, b).sc = l.sc /\ Off(l, a, b).reg = l.reg /\ Off(l, a, b).yysbuf = l.yysbuf
         /\ Off(l, a, b).bracecnt = l.bracecnt + a /\ Off(l, a, b).parencnt = l.parencnt + b
         /\ Off(l, a, b) \in LexerStates
         /\ Drained(Off(l, a, b)) = Off(Drained(l), a, b)
         /\ Unslashed(Off(l, a, b)) = Off(Unslashed(l), a, b)
         /\ Settled(Off(l, a, b)) = Off(Settled(l), a, b)
<1> DEFINE m == Off(l, a, b)
<1>1. m = Lexing(l.sc, l.reg, l.bracecnt + a, l.parencnt + b, l.yysbuf)
  BY DEF Off
<1>2. /\ l.sc \in BOOLEAN /\ l.reg \in BOOLEAN /\ l.bracecnt + a \in Int
           /\ l.parencnt + b \in Int
      /\ l.yysbuf \in Seq(Read)
  BY LexerStateIs
<1> HIDE DEF m
<1>3. /\ m.sc = l.sc /\ m.reg = l.reg /\ m.bracecnt = l.bracecnt + a
      /\ m.parencnt = l.parencnt + b /\ m.yysbuf = l.yysbuf
  BY <1>1, LexingIs
<1>4. m \in LexerStates
  BY <1>1, <1>2, LexingTyped
<1>5. /\ Drained(m) = Lexing(m.sc, m.reg, m.bracecnt, m.parencnt, <<>>)
      /\ Unslashed(m) = Lexing(m.sc, No, m.bracecnt, m.parencnt, m.yysbuf)
      /\ Settled(m) = Lexing(No, m.reg, m.bracecnt, m.parencnt, m.yysbuf)
  BY <1>4, LexerStatesAre
<1>6. /\ Drained(l) = Lexing(l.sc, l.reg, l.bracecnt, l.parencnt, <<>>)
      /\ Unslashed(l) = Lexing(l.sc, No, l.bracecnt, l.parencnt, l.yysbuf)
      /\ Settled(l) = Lexing(No, l.reg, l.bracecnt, l.parencnt, l.yysbuf)
  BY LexerStatesAre
<1>7. /\ Off(Drained(l), a, b) = Lexing(l.sc, l.reg, l.bracecnt + a, l.parencnt + b, <<>>)
      /\ Off(Unslashed(l), a, b) = Lexing(l.sc, No, l.bracecnt + a, l.parencnt + b, l.yysbuf)
      /\ Off(Settled(l), a, b) = Lexing(No, l.reg, l.bracecnt + a, l.parencnt + b, l.yysbuf)
  BY <1>6, OffLexing
<1>8. Drained(m) = Off(Drained(l), a, b)
  BY <1>3, <1>5, <1>7
<1>9. Unslashed(m) = Off(Unslashed(l), a, b) /\ Settled(m) = Off(Settled(l), a, b)
  BY <1>3, <1>5, <1>7
<1> QED
  BY <1>3, <1>4, <1>8, <1>9 DEF m

LEMMA TwinsLexed ==
  ASSUME NEW l, NEW s, Scanned(l, s), NEW n \in 1..Left(l, s) + 1, NEW tok, NEW how,
         NEW a \in Int, NEW b \in Int
  PROVE  Twins(Lexed(Off(l, a, b), s, n, tok, how), Lexed(l, s, n, tok, how), a, b)
<1> DEFINE m == Off(l, a, b)
           Y == Lexed(m, s, n, tok, how)
           y == Lexed(l, s, n, tok, how)
<1>1. l \in LexerStates
  BY DEF Scanned
<1>2. m \in LexerStates /\ m.yysbuf = l.yysbuf /\ Drained(m) = Off(Drained(l), a, b)
  BY <1>1, OffIs
<1> HIDE DEF m
<1>3. Scanned(m, s) /\ n \in 1..Left(m, s) + 1
  BY <1>2 DEF Scanned, Left
<1>4. Y.l = Drained(m)
  BY <1>3, LexedToken
<1>5. y.l = Drained(l) /\ Drained(l) \in LexerStates
  BY <1>1, LexedToken, LexerStatesAre
<1>6. Y.s = y.s
  BY <1>2, MovesAlike
<1>7. /\ Y = [tok |-> tok, body |-> <<>>, how |-> how, l |-> Y.l, s |-> Y.s]
      /\ y = [tok |-> tok, body |-> <<>>, how |-> how, l |-> y.l, s |-> y.s]
  BY LexedShape
<1> HIDE DEF Y, y
<1>8. Twins(Y, y, a, b)
  BY <1>2, <1>4, <1>5, <1>6, <1>7 DEF Twins, Shaped
<1> QED
  BY <1>8 DEF Y, y, m

LEMMA TwinsOwed ==
  ASSUME NEW l, NEW s, Scanned(l, s), NEW n, n = 0, NEW tok, NEW how, NEW a \in Int,
         NEW b \in Int
  PROVE  Twins(Lexed(Off(l, a, b), s, n, tok, how), Lexed(l, s, n, tok, how), a, b)
<1> DEFINE m == Off(l, a, b)
           Y == Lexed(m, s, n, tok, how)
           y == Lexed(l, s, n, tok, how)
<1>1. l \in LexerStates
  BY DEF Scanned
<1>2. m \in LexerStates /\ m.yysbuf = l.yysbuf
  BY <1>1, OffIs
<1>3. Scanned(m, s)
  BY <1>2 DEF Scanned
<1>4. y.l = l
  BY LexedOwed
<1>5. Y.l = m
  <2> HIDE DEF m
  <2> QED
    BY <1>3, LexedOwed
<1>6. Y.s = y.s
  <2> HIDE DEF m
  <2> QED
    BY <1>2, MovesAlike
<1>7. /\ Y = [tok |-> tok, body |-> <<>>, how |-> how, l |-> Y.l, s |-> Y.s]
      /\ y = [tok |-> tok, body |-> <<>>, how |-> how, l |-> y.l, s |-> y.s]
  BY LexedShape
<1> HIDE DEF Y, y
<1>8. Twins(Y, y, a, b)
  BY <1>1, <1>4, <1>5, <1>6, <1>7 DEF Twins, Shaped
<1> QED
  BY <1>8 DEF Y, y, m

LEMMA TwinsUnput ==
  ASSUME NEW Y, NEW y, NEW a \in Int, NEW b \in Int, NEW c \in Read, Twins(Y, y, a, b)
  PROVE  Twins(unput(Y, c), unput(y, c), a, b)
<1> DEFINE p == y.l.sc
           q == y.l.reg
           d == y.l.bracecnt
           e == y.l.parencnt
           u == y.l.yysbuf
           s == y.s
           t == y.tok
           h == y.how
           w == y.body
           M == Lexing(p, q, d + a, e + b, u)
           m == Lexing(p, q, d, e, u)
<1>1. /\ p \in BOOLEAN /\ q \in BOOLEAN /\ d \in Int /\ e \in Int /\ u \in Seq(Read)
      /\ y.l = m
  BY LexerStateIs DEF Twins
<1>2. Y.l = M
  BY DEF Twins, Off
<1>3. /\ y = [tok |-> t, body |-> w, how |-> h, l |-> y.l, s |-> s]
      /\ Y = [tok |-> t, body |-> w, how |-> h, l |-> Y.l, s |-> s]
  BY DEF Twins, Shaped
<1> HIDE DEF p, q, d, e, u, s, t, h, w
<1> DEFINE v == Append(u, c)
           Z == unput(Y, c)
           z == unput(y, c)
<1>4. /\ y = [tok |-> t, body |-> w, how |-> h, l |-> m, s |-> s]
      /\ Y = [tok |-> t, body |-> w, how |-> h, l |-> M, s |-> s]
  <2> HIDE DEF M, m
  <2> QED
    BY <1>1, <1>2, <1>3
<1>8. Append(u, c) \in Seq(Read)
  BY <1>1
<1>9. /\ Z = [tok |-> t, body |-> w, how |-> h, l |-> Lexing(p, q, d + a, e + b, v), s |-> s]
      /\ z = [tok |-> t, body |-> w, how |-> h, l |-> Lexing(p, q, d, e, v), s |-> s]
  BY <1>4, UnputIs
<1> HIDE DEF Z, z, v
<1>10. Off(Lexing(p, q, d, e, v), a, b) = Lexing(p, q, d + a, e + b, v)
  BY OffLexing
<1>11. Lexing(p, q, d, e, v) \in LexerStates
  BY <1>1, <1>8, LexingTyped DEF v
<1>12. Twins(Z, z, a, b)
  BY <1>9, <1>10, <1>11 DEF Twins, Shaped
<1> QED
  BY <1>12 DEF Z, z

LEMMA TwinsCounts ==
  ASSUME NEW Y, NEW y, NEW a \in Int, NEW b \in Int, NEW n \in Int, Twins(Y, y, a, b)
  PROVE  /\ Twins(Counts(Y, "bracecnt", n), Counts(y, "bracecnt", n), a, b)
         /\ Twins(Counts(Y, "parencnt", n), Counts(y, "parencnt", n), a, b)
<1> DEFINE p == y.l.sc
           q == y.l.reg
           d == y.l.bracecnt
           e == y.l.parencnt
           u == y.l.yysbuf
           s == y.s
           t == y.tok
           h == y.how
           w == y.body
           D == d + a
           E == e + b
           M == Lexing(p, q, D, E, u)
           m == Lexing(p, q, d, e, u)
<1>1. /\ p \in BOOLEAN /\ q \in BOOLEAN /\ d \in Int /\ e \in Int /\ u \in Seq(Read)
      /\ y.l = m
  BY LexerStateIs DEF Twins
<1>2. Y.l = M
  BY DEF Twins, Off
<1>3. /\ y = [tok |-> t, body |-> w, how |-> h, l |-> m, s |-> s]
      /\ Y = [tok |-> t, body |-> w, how |-> h, l |-> M, s |-> s]
  <2>1. /\ y = [tok |-> t, body |-> w, how |-> h, l |-> y.l, s |-> s]
        /\ Y = [tok |-> t, body |-> w, how |-> h, l |-> Y.l, s |-> s]
    BY DEF Twins, Shaped
  <2> HIDE DEF M, m
  <2> QED
    BY <1>1, <1>2, <2>1
<1> HIDE DEF p, q, d, e, u, s, t, h, w, D, E
<1>4. /\ Counts(Y, "bracecnt", n) = [tok |-> t, body |-> w, how |-> h,
                                     l |-> Lexing(p, q, D + n, E, u), s |-> s]
      /\ Counts(Y, "parencnt", n) = [tok |-> t, body |-> w, how |-> h,
                                     l |-> Lexing(p, q, D, E + n, u), s |-> s]
  BY <1>3, CountsIs
<1>5. /\ Counts(y, "bracecnt", n) = [tok |-> t, body |-> w, how |-> h,
                                     l |-> Lexing(p, q, d + n, e, u), s |-> s]
      /\ Counts(y, "parencnt", n) = [tok |-> t, body |-> w, how |-> h,
                                     l |-> Lexing(p, q, d, e + n, u), s |-> s]
  BY <1>3, CountsIs
<1>6. D + n = (d + n) + a /\ E + n = (e + n) + b /\ d + n \in Int /\ e + n \in Int
  BY <1>1 DEF D, E
<1>7. ASSUME NEW f \in Int, NEW g \in Int
      PROVE  Twins([tok |-> t, body |-> w, how |-> h, l |-> Lexing(p, q, f + a, g + b, u), s |-> s],
                   [tok |-> t, body |-> w, how |-> h, l |-> Lexing(p, q, f, g, u), s |-> s],
                   a, b)
  <2>1. Off(Lexing(p, q, f, g, u), a, b) = Lexing(p, q, f + a, g + b, u)
    BY LexingIs DEF Off
  <2>2. Lexing(p, q, f, g, u) \in LexerStates
    BY <1>1, LexingTyped
  <2> QED
    BY <2>1, <2>2 DEF Twins, Shaped
<1>8. Twins(Counts(Y, "bracecnt", n), Counts(y, "bracecnt", n), a, b)
  <2>1. E = e + b
    BY DEF E
  <2> QED
    BY <1>1, <1>4, <1>5, <1>6, <1>7, <2>1
<1>9. Twins(Counts(Y, "parencnt", n), Counts(y, "parencnt", n), a, b)
  <2>1. D = d + a
    BY DEF D
  <2> QED
    BY <1>1, <1>4, <1>5, <1>6, <1>7, <2>1
<1> QED
  BY <1>8, <1>9

Owing(y)     == [y EXCEPT !.l.sc = Yes]
Bodied(y, w) == [y EXCEPT !.body = w]

LEMMA CountsKeeps ==
  ASSUME NEW y, Shaped(y), NEW name, NEW n
  PROVE  /\ Counts(y, name, n).how = y.how /\ Counts(y, name, n).tok = y.tok
         /\ Shaped(Counts(y, name, n))
<1> DEFINE l == y.l
           s == y.s
           t == y.tok
           h == y.how
           w == y.body
           z == Counts(y, name, n)
<1>1. y = [tok |-> t, body |-> w, how |-> h, l |-> l, s |-> s]
  BY DEF Shaped
<1> HIDE DEF l, s, t, h, w
<1>2. z = [tok |-> t, body |-> w, how |-> h, l |-> [l EXCEPT ![name] = @ + n], s |-> s]
  BY <1>1 DEF Counts
<1> DEFINE m == [l EXCEPT ![name] = @ + n]
<1> HIDE DEF m, z
<1>3. z = [tok |-> t, body |-> w, how |-> h, l |-> m, s |-> s]
  BY <1>2 DEF m
<1>4. Shaped(z) /\ z.how = y.how /\ z.tok = y.tok
  BY <1>1, <1>3 DEF Shaped
<1> QED
  BY <1>4 DEF z

LEMMA OwingKeeps ==
  ASSUME NEW y, Shaped(y)
  PROVE  /\ Owing(y).how = y.how /\ Owing(y).tok = y.tok /\ Shaped(Owing(y))
<1> DEFINE l == y.l
           s == y.s
           t == y.tok
           h == y.how
           w == y.body
           z == Owing(y)
<1>1. y = [tok |-> t, body |-> w, how |-> h, l |-> l, s |-> s]
  BY DEF Shaped
<1> HIDE DEF l, s, t, h, w
<1>2. z = [tok |-> t, body |-> w, how |-> h, l |-> [l EXCEPT !.sc = Yes], s |-> s]
  BY <1>1 DEF Owing
<1> DEFINE m == [l EXCEPT !.sc = Yes]
<1> HIDE DEF m, z
<1>3. z = [tok |-> t, body |-> w, how |-> h, l |-> m, s |-> s]
  BY <1>2 DEF m
<1>4. Shaped(z) /\ z.how = y.how /\ z.tok = y.tok
  BY <1>1, <1>3 DEF Shaped
<1> QED
  BY <1>4 DEF z

LEMMA BodiedKeeps ==
  ASSUME NEW y, Shaped(y), NEW v
  PROVE  /\ Bodied(y, v).how = y.how /\ Bodied(y, v).tok = y.tok /\ Bodied(y, v).l = y.l
         /\ Bodied(y, v).s = y.s /\ Bodied(y, v).body = v /\ Shaped(Bodied(y, v))
<1> DEFINE l == y.l
           s == y.s
           t == y.tok
           h == y.how
           w == y.body
           z == Bodied(y, v)
<1>1. y = [tok |-> t, body |-> w, how |-> h, l |-> l, s |-> s]
  BY DEF Shaped
<1> HIDE DEF l, s, t, h, w
<1>2. z = [tok |-> t, body |-> v, how |-> h, l |-> l, s |-> s]
  BY <1>1 DEF Bodied
<1> HIDE DEF z
<1>3. Shaped(z) /\ z.how = y.how /\ z.tok = y.tok /\ z.l = y.l /\ z.s = y.s /\ z.body = v
  BY <1>1, <1>2 DEF Shaped
<1> QED
  BY <1>3 DEF z

LEMMA TwinsOwing ==
  ASSUME NEW Y, NEW y, NEW a \in Int, NEW b \in Int, Twins(Y, y, a, b)
  PROVE  Twins(Owing(Y), Owing(y), a, b) /\ Owing(Y).l.sc
<1> DEFINE p == y.l.sc
           q == y.l.reg
           d == y.l.bracecnt
           e == y.l.parencnt
           u == y.l.yysbuf
           s == y.s
           t == y.tok
           h == y.how
           w == y.body
           M == Lexing(p, q, d + a, e + b, u)
           m == Lexing(p, q, d, e, u)
           Z == Owing(Y)
           z == Owing(y)
<1>1. /\ p \in BOOLEAN /\ q \in BOOLEAN /\ d \in Int /\ e \in Int /\ u \in Seq(Read)
      /\ y.l = m
  BY LexerStateIs DEF Twins
<1>2. Y.l = M
  BY DEF Twins, Off
<1>3. /\ y = [tok |-> t, body |-> w, how |-> h, l |-> y.l, s |-> s]
      /\ Y = [tok |-> t, body |-> w, how |-> h, l |-> Y.l, s |-> s]
  BY DEF Twins, Shaped
<1> HIDE DEF p, q, d, e, u, s, t, h, w
<1>4. /\ [M EXCEPT !.sc = Yes] = Lexing(Yes, q, d + a, e + b, u)
      /\ [m EXCEPT !.sc = Yes] = Lexing(Yes, q, d, e, u)
  BY LexingIs
<1> HIDE DEF M, m
<1>5. /\ Z = [tok |-> t, body |-> w, how |-> h, l |-> [M EXCEPT !.sc = Yes], s |-> s]
      /\ z = [tok |-> t, body |-> w, how |-> h, l |-> [m EXCEPT !.sc = Yes], s |-> s]
  BY <1>1, <1>2, <1>3 DEF Owing
<1> HIDE DEF Z, z
<1>6. /\ Z = [tok |-> t, body |-> w, how |-> h, l |-> Lexing(Yes, q, d + a, e + b, u), s |-> s]
      /\ z = [tok |-> t, body |-> w, how |-> h, l |-> Lexing(Yes, q, d, e, u), s |-> s]
  BY <1>4, <1>5
<1>7. Off(Lexing(Yes, q, d, e, u), a, b) = Lexing(Yes, q, d + a, e + b, u)
  BY OffLexing
<1>8. Lexing(Yes, q, d, e, u) \in LexerStates
  BY <1>1, YesAndNo, LexingTyped
<1>9. Twins(Z, z, a, b)
  BY <1>6, <1>7, <1>8 DEF Twins, Shaped
<1>10. Z.l.sc
  <2>1. Z.l.sc = Yes
    BY <1>6, LexingIs
  <2> QED
    BY <2>1, YesAndNo
<1> QED
  BY <1>9, <1>10 DEF Z, z

LEMMA TwinsBody ==
  ASSUME NEW Y, NEW y, NEW a \in Int, NEW b \in Int, NEW w, Twins(Y, y, a, b)
  PROVE  Twins(Bodied(Y, w), Bodied(y, w), a, b)
<1> DEFINE Z == Bodied(Y, w)
           z == Bodied(y, w)
<1>1. Shaped(Y) /\ Shaped(y)
  BY DEF Twins
<1>2. /\ z.how = y.how /\ z.tok = y.tok /\ z.l = y.l /\ z.s = y.s /\ z.body = w /\ Shaped(z)
      /\ Z.how = Y.how /\ Z.tok = Y.tok /\ Z.l = Y.l /\ Z.s = Y.s /\ Z.body = w /\ Shaped(Z)
  BY <1>1, BodiedKeeps
<1> HIDE DEF Z, z
<1>3. Twins(Z, z, a, b)
  BY <1>2 DEF Twins
<1> QED
  BY <1>3 DEF Z, z

LEMMA OffReads ==
  ASSUME NEW l, NEW s, Scanned(l, s), NEW a \in Int, NEW b \in Int
  PROVE  /\ Ahead(Off(l, a, b), s) = Ahead(l, s)
         /\ \A i : input(Off(l, a, b), s, i) = input(l, s, i)
         /\ \A i, S : Past(Off(l, a, b), s, i, S) = Past(l, s, i, S)
<1> DEFINE m == Off(l, a, b)
<1>1. m.yysbuf = l.yysbuf
  <2>1. l \in LexerStates
    BY DEF Scanned
  <2> QED
    BY <2>1, OffIs
<1> HIDE DEF m
<1>2. /\ Ahead(m, s) = Ahead(l, s) /\ \A i : input(m, s, i) = input(l, s, i)
      /\ \A i, S : Past(m, s, i, S) = Past(l, s, i, S)
  BY <1>1, ReadsAlike
<1> QED
  BY <1>2 DEF m

NameBy(l, s, n, d, begins) ==
  IF d = NoFile THEN Lexed(l, s, n, d, "fatal")
  ELSE IF begins
         THEN IF d = EOT THEN Lexed(l, s, n, "BEGIN", "ok")
                   ELSE unput(Lexed(l, s, n, "BEGIN", "ok"), d)
         ELSE unput(Lexed(l, s, n, IF d = "(" THEN "CALL" ELSE "VAR", "ok"), d)

LEMMA TwinsName ==
  ASSUME NEW l, NEW s, Scanned(l, s), NEW k \in 1..Left(l, s) + 1, NEW a \in Int, NEW b \in Int
  PROVE  Twins(Name(Off(l, a, b), s, k), Name(l, s, k), a, b)
<1> DEFINE m == Off(l, a, b)
           n == Past(l, s, k, Letter)
           d == input(l, s, n)
           begins == n = k + 1 /\ input(l, s, k) = "BEGIN"
<1>1. m.yysbuf = l.yysbuf
  <2>1. l \in LexerStates
    BY DEF Scanned
  <2> QED
    BY <2>1, OffIs
<1>2. Name(l, s, k) = NameBy(l, s, n, d, begins)
  BY Zenon DEF Name, NameBy
<1>3. Name(m, s, k) = NameBy(m, s, n, d, begins)
  <2>1. /\ Past(m, s, k, Letter) = n /\ \A i : input(m, s, i) = input(l, s, i)
    <3> HIDE DEF m
    <3>1. /\ \A i : input(m, s, i) = input(l, s, i)
          /\ \A i, S : Past(m, s, i, S) = Past(l, s, i, S)
      BY OffReads DEF m
    <3> QED
      BY <3>1
  <2>2. Name(m, s, k) = NameBy(m, s, Past(m, s, k, Letter), input(m, s, Past(m, s, k, Letter)),
                               Past(m, s, k, Letter) = k + 1 /\ input(m, s, k) = "BEGIN")
    BY Zenon DEF Name, NameBy
  <2> HIDE DEF m
  <2> QED
    BY <2>1, <2>2, Zenon
<1>4. n \in 1..Left(l, s) + 1 /\ d \in Read
  <2>1. n \in k..Left(l, s) + 1 /\ Left(l, s) \in Nat
    BY LetterSet, PastIs, AheadIs
  <2>2. n \in 1..Left(l, s) + 1 /\ n \in Nat /\ n >= 1
    BY <2>1
  <2> QED
    BY <2>2, InputIs
<1> HIDE DEF n, d, begins, m
<1>5. \A tok, how : Twins(Lexed(m, s, n, tok, how), Lexed(l, s, n, tok, how), a, b)
  BY <1>4, TwinsLexed DEF m
<1>6. \A tok, how : Twins(unput(Lexed(m, s, n, tok, how), d), unput(Lexed(l, s, n, tok, how), d), a, b)
  BY <1>4, <1>5, TwinsUnput
<1>7. Twins(NameBy(m, s, n, d, begins), NameBy(l, s, n, d, begins), a, b)
  BY <1>5, <1>6, Zenon DEF NameBy
<1> QED
  BY <1>2, <1>3, <1>7 DEF m

RegexprBy(l, s, n, d, w) ==
  CASE d = "/"    -> Bodied(unput(Lexed(l, s, n, "REGEXPR", "ok"), d), w)
    [] d = NoFile -> Lexed(l, s, n, d, "fatal")
    [] OTHER      -> Lexed(l, s, n, d, "syntax")

LEMMA TwinsRegexpr ==
  ASSUME NEW l, NEW s, Scanned(l, s), NEW a \in Int, NEW b \in Int
  PROVE  Twins(Regexpr(Off(l, a, b), s), Regexpr(l, s), a, b)
<1> DEFINE m == Off(l, a, b)
           n == Past(l, s, 1, Body)
           d == input(l, s, n)
           w == SubSeq(Ahead(l, s), 1, n - 1)
<1>1. m.yysbuf = l.yysbuf
  <2>1. l \in LexerStates
    BY DEF Scanned
  <2> QED
    BY <2>1, OffIs
<1>2. Regexpr(l, s) = RegexprBy(l, s, n, d, w)
  BY Zenon DEF Regexpr, RegexprBy, Body, Bodied
<1>3. Regexpr(m, s) = RegexprBy(m, s, n, d, w)
  <2>1. /\ Past(m, s, 1, Body) = n /\ \A i : input(m, s, i) = input(l, s, i)
        /\ Ahead(m, s) = Ahead(l, s)
    <3> HIDE DEF m
    <3>1. /\ \A i : input(m, s, i) = input(l, s, i)
          /\ \A i, S : Past(m, s, i, S) = Past(l, s, i, S)
          /\ Ahead(m, s) = Ahead(l, s)
      BY OffReads DEF m
    <3> QED
      BY <3>1
  <2>2. Regexpr(m, s) = RegexprBy(m, s, Past(m, s, 1, Body), input(m, s, Past(m, s, 1, Body)),
                                  SubSeq(Ahead(m, s), 1, Past(m, s, 1, Body) - 1))
    BY Zenon DEF Regexpr, RegexprBy, Body, Bodied
  <2> HIDE DEF m
  <2> QED
    BY <2>1, <2>2, Zenon
<1>4. n \in 1..Left(l, s) + 1 /\ d \in Read
  <2>1. EOT \notin Body /\ Left(l, s) \in Nat /\ 1 \in 1..Left(l, s) + 1
    BY AheadIs DEF Body
  <2>2. n \in 1..Left(l, s) + 1
    BY <2>1, PastIs
  <2>3. n \in Nat /\ n >= 1
    BY <2>1, <2>2
  <2> QED
    BY <2>2, <2>3, InputIs
<1> HIDE DEF n, d, w, m
<1>5. \A tok, how : Twins(Lexed(m, s, n, tok, how), Lexed(l, s, n, tok, how), a, b)
  BY <1>4, TwinsLexed DEF m
<1>6. Twins(unput(Lexed(m, s, n, "REGEXPR", "ok"), d), unput(Lexed(l, s, n, "REGEXPR", "ok"), d), a, b)
  BY <1>4, <1>5, TwinsUnput
<1>7. Twins(Bodied(unput(Lexed(m, s, n, "REGEXPR", "ok"), d), w),
            Bodied(unput(Lexed(l, s, n, "REGEXPR", "ok"), d), w), a, b)
  BY <1>6, TwinsBody
<1>8. Twins(RegexprBy(m, s, n, d, w), RegexprBy(l, s, n, d, w), a, b)
  BY <1>5, <1>7 DEF RegexprBy
<1> QED
  BY <1>2, <1>3, <1>8 DEF m

\* What the counters decide.
Parted(Y, y, l, a, b) ==
  \/ /\ y.how = "syntax" /\ Y.how = "ok"
     /\ \/ Y.tok = Semicolon /\ Y.l.sc /\ l.bracecnt <= 0
        \/ Y.tok = ")" /\ l.parencnt <= 0
  \/ y.how = "ok" /\ Y.how = "syntax" /\ (a < 0 \/ b < 0)

LEMMA TwinsClosing ==
  ASSUME NEW l, NEW s, Scanned(l, s), NEW k \in 1..Left(l, s) + 1, NEW a \in Int, NEW b \in Int,
         input(l, s, k) = CloseBrace \/ input(l, s, k) = ")"
  PROVE  \/ Twins(Closing(Off(l, a, b), s, k), Closing(l, s, k), a, b)
         \/ Parted(Closing(Off(l, a, b), s, k), Closing(l, s, k), l, a, b)
<1> DEFINE m == Off(l, a, b)
           Y == Closing(m, s, k)
           y == Closing(l, s, k)
           X(q, tok, how) == Lexed(q, s, k, tok, how)
<1> SUFFICES Twins(Y, y, a, b) \/ Parted(Y, y, l, a, b)
  OBVIOUS
<1>1. l \in LexerStates /\ l.bracecnt \in Int /\ l.parencnt \in Int
  BY LexerStateIs DEF Scanned
<1>2. m.yysbuf = l.yysbuf /\ m.bracecnt = l.bracecnt + a /\ m.parencnt = l.parencnt + b
  BY <1>1, OffIs
<1>3. input(m, s, k) = input(l, s, k)
  <2> HIDE DEF m
  <2>1. \A i : input(m, s, i) = input(l, s, i)
    BY OffReads DEF m
  <2> QED
    BY <2>1
<1>4. \A tok, how : /\ Twins(X(m, tok, how), X(l, tok, how), a, b)
                    /\ \A q \in {m, l} : X(q, tok, how).tok = tok /\ X(q, tok, how).how = how
                    /\ Shaped(X(m, tok, how)) /\ Shaped(X(l, tok, how))
  <2>1. \A tok, how : Twins(X(m, tok, how), X(l, tok, how), a, b)
    BY TwinsLexed
  <2>2. \A q, tok, how : X(q, tok, how).tok = tok /\ X(q, tok, how).how = how
    BY LexedShape
  <2> HIDE DEF X, m
  <2> QED
    BY <2>1, <2>2 DEF Twins
<1> HIDE DEF X
<1>5. \A tok, how : /\ Twins(Counts(X(m, tok, how), "bracecnt", -1), Counts(X(l, tok, how), "bracecnt", -1), a, b)
                    /\ Twins(Counts(X(m, tok, how), "parencnt", -1), Counts(X(l, tok, how), "parencnt", -1), a, b)
  <2>1. -1 \in Int
    OBVIOUS
  <2> HIDE DEF m
  <2> QED
    BY <1>4, <2>1, TwinsCounts
<1>6. \A tok, how, name : \A q \in {m, l} :
         /\ Counts(X(q, tok, how), name, -1).tok = tok
              /\ Counts(X(q, tok, how), name, -1).how = how
         /\ Shaped(Counts(X(q, tok, how), name, -1))
  <2> HIDE DEF m
  <2> SUFFICES ASSUME NEW tok, NEW how, NEW name, NEW q \in {m, l}
               PROVE  /\ Counts(X(q, tok, how), name, -1).tok = tok
                           /\ Counts(X(q, tok, how), name, -1).how = how
                      /\ Shaped(Counts(X(q, tok, how), name, -1))
    OBVIOUS
  <2>1. Shaped(X(q, tok, how)) /\ X(q, tok, how).tok = tok /\ X(q, tok, how).how = how
    BY <1>4
  <2> QED
    BY <2>1, CountsKeeps
<1>7. CASE input(l, s, k) = CloseBrace
  <2> DEFINE F(q) == Counts(X(q, CloseBrace, "syntax"), "bracecnt", -1)
             G(q) == Counts(X(q, Semicolon, "ok"), "bracecnt", -1)
  <2>1. y = IF l.bracecnt <= 0 THEN F(l) ELSE Owing(G(l))
    BY <1>7, Zenon DEF Closing, CloseBrace, Semicolon, X, Owing, Yes
  <2>2. Y = IF m.bracecnt <= 0 THEN F(m) ELSE Owing(G(m))
    BY <1>3, <1>7, Zenon DEF Closing, CloseBrace, Semicolon, X, Owing, Yes
  <2> HIDE DEF m, Y, y
  <2>3. /\ Twins(F(m), F(l), a, b) /\ Twins(G(m), G(l), a, b)
        /\ F(l).how = "syntax" /\ F(m).how = "syntax"
        /\ G(m).how = "ok" /\ G(l).how = "ok" /\ G(m).tok = Semicolon
        /\ Shaped(G(m)) /\ Shaped(G(l))
    BY <1>5, <1>6
  <2> HIDE DEF F, G
  <2>4. Twins(Owing(G(m)), Owing(G(l)), a, b) /\ Owing(G(m)).l.sc
    BY <2>3, TwinsOwing
  <2>5. /\ Owing(G(m)).how = "ok" /\ Owing(G(l)).how = "ok" /\ Owing(G(m)).tok = Semicolon
    BY <2>3, OwingKeeps
  <2>6. CASE l.bracecnt <= 0 /\ m.bracecnt <= 0
    BY <2>1, <2>2, <2>3, <2>6
  <2>7. CASE ~(l.bracecnt <= 0) /\ ~(m.bracecnt <= 0)
    BY <2>1, <2>2, <2>4, <2>7
  <2>8. CASE l.bracecnt <= 0 /\ ~(m.bracecnt <= 0)
    <3>1. Parted(Y, y, l, a, b)
      BY <2>1, <2>2, <2>3, <2>4, <2>5, <2>8 DEF Parted
    <3> QED
      BY <3>1
  <2>9. CASE ~(l.bracecnt <= 0) /\ m.bracecnt <= 0
    <3>1. a < 0
      BY <1>1, <1>2, <2>9
    <3>2. Parted(Y, y, l, a, b)
      BY <2>1, <2>2, <2>3, <2>5, <2>9, <3>1 DEF Parted
    <3> QED
      BY <3>2
  <2> QED
    BY <2>6, <2>7, <2>8, <2>9
<1>8. CASE input(l, s, k) = ")"
  <2> DEFINE F(q, how) == Counts(X(q, ")", how), "parencnt", -1)
             H == IF m.parencnt <= 0 THEN "syntax" ELSE "ok"
             h == IF l.parencnt <= 0 THEN "syntax" ELSE "ok"
  <2>1. y = F(l, h)
    BY <1>8, Zenon DEF Closing, X
  <2>2. Y = F(m, H)
    BY <1>3, <1>8, Zenon DEF Closing, X
  <2> HIDE DEF m, Y, y
  <2>3. \A how : Twins(F(m, how), F(l, how), a, b)
    BY <1>5
  <2>4. Y.how = H /\ y.how = h /\ Y.tok = ")"
    BY <1>6, <2>1, <2>2
  <2> HIDE DEF F
  <2>5. CASE H = h
    BY <2>1, <2>2, <2>3, <2>5
  <2>6. CASE H # h /\ l.parencnt <= 0
    <3>1. Parted(Y, y, l, a, b)
      BY <2>4, <2>6 DEF Parted
    <3> QED
      BY <3>1
  <2>7. CASE H # h /\ ~(l.parencnt <= 0)
    <3>1. b < 0
      BY <1>1, <1>2, <2>7
    <3>2. Parted(Y, y, l, a, b)
      BY <2>4, <2>7, <3>1 DEF Parted
    <3> QED
      BY <3>2
  <2> QED
    BY <2>5, <2>6, <2>7
<1> QED
  BY <1>7, <1>8

\* The same program, read by two lexers that differ in their counters.
LEMMA OffsetIs ==
  ASSUME NEW l, NEW s, Scanned(l, s), NEW a \in Int, NEW b \in Int
  PROVE  \/ Twins(yylex(Off(l, a, b), s), yylex(l, s), a, b)
         \/ Parted(yylex(Off(l, a, b), s), yylex(l, s), l, a, b)
<1> DEFINE m == Off(l, a, b)
           L == Left(l, s)
           k == Past(l, s, 1, Blank)
           c == input(l, s, k)
           Y == yylex(m, s)
           y == yylex(l, s)
<1> SUFFICES Twins(Y, y, a, b) \/ Parted(Y, y, l, a, b)
  OBVIOUS
<1>1. l \in LexerStates
  BY DEF Scanned
<1>2. /\ m.sc = l.sc /\ m.reg = l.reg /\ m \in LexerStates /\ m.yysbuf = l.yysbuf
      /\ Unslashed(m) = Off(Unslashed(l), a, b) /\ Settled(m) = Off(Settled(l), a, b)
      /\ Unslashed(l) \in LexerStates /\ Settled(l) \in LexerStates
      /\ Unslashed(l).yysbuf = l.yysbuf /\ Settled(l).yysbuf = l.yysbuf
  <2>1. /\ m.sc = l.sc /\ m.reg = l.reg /\ m \in LexerStates /\ m.yysbuf = l.yysbuf
        /\ Unslashed(m) = Off(Unslashed(l), a, b) /\ Settled(m) = Off(Settled(l), a, b)
    BY <1>1, OffIs
  <2>2. /\ Unslashed(l) \in LexerStates /\ Settled(l) \in LexerStates
        /\ Unslashed(l) = Lexing(l.sc, No, l.bracecnt, l.parencnt, l.yysbuf)
        /\ Settled(l) = Lexing(No, l.reg, l.bracecnt, l.parencnt, l.yysbuf)
    BY <1>1, LexerStatesAre
  <2>3. Unslashed(l).yysbuf = l.yysbuf /\ Settled(l).yysbuf = l.yysbuf
    BY <2>2, LexingIs
  <2> HIDE DEF m
  <2> QED
    BY <2>1, <2>2, <2>3
<1>3. Scanned(Unslashed(l), s) /\ Scanned(Settled(l), s)
  BY <1>2 DEF Scanned
<1>4. k = Past(m, s, 1, Blank) /\ c = input(m, s, k)
  BY OffReads
<1> HIDE DEF m
<1>5. CASE l.sc
  <2>1. /\ Y = Lexed(Settled(m), s, 0, CloseBrace, "ok")
        /\ y = Lexed(Settled(l), s, 0, CloseBrace, "ok")
    BY <1>2, <1>5, YylexIs
  <2> HIDE DEF Y, y
  <2>2. Twins(Lexed(Off(Settled(l), a, b), s, 0, CloseBrace, "ok"), Lexed(Settled(l), s, 0, CloseBrace, "ok"), a, b)
    BY <1>3, TwinsOwed
  <2> QED
    BY <1>2, <2>1, <2>2
<1>6. CASE ~l.sc /\ l.reg
  <2>1. Y = Regexpr(Unslashed(m), s) /\ y = Regexpr(Unslashed(l), s)
    BY <1>2, <1>6, YylexIs
  <2> HIDE DEF Y, y
  <2>2. Twins(Regexpr(Off(Unslashed(l), a, b), s), Regexpr(Unslashed(l), s), a, b)
    BY <1>3, TwinsRegexpr
  <2> QED
    BY <1>2, <2>1, <2>2
<1>7. CASE ~l.sc /\ ~l.reg
  <2>1. ByFirst(l, s, k, c, y) /\ ByFirst(m, s, k, c, Y)
    BY <1>2, <1>4, <1>7, YylexIs
  <2>2. k \in 1..L + 1
    <3>1. L \in Nat /\ 1 \in 1..L + 1
      BY AheadIs
    <3>2. EOT \notin Blank
      BY Zenon DEF EOT, Blank
    <3> QED
      BY <3>1, <3>2, PastIs
  <2> HIDE DEF k, Y, y
  <2>3. \A tok, how : Twins(Lexed(m, s, k, tok, how), Lexed(l, s, k, tok, how), a, b)
    BY <2>2, TwinsLexed DEF m
  <2>4. CASE c \in Letter
    <3>1. y = Name(l, s, k) /\ Y = Name(m, s, k)
      BY <2>1, <2>4 DEF ByFirst
    <3> QED
      BY <2>2, <3>1, TwinsName DEF m
  <2>5. CASE c = CloseBrace \/ c = ")"
    <3>1. y = Closing(l, s, k) /\ Y = Closing(m, s, k)
      BY <2>1, <2>5 DEF ByFirst
    <3> QED
      BY <2>2, <2>5, <3>1, TwinsClosing DEF m
  <2>6. CASE c = OpenBrace \/ c = "("
    <3> DEFINE F(q) == Lexed(q, s, k, c, "ok")
    <3>1. \/ y = Counts(F(l), "bracecnt", 1) /\ Y = Counts(F(m), "bracecnt", 1)
          \/ y = Counts(F(l), "parencnt", 1) /\ Y = Counts(F(m), "parencnt", 1)
      BY <2>1, <2>6 DEF ByFirst
    <3>2. Twins(F(m), F(l), a, b)
      BY <2>3
    <3> HIDE DEF F, m
    <3> QED
      BY <3>1, <3>2, TwinsCounts
  <2>7. CASE c = NoFile \/ (c \notin Letter /\ c \notin {CloseBrace, ")", OpenBrace, "(", NoFile})
    <3>1. \/ y = Lexed(l, s, k, c, "fatal") /\ Y = Lexed(m, s, k, c, "fatal")
          \/ y = Lexed(l, s, k, c, "ok") /\ Y = Lexed(m, s, k, c, "ok")
      BY <2>1, <2>7 DEF ByFirst
    <3> QED
      BY <2>3, <3>1
  <2> QED
    BY <2>4, <2>5, <2>6, <2>7
<1> QED
  BY <1>1, <1>5, <1>6, <1>7, LexerStateIs
-----------------------------------------------------------------------------
(* The compilation of a program on its own, step by step.                  *)
Steps(o, n, f) == f = [i \in 0..n |-> IF i = 0 THEN o ELSE Advanced(f[i - 1])]

LEMMA StepsAre ==
  ASSUME NEW o, NEW n \in Nat, NEW f, Steps(o, n, f)
  PROVE  f[0] = o /\ \A i \in 1..n : f[i] = Advanced(f[i - 1])
<1>1. f = [i \in 0..n |-> IF i = 0 THEN o ELSE Advanced(f[i - 1])]
  BY Zenon DEF Steps
<1>2. \A i \in 0..n : f[i] = IF i = 0 THEN o ELSE Advanced(f[i - 1])
  BY <1>1, Zenon
<1>3. 0 \in 0..n /\ \A i \in 1..n : i \in 0..n /\ i # 0
  OBVIOUS
<1> QED
  BY <1>2, <1>3, Zenon

LEMMA StepsLonger ==
  ASSUME NEW o, NEW n \in Nat, NEW g, Steps(o, n, g)
  PROVE  \E f : Steps(o, n + 1, f)
<1> DEFINE f == [i \in 0..n + 1 |-> IF i = n + 1 THEN Advanced(g[n]) ELSE g[i]]
           e(i) == IF i = 0 THEN o ELSE Advanced(f[i - 1])
<1>1. ASSUME NEW i \in 0..n + 1 PROVE f[i] = e(i)
  <2>1. CASE i = n + 1
    <3>1. i # 0 /\ i - 1 = n /\ n \in 0..n + 1 /\ n # n + 1
      BY <2>1
    <3>2. f[n] = g[n]
      BY <3>1
    <3> QED
      BY <2>1, <3>1, <3>2
  <2>2. CASE i # n + 1
    <3>1. i \in 0..n /\ f[i] = g[i] /\ (i # 0 => i \in 1..n)
      BY <2>2
    <3>2. i = 0 => g[i] = o
      BY StepsAre
    <3>3. i # 0 => g[i] = Advanced(g[i - 1])
      BY <3>1, StepsAre
    <3>4. i # 0 => i - 1 \in 0..n + 1 /\ i - 1 # n + 1
      BY <3>1
    <3>5. i # 0 => f[i - 1] = g[i - 1]
      BY <3>4
    <3> QED
      BY <3>1, <3>2, <3>3, <3>5
  <2> QED
    BY <2>1, <2>2
<1>2. f = [i \in 0..n + 1 |-> e(i)]
  <2> HIDE DEF e
  <2> QED
    BY <1>1
<1>3. Steps(o, n + 1, f)
  BY <1>2, Zenon DEF Steps
<1> QED
  BY <1>3

LEMMA StepsExist ==
  ASSUME NEW o, NEW n \in Nat
  PROVE  \E f : Steps(o, n, f)
<1> DEFINE Bad == {k \in Nat : ~\E f : Steps(o, k, f)}
<1> SUFFICES ASSUME Bad # {} PROVE FALSE
  OBVIOUS
<1>1. PICK k \in Bad : \A m \in Bad : k <= m
  BY LeastOf
<1>2. CASE k = 0
  <2> DEFINE f == [i \in 0..0 |-> o]
             e(i) == IF i = 0 THEN o ELSE Advanced(f[i - 1])
  <2>1. \A i \in 0..0 : f[i] = e(i)
    OBVIOUS
  <2>2. f = [i \in 0..0 |-> e(i)]
    <3> HIDE DEF e
    <3> QED
      BY <2>1
  <2>3. Steps(o, 0, f)
    BY <2>2, Zenon DEF Steps
  <2> QED
    BY <1>1, <1>2, <2>3
<1>3. CASE k # 0
  <2>1. k - 1 \in Nat /\ ~(k <= k - 1)
    BY <1>3
  <2>2. \E f : Steps(o, k - 1, f)
    BY <1>1, <2>1
  <2>3. \E f : Steps(o, (k - 1) + 1, f)
    BY <2>1, <2>2, StepsLonger
  <2>4. (k - 1) + 1 = k
    OBVIOUS
  <2> QED
    BY <1>1, <2>3, <2>4
<1> QED
  BY <1>2, <1>3

LEMMA StepsAgree ==
  ASSUME NEW o, NEW n \in Nat, NEW m \in Nat, NEW f, NEW g, Steps(o, n, f), Steps(o, m, g)
  PROVE  \A i \in 0..n : i <= m => f[i] = g[i]
<1> DEFINE Bad == {i \in 0..n : i <= m /\ f[i] # g[i]}
<1> SUFFICES ASSUME Bad # {} PROVE FALSE
  OBVIOUS
<1>1. PICK k \in Bad : \A i \in Bad : k <= i
  <2>1. Bad \subseteq Nat
    OBVIOUS
  <2> QED
    BY <2>1, LeastOf
<1>2. f[0] = o /\ g[0] = o
  BY StepsAre
<1>3. k \in 1..n /\ k \in 1..m /\ k - 1 \in 0..n /\ k - 1 <= m /\ ~(k <= k - 1)
  BY <1>1, <1>2
<1>4. f[k - 1] = g[k - 1]
  BY <1>1, <1>3
<1>5. f[k] = Advanced(f[k - 1]) /\ g[k] = Advanced(g[k - 1])
  BY <1>3, StepsAre
<1> QED
  BY <1>1, <1>4, <1>5

\* One function for every number of steps.
Forever(o, f) == f = [n \in Nat |-> IF n = 0 THEN o ELSE Advanced(f[n - 1])]

LEMMA OnwardExists ==
  ASSUME NEW o
  PROVE  \E f : Forever(o, f)
<1> DEFINE Run(n) == CHOOSE f : Steps(o, n, f)
           f == [n \in Nat |-> Run(n)[n]]
           e(n) == IF n = 0 THEN o ELSE Advanced(f[n - 1])
<1>1. \A n \in Nat : Steps(o, n, Run(n))
  BY StepsExist
<1> HIDE DEF Run
<1>2. ASSUME NEW n \in Nat PROVE f[n] = e(n)
  <2>1. CASE n = 0
    BY <1>1, <2>1, StepsAre
  <2>2. CASE n # 0
    <3>1. n - 1 \in Nat /\ n \in 1..n /\ n - 1 \in 0..n /\ n - 1 <= n - 1
      BY <2>2
    <3>2. Run(n)[n] = Advanced(Run(n)[n - 1])
      BY <1>1, <3>1, StepsAre
    <3>3. Run(n)[n - 1] = Run(n - 1)[n - 1]
      BY <1>1, <3>1, StepsAgree
    <3> QED
      BY <2>2, <3>1, <3>2, <3>3
  <2> QED
    BY <2>1, <2>2
<1>3. f = [n \in Nat |-> e(n)]
  <2> HIDE DEF e
  <2> QED
    BY <1>2
<1>4. Forever(o, f)
  BY <1>3, Zenon DEF Forever
<1> QED
  BY <1>4

LEMMA OnwardIs ==
  ASSUME NEW o
  PROVE  /\ Onward(o)[0] = o
         /\ \A n \in Nat : Onward(o)[n + 1] = Advanced(Onward(o)[n])
<1> DEFINE g == Onward(o)
<1>1. g = CHOOSE f : Forever(o, f)
  BY Zenon DEF Onward, Forever
<1>2. Forever(o, g)
  BY <1>1, OnwardExists
<1> HIDE DEF g
<1>3. g = [n \in Nat |-> IF n = 0 THEN o ELSE Advanced(g[n - 1])]
  BY <1>2, Zenon DEF Forever
<1>4. \A n \in Nat : g[n] = IF n = 0 THEN o ELSE Advanced(g[n - 1])
  BY <1>3, Zenon
<1>5. 0 \in Nat /\ \A n \in Nat : n + 1 \in Nat /\ n + 1 # 0 /\ (n + 1) - 1 = n
  OBVIOUS
<1>6. g[0] = o /\ \A n \in Nat : g[n + 1] = Advanced(g[n])
  BY <1>4, <1>5
<1> QED
  BY <1>6 DEF g

\* A compilation that has ended is not gone on with.
LEMMA OnwardStays ==
  ASSUME NEW o, NEW n \in Nat, Onward(o)[n].how # "parsing", NEW m \in Nat, n <= m
  PROVE  Onward(o)[m] = Onward(o)[n]
<1> DEFINE Bad == {i \in Nat : n <= i /\ Onward(o)[i] # Onward(o)[n]}
<1> SUFFICES ASSUME Bad # {} PROVE FALSE
  OBVIOUS
<1>1. PICK k \in Bad : \A i \in Bad : k <= i
  BY LeastOf
<1>2. k # n /\ k - 1 \in Nat /\ n <= k - 1 /\ ~(k <= k - 1) /\ (k - 1) + 1 = k
  BY <1>1
<1>3. Onward(o)[k - 1] = Onward(o)[n]
  BY <1>1, <1>2
<1>4. Onward(o)[(k - 1) + 1] = Advanced(Onward(o)[k - 1])
  BY <1>2, OnwardIs
<1>5. Advanced(Onward(o)[k - 1]) = Onward(o)[k - 1]
  BY <1>3 DEF Advanced
<1> QED
  BY <1>1, <1>2, <1>3, <1>4, <1>5
-----------------------------------------------------------------------------
(* The tokens of a program, counted.                                       *)
LEMMA NumberIs ==
  ASSUME NEW S, NEW t \in Seq(S), NEW x
  PROVE  IsFiniteSet({n \in DOMAIN t : t[n] = x}) /\ Number(t, x) \in Nat
<1>1. Len(t) \in Nat /\ DOMAIN t = 1..Len(t)
  BY LenProperties
<1>2. IsFiniteSet(1..Len(t))
  BY <1>1, FS_Interval
<1>3. IsFiniteSet({n \in DOMAIN t : t[n] = x})
  BY <1>1, <1>2, FS_Subset
<1> QED
  BY <1>3, FS_CardinalityType DEF Number

LEMMA NumberNone == \A x : Number(<<>>, x) = 0
<1>1. ASSUME NEW x PROVE Number(<<>>, x) = 0
  <2>1. {n \in DOMAIN <<>> : <<>>[n] = x} = {}
    OBVIOUS
  <2> QED
    BY <2>1, FS_EmptySet DEF Number
<1> QED
  BY <1>1

LEMMA NumberAppend ==
  ASSUME NEW S, NEW t \in Seq(S), NEW e \in S, NEW x
  PROVE  Number(Append(t, e), x) = Number(t, x) + (IF e = x THEN 1 ELSE 0)
<1> DEFINE A == {n \in DOMAIN t : t[n] = x}
           B == {n \in DOMAIN Append(t, e) : Append(t, e)[n] = x}
           N == Len(t) + 1
<1>1. /\ Len(t) \in Nat /\ DOMAIN t = 1..Len(t) /\ DOMAIN Append(t, e) = 1..N
      /\ Append(t, e)[N] = e /\ \A n \in 1..Len(t) : Append(t, e)[n] = t[n]
  BY LenProperties, AppendProperties
<1>2. N \notin DOMAIN t /\ 1..N = (1..Len(t)) \cup {N}
  BY <1>1
<1>3. B = IF e = x THEN A \cup {N} ELSE A
  <2> HIDE DEF N
  <2> QED
    BY <1>1, <1>2
<1>4. IsFiniteSet(A) /\ N \notin A /\ Cardinality(A) \in Nat
  BY <1>2, NumberIs DEF Number
<1>5. Cardinality(A \cup {N}) = Cardinality(A) + 1
  <2> HIDE DEF A, N
  <2> QED
    BY <1>4, FS_AddElement
<1>6. Number(t, x) = Cardinality(A) /\ Number(Append(t, e), x) = Cardinality(B)
  BY Zenon DEF Number
<1> HIDE DEF A, B
<1> QED
  BY <1>3, <1>4, <1>5, <1>6

\* More of one token, or of the other one.
LEMMA DeltaBy ==
  \A k \in Pairs : \A x :
                      /\ Closer(k) # k
                      /\ (IF x = k THEN 1 ELSE 0) - (IF x = Closer(k) THEN 1 ELSE 0)
                           = Delta(k, x)
<1>1. ASSUME NEW k \in Pairs PROVE Closer(k) # k
  BY Zenon DEF Pairs, Closer
<1>2. ASSUME NEW k \in Pairs, NEW x
      PROVE  (IF x = k THEN 1 ELSE 0) - (IF x = Closer(k) THEN 1 ELSE 0) = Delta(k, x)
  <2> DEFINE c == Closer(k)
  <2>1. c # k
    BY <1>1
  <2>2. Delta(k, x) = IF x = k THEN 1 ELSE IF x = c THEN -1 ELSE 0
    BY Zenon DEF Delta
  <2> HIDE DEF c
  <2>3. (IF x = k THEN 1 ELSE 0) - (IF x = c THEN 1 ELSE 0) = Delta(k, x)
    BY <2>1, <2>2
  <2> QED
    BY <2>3 DEF c
<1> QED
  BY <1>1, <1>2

LEMMA NumbersAppend ==
  ASSUME NEW t \in Seq(Symbols), NEW e \in Symbols, NEW k \in Pairs, NEW a \in Int,
         Number(t, k) - Number(t, Closer(k)) = a
  PROVE  Number(Append(t, e), k) - Number(Append(t, e), Closer(k)) = a + Delta(k, e)
<1> DEFINE c == Closer(k)
           d == Delta(k, e)
<1>1. c # k /\ (IF e = k THEN 1 ELSE 0) - (IF e = c THEN 1 ELSE 0) = d
  BY DeltaBy
<1>2. Number(t, k) \in Nat /\ Number(t, c) \in Nat
  BY NumberIs
<1>3. /\ Number(Append(t, e), k) = Number(t, k) + (IF e = k THEN 1 ELSE 0)
      /\ Number(Append(t, e), c) = Number(t, c) + (IF e = c THEN 1 ELSE 0)
  BY NumberAppend
<1>4. Number(t, k) - Number(t, c) = a
  OBVIOUS
<1> HIDE DEF c, d
<1>5. Number(Append(t, e), k) - Number(Append(t, e), c) = a + d
  BY <1>1, <1>2, <1>3, <1>4
<1> QED
  BY <1>5 DEF c, d
-----------------------------------------------------------------------------
(* A compilation p that has read s up to here, with the lexer as l.        *)
Compiling(i, stack, toks, body, from) ==
  [of |-> i, stack |-> stack, toks |-> toks, body |-> body, from |-> from]

Slashed(l, r) == [l EXCEPT !.reg = r]

\* What the program has opened and not closed.
Owed(p, l, k) == Counter(l, k) - Counter(p.from, k)

Fresh(p, l) == p.stack = <<"pas">> /\ p.toks = <<>> /\ l = p.from

Accounts(p, l) ==
  \A k \in Pairs : /\ Pays(k, p.stack, Owed(p, l, k), 0)
                   /\ Number(p.toks, k) - Number(p.toks, Closer(k)) = Owed(p, l, k)

\* There are tokens left for no more than this many steps.
Room(l, s, n) ==
  n + 2 * Left(l, s) + Bit(l.reg) + Bit(l.sc)
    <= 2 * Len(s.text) + (IF l.yysbuf = <<EOT>> THEN 2 ELSE 0)

Twin(o, p, l, s) ==
  /\ o.how = "parsing" /\ o.s = s /\ o.l \in LexerStates
  /\ o.stack = p.stack /\ o.toks = p.toks /\ o.body = p.body
  /\ l = Off(o.l, p.from.bracecnt, p.from.parencnt)

\* The program alone was refused at a } that only what was left opened.
Doomed(o, p, l) == o.how = "syntax" /\ l.sc /\ Owed(p, l, OpenBrace) = 0

Follows(p, l, s, n) ==
  \/ /\ Twin(Onward(Begun(s))[n], p, l, s) /\ Room(l, s, n)
     /\ l.yysbuf # <<>> => ~l.sc /\ ~l.reg
  \/ Doomed(Onward(Begun(s))[n], p, l)

Limit(s) == 2 * Len(s.text) + 2

Reading(p, l, s) ==
  /\ p = Compiling(p.of, p.stack, p.toks, p.body, p.from)
  /\ Stacked(p.stack) /\ p.toks \in Seq(Symbols)
  /\ Scanned(l, s) /\ p.from \in LexerStates /\ ~p.from.reg
  /\ p.from.sc \/ p.from.yysbuf = <<EOT>> => Fresh(p, l)
  /\ ~p.from.sc => Accounts(p, l)
  /\ ~p.from.sc /\ p.from.yysbuf = <<>> => \E n \in 0..Limit(s) : Follows(p, l, s, n)

\* What is said of a compilation that has ended.
Said(c, l, f) ==
  /\ Harmless(c.from) /\ c.how # "limit" => Same(c, Alone(c.of))
  /\ c.from.sc => c.how = "syntax"
  /\ f # "none" => c.of.kind = "files" /\ c.how \in {"syntax", "limit"}
  /\ c.how = "compiled" =>
       /\ c.from.yysbuf = <<>> => Same(c, Alone(c.of))
       /\ c.from.yysbuf = <<EOT>> => c.toks = <<EOT>>
       /\ \A k \in Pairs : Balanced(c.toks, k, Closer(k))
       /\ l = Drained(c.from)

LEMMA CompilingIs ==
  ASSUME NEW i, NEW stack, NEW toks, NEW body, NEW from
  PROVE  LET p == Compiling(i, stack, toks, body, from)
         IN  /\ p.of = i /\ p.stack = stack /\ p.toks = toks /\ p.body = body /\ p.from = from
             /\ p = Compiling(p.of, p.stack, p.toks, p.body, p.from)
BY DEF Compiling

LEMMA SlashLexing ==
  ASSUME NEW c, NEW r, NEW b, NEW p, NEW u, NEW x
  PROVE  Slashed(Lexing(c, r, b, p, u), x) = Lexing(c, x, b, p, u)
BY DEF Slashed, Lexing

LEMMA SlashedIs ==
  ASSUME NEW l \in LexerStates, NEW r \in BOOLEAN
  PROVE  /\ Slashed(l, r) = Lexing(l.sc, r, l.bracecnt, l.parencnt, l.yysbuf)
         /\ Slashed(l, r) \in LexerStates
         /\ Slashed(l, r).sc = l.sc /\ Slashed(l, r).reg = r
         /\ Slashed(l, r).bracecnt = l.bracecnt /\ Slashed(l, r).parencnt = l.parencnt
         /\ Slashed(l, r).yysbuf = l.yysbuf
         /\ \A k : Counter(Slashed(l, r), k) = Counter(l, k)
         /\ \A s : Left(Slashed(l, r), s) = Left(l, s)
         /\ \A s : Scanned(l, s) => Scanned(Slashed(l, r), s)
<1> DEFINE c == l.sc
           b == l.bracecnt
           q == l.parencnt
           u == l.yysbuf
           m == Slashed(l, r)
<1>1. /\ l = Lexing(c, l.reg, b, q, u) /\ c \in BOOLEAN /\ b \in Int /\ q \in Int
           /\ u \in Seq(Read)
  BY LexerStateIs
<1>2. Slashed(Lexing(c, l.reg, b, q, u), r) = Lexing(c, r, b, q, u)
  BY SlashLexing
<1>3. m = Lexing(c, r, b, q, u)
  BY <1>1, <1>2
<1>4. m \in LexerStates /\ m.sc = c /\ m.reg = r /\ m.bracecnt = b /\ m.parencnt = q
        /\ m.yysbuf = u
  <2> HIDE DEF c, b, q, u, m
  <2> QED
    BY <1>1, <1>3, LexingIs, LexingTyped
<1> HIDE DEF m
<1>5. \A k : Counter(m, k) = Counter(l, k)
  BY <1>4, Zenon DEF Counter
<1>6. \A s : Left(m, s) = Left(l, s)
  BY <1>4, Zenon DEF Left
<1>7. \A s : Scanned(l, s) => Scanned(m, s)
  BY <1>4, Zenon DEF Scanned
<1> QED
  BY <1>3, <1>4, <1>5, <1>6, <1>7 DEF m

\* A compilation begins.
LEMMA StartIs == /\ Stacked(<<"pas">>)
                 /\ \A k \in Pairs : Pays(k, <<"pas">>, 0, 0)
<1>1. <<"pas">> \in Seq(Symbols) /\ Len(<<"pas">>) = 1 /\ <<"pas">>[1] = "pas"
  BY DEF Symbols
<1>2. Stacked(<<"pas">>)
  BY <1>1 DEF Stacked, Grounded
<1>3. ASSUME NEW k \in Pairs PROVE Pays(k, <<"pas">>, 0, 0)
  <2>1. "pas" \in Flat
    BY Zenon DEF Flat
  <2>2. Weight(k, "pas") = 0
    BY <2>1, FlatWeight
  <2>3. 0 \in Nat /\ 0 + Weight(k, "pas") = 0
    BY <2>2
  <2>4. Pays(k, <<"pas">>, 0 + Weight(k, "pas"), 0)
    <3> DEFINE x == "pas"
    <3>1. 0 \in Nat /\ 0 + Weight(k, x) \in Nat
      BY <2>3
    <3> HIDE DEF x
    <3>2. Pays(k, <<x>>, 0 + Weight(k, x), 0)
      BY <3>1, PaysOne
    <3> QED
      BY <3>2 DEF x
  <2> QED
    BY <2>3, <2>4, Zenon
<1> QED
  BY <1>2, <1>3

LEMMA CleanIs ==
  ASSUME NEW l \in LexerStates, ~l.sc, ~l.reg, l.yysbuf = <<>>
  PROVE  CleanLexer \in LexerStates /\ l = Off(CleanLexer, l.bracecnt, l.parencnt)
<1>1. /\ l = Lexing(l.sc, l.reg, l.bracecnt, l.parencnt, l.yysbuf)
      /\ l.sc \in BOOLEAN /\ l.reg \in BOOLEAN /\ l.bracecnt \in Int /\ l.parencnt \in Int
  BY LexerStateIs
<1>2. CleanLexer = Lexing(No, No, 0, 0, <<>>)
  BY Zenon DEF CleanLexer, Lexing, No
<1>3. l.sc = No /\ l.reg = No
  BY <1>1 DEF No
<1>4. No \in BOOLEAN /\ 0 \in Int /\ <<>> \in Seq(Read)
  BY YesAndNo
<1>5. CleanLexer \in LexerStates
  BY <1>2, <1>4, LexingTyped
<1>6. Off(CleanLexer, l.bracecnt, l.parencnt)
        = Lexing(No, No, 0 + l.bracecnt, 0 + l.parencnt, <<>>)
  BY <1>2, OffLexing
<1>7. 0 + l.bracecnt = l.bracecnt /\ 0 + l.parencnt = l.parencnt
  BY <1>1
<1> QED
  BY <1>1, <1>3, <1>5, <1>6, <1>7

LEMMA CounterTyped ==
  ASSUME NEW l \in LexerStates, NEW k
  PROVE  Counter(l, k) \in Int
<1>1. l.sc \in BOOLEAN /\ l.bracecnt \in Int /\ l.parencnt \in Int
  BY LexerStateIs
<1>2. Bit(l.sc) \in Int
  BY DEF Bit
<1>3. l.bracecnt + Bit(l.sc) \in Int
  BY <1>1, <1>2
<1> QED
  BY <1>1, <1>3, CounterIs

LEMMA BegunIs ==
  ASSUME NEW s
  PROVE  /\ Begun(s).l = CleanLexer /\ Begun(s).s = Unread(s) /\ Begun(s).stack = <<"pas">>
         /\ Begun(s).toks = <<>> /\ Begun(s).body = <<>> /\ Begun(s).how = "parsing"
BY DEF Begun

LEMMA ReadingBegins ==
  ASSUME NEW i, NEW l, NEW s, Scanned(l, s), ~l.reg, s.at = 1, ~s.ended
  PROVE  Reading(Compiling(i, <<"pas">>, <<>>, <<>>, l), l, s)
<1> DEFINE p == Compiling(i, <<"pas">>, <<>>, <<>>, l)
<1>1. /\ p.stack = <<"pas">> /\ p.toks = <<>> /\ p.body = <<>> /\ p.from = l
      /\ p = Compiling(p.of, p.stack, p.toks, p.body, p.from)
  BY CompilingIs
<1>2. l \in LexerStates /\ s \in Sources /\ Len(s.text) \in Nat
  BY LenProperties DEF Scanned, Sources
<1> SUFFICES Reading(p, l, s)
  OBVIOUS
<1> HIDE DEF p
<1>3. Fresh(p, l)
  BY <1>1 DEF Fresh
<1>4. ASSUME NEW k \in Pairs
      PROVE  /\ Pays(k, p.stack, Owed(p, l, k), 0)
             /\ Number(p.toks, k) - Number(p.toks, Closer(k)) = Owed(p, l, k)
  <2>1. Owed(p, l, k) = 0
    BY <1>1, <1>2, CounterTyped DEF Owed
  <2>2. Pays(k, p.stack, 0, 0)
    BY <1>1, StartIs
  <2>3. Number(p.toks, k) = 0 /\ Number(p.toks, Closer(k)) = 0
    BY <1>1, NumberNone
  <2> QED
    BY <2>1, <2>2, <2>3
<1>5. ASSUME ~l.sc, l.yysbuf = <<>>
      PROVE  \E n \in 0..Limit(s) : Follows(p, l, s, n)
  <2> DEFINE o == Begun(s)
  <2>1. Onward(o)[0] = o
    BY OnwardIs
  <2>2. Unread(s) = s
    <3>1. s = [kind |-> s.kind, text |-> s.text, nprog |-> s.nprog, at |-> 1, ended |-> FALSE]
      BY <1>2 DEF Sources
    <3>2. [s EXCEPT !.at = 1, !.ended = FALSE]
            = [kind |-> s.kind, text |-> s.text, nprog |-> s.nprog, at |-> 1, ended |-> FALSE]
      BY <1>2 DEF Sources
    <3> QED
      BY <3>1, <3>2, Zenon DEF Unread
  <2>3. Twin(o, p, l, s)
    BY <1>1, <1>2, <1>5, <2>2, CleanIs, BegunIs DEF Twin
  <2>4. Room(l, s, 0)
    <3>1. Bit(l.reg) = 0 /\ Bit(l.sc) = 0
      BY <1>5 DEF Bit
    <3>2. Left(l, s) = Len(s.text)
      <4>1. Len(l.yysbuf) = 0
        BY <1>5
      <4> QED
        BY <1>2, <4>1 DEF Left
    <3>3. l.yysbuf # <<EOT>>
      BY <1>5
    <3> DEFINE t == Len(s.text)
               u == Left(l, s)
               x == Bit(l.reg)
               z == Bit(l.sc)
               e == IF l.yysbuf = <<EOT>> THEN 2 ELSE 0
    <3>4. t \in Nat /\ u = t /\ x = 0 /\ z = 0 /\ e = 0
      BY <1>2, <3>1, <3>2, <3>3
    <3> SUFFICES 0 + 2 * u + x + z <= 2 * t + e
      BY Zenon DEF Room
    <3> HIDE DEF t, u, x, z, e
    <3> QED
      BY <3>4
  <2>5. Follows(p, l, s, 0)
    BY <1>5, <2>1, <2>3, <2>4 DEF Follows
  <2>6. 0 \in 0..Limit(s)
    BY <1>2 DEF Limit
  <2> QED
    BY <2>5, <2>6
<1>6. p.toks \in Seq(Symbols) /\ Stacked(p.stack)
  BY <1>1, StartIs
<1> QED
  BY <1>1, <1>2, <1>3, <1>4, <1>5, <1>6 DEF Reading, Accounts
-----------------------------------------------------------------------------
(* One token, read by a compilation and by that of the program alone.      *)
LEMMA FurtherIs ==
  ASSUME NEW o, NEW z, z = yylex(o.l, o.s), NEW rest, rest = Reduced(Expected(o.stack, z.tok)),
         NEW bad, bad = (Head(o.stack) = "close" /\ requote(o.body) \in Invalid),
         NEW r, r = StartsRegexpr(o.stack, z.tok)
  PROVE  LET f == Further(o)
         IN  /\ z.how # "ok" => f.how = z.how
             /\ z.how = "ok" /\ ~Takes(o.stack, z.tok) => f.how = "syntax"
             /\ z.how = "ok" /\ Takes(o.stack, z.tok) /\ bad => f.how = "fatal"
             /\ z.how = "ok" /\ Takes(o.stack, z.tok) /\ ~bad =>
                  /\ f.how = IF rest = <<>> THEN "compiled" ELSE "parsing"
                  /\ f.toks = Append(o.toks, z.tok) /\ f.stack = rest
                  /\ f.s = z.s /\ f.body = z.body
                  /\ r \in BOOLEAN => f.l = Slashed(z.l, r)
<1> DEFINE f == Further(o)
           t == z.how = "ok" /\ Takes(o.stack, z.tok)
<1>1. f.how = IF z.how # "ok" THEN z.how
              ELSE IF t /\ bad THEN "fatal"
              ELSE IF ~t THEN "syntax"
              ELSE IF rest = <<>> THEN "compiled" ELSE "parsing"
  BY DEF Further, Parsed
<1>2. f.toks = IF t /\ ~bad THEN Append(o.toks, z.tok) ELSE o.toks
  BY DEF Further, Parsed
<1>3. f.stack = IF ~t \/ (t /\ bad) THEN o.stack ELSE rest
  BY DEF Further, Parsed
<1>4. f.s = z.s /\ f.body = z.body
  BY DEF Further, Parsed
<1>5. ASSUME t, r \in BOOLEAN PROVE f.l = Slashed(z.l, r)
  <2>1. f.l = [z.l EXCEPT !.reg = t /\ r]
    BY DEF Further, Parsed
  <2>2. (t /\ r) = r
    BY <1>5
  <2> HIDE DEF t, f
  <2>3. f.l = [z.l EXCEPT !.reg = r]
    BY <2>1, <2>2, Zenon
  <2> QED
    BY <2>3, Zenon DEF Slashed
<1> HIDE DEF f
<1>6. /\ z.how # "ok" => f.how = z.how
      /\ z.how = "ok" /\ ~Takes(o.stack, z.tok) => f.how = "syntax"
      /\ z.how = "ok" /\ Takes(o.stack, z.tok) /\ bad => f.how = "fatal"
      /\ z.how = "ok" /\ Takes(o.stack, z.tok) /\ ~bad =>
                  /\ f.how = IF rest = <<>> THEN "compiled" ELSE "parsing"
                  /\ f.toks = Append(o.toks, z.tok) /\ f.stack = rest
                  /\ f.s = z.s /\ f.body = z.body
                  /\ r \in BOOLEAN => f.l = Slashed(z.l, r)
  BY <1>1, <1>2, <1>3, <1>4, <1>5
<1> QED
  BY <1>6 DEF f

LEMMA BracePair == OpenBrace \in Pairs /\ "(" \in Pairs /\ OpenBrace # "("
                   /\ CloseBrace # EOT /\ ")" # EOT /\ Semicolon # EOT /\ Semicolon # "/"
BY Zenon DEF OpenBrace, CloseBrace, Semicolon, Pairs, EOT

LEMMA PairDeltas ==
  /\ Delta(OpenBrace, CloseBrace) = 0 - 1 /\ Delta("(", ")") = 0 - 1
  /\ Delta(OpenBrace, Semicolon) = 0
  /\ \A k \in Pairs : Delta(k, EOT) = 0
<1>1. Semicolon \notin {OpenBrace, CloseBrace, "(", ")"}
        /\ EOT \notin {OpenBrace, CloseBrace, "(", ")"}
  BY Zenon DEF OpenBrace, CloseBrace, Semicolon, EOT
<1> QED
  BY <1>1, BracePair, DeltaOf

\* The token after the ; that stands for a }.
LEMMA OwedIs ==
  ASSUME NEW l, NEW s, l.sc
  PROVE  yylex(l, s).tok = CloseBrace /\ yylex(l, s).how = "ok"
<1>1. yylex(l, s) = Lexed(Settled(l), s, 0, CloseBrace, "ok")
  BY YylexIs
<1> QED
  BY <1>1, LexedShape

\* Nothing is closed that was not opened.
LEMMA OwedTaken ==
  ASSUME NEW p, NEW l, NEW tok, Stacked(p.stack), Accounts(p, l), Takes(p.stack, tok),
         tok # EOT,
         NEW k \in Pairs
  PROVE  Owed(p, l, k) \in Nat /\ Owed(p, l, k) + Delta(k, tok) \in Nat
<1>1. Pays(k, p.stack, Owed(p, l, k), 0)
  BY DEF Accounts
<1>2. p.stack \in Seq(Symbols)
  BY DEF Stacked, Grounded
<1>3. \A a : Pays(k, p.stack, a, 0) => a + Delta(k, tok) \in Nat
  BY ParserGoesOn
<1> QED
  BY <1>1, <1>2, <1>3, PaysNat

\* A } that an earlier program owes is refused.
LEMMA OwedRefused ==
  ASSUME NEW p, NEW l, NEW s, Reading(p, l, s), p.from.sc
  PROVE  yylex(l, s).how = "ok" /\ ~Takes(p.stack, yylex(l, s).tok)
<1>1. Fresh(p, l)
  BY DEF Reading
<1>2. p.stack = <<"pas">> /\ l.sc
  BY <1>1 DEF Fresh
<1>3. yylex(l, s).tok = CloseBrace /\ yylex(l, s).how = "ok"
  BY <1>2, OwedIs
<1>4. ASSUME Takes(<<"pas">>, CloseBrace) PROVE FALSE
  <2>1. /\ Stacked(<<"pas">>) /\ Pays(OpenBrace, <<"pas">>, 0, 0) /\ CloseBrace # EOT
        /\ OpenBrace \in Pairs
    BY StartIs, BracePair
  <2>2. \A a : Pays(OpenBrace, <<"pas">>, a, 0) => a + Delta(OpenBrace, CloseBrace) \in Nat
    BY <1>4, <2>1, ParserGoesOn
  <2> QED
    BY <2>1, <2>2, PairDeltas
<1> QED
  BY <1>2, <1>3, <1>4

LEMMA KeptBegins ==
  ASSUME NEW s, NEW t, Kept(s, t)
  PROVE  Begun(t) = Begun(s) /\ Alone(t) = Alone(s) /\ Limit(t) = Limit(s)
<1>1. Unread(t) = Unread(s) /\ t.text = s.text
  BY DEF Kept
<1>2. Begun(t) = Begun(s)
  BY <1>1, Zenon DEF Begun
<1> QED
  BY <1>1, <1>2, Zenon DEF Alone, Limit

LEMMA TwinIs ==
  ASSUME NEW p, NEW l, NEW s, Reading(p, l, s), ~p.from.sc, NEW o, Twin(o, p, l, s)
  PROVE  /\ o.s = s /\ o.l \in LexerStates /\ Scanned(o.l, s) /\ o.l.sc = l.sc
         /\ \/ Twins(yylex(l, s), yylex(o.l, s), p.from.bracecnt, p.from.parencnt)
            \/ Parted(yylex(l, s), yylex(o.l, s), o.l, p.from.bracecnt, p.from.parencnt)
         /\ Owed(p, l, "(") = o.l.parencnt
         /\ Owed(p, l, OpenBrace) = o.l.bracecnt + Bit(l.sc)
<1> DEFINE a == p.from.bracecnt
           b == p.from.parencnt
<1>1. a \in Int /\ b \in Int /\ p.from.sc \in BOOLEAN
  BY LexerStateIs DEF Reading
<1>2. o.s = s /\ o.l \in LexerStates /\ l = Off(o.l, a, b) /\ Scanned(l, s)
  BY DEF Reading, Twin
<1>3. /\ l.sc = o.l.sc /\ l.yysbuf = o.l.yysbuf
      /\ l.bracecnt = o.l.bracecnt + a /\ l.parencnt = o.l.parencnt + b
  BY <1>1, <1>2, OffIs
<1>4. Scanned(o.l, s)
  BY <1>2, <1>3 DEF Scanned
<1>5. /\ \/ Twins(yylex(l, s), yylex(o.l, s), a, b)
         \/ Parted(yylex(l, s), yylex(o.l, s), o.l, a, b)
  <2> HIDE DEF a, b
  <2>1. \/ Twins(yylex(Off(o.l, a, b), s), yylex(o.l, s), a, b)
        \/ Parted(yylex(Off(o.l, a, b), s), yylex(o.l, s), o.l, a, b)
    BY <1>1, <1>4, OffsetIs
  <2> QED
    BY <1>2, <2>1
<1>6. Owed(p, l, "(") = o.l.parencnt
  <2>1. Counter(l, "(") = l.parencnt /\ Counter(p.from, "(") = b
    BY CounterIs
  <2>2. o.l.parencnt \in Int
    BY <1>2, LexerStateIs
  <2> QED
    BY <1>1, <1>3, <2>1, <2>2 DEF Owed
<1>7. Owed(p, l, OpenBrace) = o.l.bracecnt + Bit(l.sc)
  <2>1. Counter(l, OpenBrace) = l.bracecnt + Bit(l.sc)
          /\ Counter(p.from, OpenBrace) = a + Bit(p.from.sc)
    BY CounterIs, BracePair
  <2>2. o.l.bracecnt \in Int
    BY <1>2, LexerStateIs
  <2>3. Bit(p.from.sc) = 0 /\ Bit(l.sc) \in Int
    BY DEF Bit
  <2> QED
    BY <1>1, <1>3, <2>1, <2>2, <2>3 DEF Owed
<1> QED
  BY <1>2, <1>3, <1>4, <1>5, <1>6, <1>7

\* A token that the counters part: what it is, and what comes of it.
LEMMA PartedIs ==
  ASSUME NEW p, NEW l, NEW s, Reading(p, l, s), ~p.from.sc, NEW o, Twin(o, p, l, s),
         NEW y, y = yylex(l, s), NEW z, z = yylex(o.l, s),
         Parted(y, z, o.l, p.from.bracecnt, p.from.parencnt), y.how = "ok"
  PROVE  /\ z.how = "syntax" /\ y.tok # EOT /\ y.tok # "/"
         /\ Takes(p.stack, y.tok) => /\ y.tok = Semicolon /\ y.l.sc
                                     /\ Owed(p, l, OpenBrace) = 0
<1>1. /\ o.l.sc = l.sc /\ o.l \in LexerStates /\ Owed(p, l, "(") = o.l.parencnt
      /\ Owed(p, l, OpenBrace) = o.l.bracecnt + Bit(l.sc)
  BY TwinIs
<1>2. /\ z.how = "syntax"
      /\ \/ y.tok = Semicolon /\ y.l.sc /\ o.l.bracecnt <= 0
         \/ y.tok = ")" /\ o.l.parencnt <= 0
  BY DEF Parted
<1>3. y.tok # EOT /\ y.tok # "/"
  BY <1>2, BracePair
<1>4. ~l.sc /\ Bit(l.sc) = 0
  <2>1. o.l.sc => z.how = "ok"
    BY OwedIs
  <2>2. ~l.sc
    BY <1>1, <1>2, <2>1
  <2> QED
    BY <2>2 DEF Bit
<1>5. o.l.bracecnt \in Int /\ o.l.parencnt \in Int
  BY <1>1, LexerStateIs
<1>6. ASSUME Takes(p.stack, y.tok)
      PROVE  y.tok = Semicolon /\ y.l.sc /\ Owed(p, l, OpenBrace) = 0
  <2>1. \A k \in Pairs : Owed(p, l, k) \in Nat /\ Owed(p, l, k) + Delta(k, y.tok) \in Nat
    BY <1>3, <1>6, OwedTaken DEF Reading
  <2>2. CASE y.tok = ")" /\ o.l.parencnt <= 0
    <3>1. Owed(p, l, "(") + (0 - 1) \in Nat
      BY <2>1, <2>2, BracePair, PairDeltas
    <3> QED
      BY <1>1, <1>5, <2>2, <3>1
  <2>3. CASE y.tok = Semicolon /\ y.l.sc /\ o.l.bracecnt <= 0
    <3>1. Owed(p, l, OpenBrace) \in Nat
      BY <2>1, BracePair
    <3>2. Owed(p, l, OpenBrace) = 0
      BY <1>1, <1>4, <1>5, <2>3, <3>1
    <3> QED
      BY <2>3, <3>2
  <2> QED
    BY <1>2, <2>2, <2>3
<1> QED
  BY <1>2, <1>3, <1>6

\* A compilation that has something to go on from began with a clean lexer.
LEMMA TokenTaken ==
  ASSUME NEW p, NEW l, NEW s, Reading(p, l, s), NEW y, y = yylex(l, s), y.how = "ok",
         Takes(p.stack, y.tok)
  PROVE  /\ ~p.from.sc
         /\ p.from.yysbuf = <<EOT>> => y.tok = EOT
         /\ Good(l, s, y) /\ GoodToken(l, s, y)
<1>1. ~p.from.sc
  BY OwedRefused
<1>2. ASSUME p.from.yysbuf = <<EOT>> PROVE y.tok = EOT
  <2>1. l = p.from /\ ~p.from.reg /\ Scanned(l, s)
    BY <1>2 DEF Reading, Fresh
  <2> QED
    BY <1>1, <1>2, <2>1, EotFirst
<1>3. Good(l, s, y)
  BY LexIs DEF Reading
<1>4. GoodToken(l, s, y)
  BY <1>3 DEF Good
<1> QED
  BY <1>1, <1>2, <1>3, <1>4

LEMMA OwedNext ==
  ASSUME NEW p, NEW l, NEW s, Reading(p, l, s), NEW m, NEW q, q.from = p.from, NEW tok,
         NEW k \in Pairs,
         m \in LexerStates, Counter(m, k) = Counter(l, k) + Delta(k, tok)
  PROVE  Owed(q, m, k) = Owed(p, l, k) + Delta(k, tok)
<1>1. Counter(l, k) \in Int /\ Counter(p.from, k) \in Int /\ Delta(k, tok) \in Int
  <2>1. l \in LexerStates /\ p.from \in LexerStates
    BY DEF Reading, Scanned
  <2>2. Delta(k, tok) \in {-1, 0, 1}
    BY DeltaInt
  <2> QED
    BY <2>1, <2>2, CounterTyped
<1> QED
  BY <1>1 DEF Owed

LEMMA RoomSum ==
  \A n, t, u, v \in Nat : \A e, c, r, w, f, g \in Int :
    /\ r <= w /\ n + 2 * u + f + g <= 2 * t + 0
    /\ 1 + 2 * v + c + w <= 2 * u + f + g + e
    => (n + 1) + 2 * v + r + c <= 2 * t + e
OBVIOUS

\* A step leaves room for one less.
LEMMA RoomNext ==
  ASSUME NEW l, NEW s, NEW y, NEW m, NEW n \in Nat, Scanned(l, s), Scanned(m, y.s),
         Kept(s, y.s),
         Room(l, s, n), Spends(l, s, y), l.yysbuf # <<EOT>>,
         m.sc = y.l.sc, m.yysbuf = y.l.yysbuf, Left(m, y.s) = Left(y.l, y.s), y.tok
           = "/" \/ ~m.reg
  PROVE  Room(m, y.s, n + 1)
<1> DEFINE t == Len(s.text)
           u == Left(l, s)
           v == Left(m, y.s)
           e == IF m.yysbuf = <<EOT>> THEN 2 ELSE 0
           c == Bit(m.sc)
           r == Bit(m.reg)
           w == Bit(y.tok = "/")
           lc == Bit(l.sc)
           lr == Bit(l.reg)
<1>1. t \in Nat /\ u \in Nat /\ v \in Nat /\ t = Len(y.s.text)
  <2>1. s.text \in Seq(STRING)
    BY DEF Scanned, Sources
  <2> QED
    BY <2>1, AheadIs, LenProperties DEF Kept
<1>2. \A x : Bit(x) \in {0, 1}
  BY DEF Bit
<1>3. e \in {0, 2} /\ c \in {0, 1} /\ r \in {0, 1} /\ w \in {0, 1} /\ lc \in {0, 1}
        /\ lr \in {0, 1}
  BY <1>2
<1>4. r <= w
  BY DEF Bit
<1>5. n + 2 * u + lr + lc <= 2 * t + 0
  BY Zenon DEF Room
<1>6. 1 + 2 * v + c + w <= 2 * u + lr + lc + e
  <2>1. 1 + 2 * Left(y.l, y.s) + Bit(y.l.sc) + Bit(y.tok = "/")
       <= 2 * Left(l, s) + Bit(l.reg) + Bit(l.sc) + (IF y.l.yysbuf = <<EOT>> THEN 2 ELSE 0)
    BY Zenon DEF Spends
  <2> QED
    BY <2>1, Zenon
<1> SUFFICES (n + 1) + 2 * v + r + c <= 2 * t + e
  BY <1>1, Zenon DEF Room
<1> HIDE DEF t, u, v, e, c, r, w, lc, lr
<1>7. e \in Int /\ c \in Int /\ r \in Int /\ w \in Int /\ lc \in Int /\ lr \in Int
  BY <1>3
<1> QED
  BY <1>1, <1>4, <1>5, <1>6, <1>7, RoomSum, Zenon

LEMMA RoomBound ==
  ASSUME NEW l, NEW s, Scanned(l, s), NEW n \in Nat, Room(l, s, n)
  PROVE  n + 1 \in 0..Limit(s)
<1> DEFINE t == Len(s.text)
           u == Left(l, s)
           e == IF l.yysbuf = <<EOT>> THEN 2 ELSE 0
           lc == Bit(l.sc)
           lr == Bit(l.reg)
<1>1. t \in Nat /\ u \in Nat /\ (e = 2 => u >= 1) /\ e \in {0, 2}
  <2>1. s.text \in Seq(STRING)
    BY DEF Scanned, Sources
  <2> QED
    BY <2>1, AheadIs, LenProperties
<1>2. lc \in {0, 1} /\ lr \in {0, 1}
  BY DEF Bit
<1>3. n + 2 * u + lr + lc <= 2 * t + e
  BY Zenon DEF Room
<1> SUFFICES n + 1 \in 0..(2 * t + 2)
  BY Zenon DEF Limit
<1> HIDE DEF t, u, e, lc, lr
<1> QED
  BY <1>1, <1>2, <1>3

Bad(p) == Head(p.stack) = "close" /\ requote(p.body) \in Invalid

\* The compilation of the program alone goes on in the same way, or is doomed.
LEMMA AloneGoesOn ==
  ASSUME NEW p, NEW l, NEW s, Reading(p, l, s), NEW n \in 0..Limit(s), Follows(p, l, s, n),
         NEW y, y = yylex(l, s), y.how = "ok", Takes(p.stack, y.tok), ~Bad(p),
         NEW rest, rest = Reduced(Expected(p.stack, y.tok)), rest # <<>>, y.tok # EOT,
         NEW r \in BOOLEAN, r = StartsRegexpr(p.stack, y.tok),
         NEW q, q = Compiling(p.of, rest, Append(p.toks, y.tok), y.body, p.from),
         NEW m, m = Slashed(y.l, r)
  PROVE  \E j \in 0..Limit(y.s) : Follows(q, m, y.s, j)
<1> DEFINE o == Onward(Begun(s))[n]
           z == yylex(o.l, o.s)
           f == Further(o)
<1>1. /\ ~p.from.sc /\ (p.from.yysbuf = <<EOT>> => y.tok = EOT)
      /\ Scanned(y.l, y.s) /\ Kept(s, y.s) /\ GoodToken(l, s, y)
  BY TokenTaken DEF Good
<1>2. Accounts(p, l) /\ Stacked(p.stack) /\ Scanned(l, s)
  BY <1>1 DEF Reading
<1>3. /\ q.stack = rest /\ q.toks = Append(p.toks, y.tok) /\ q.body = y.body /\ q.from = p.from
  BY DEF Compiling
<1>4. /\ m \in LexerStates /\ m.sc = y.l.sc /\ m.reg = r /\ m.yysbuf = y.l.yysbuf
      /\ Left(m, y.s) = Left(y.l, y.s) /\ Scanned(m, y.s)
      /\ \A k : Counter(m, k) = Counter(y.l, k)
      /\ m.bracecnt = y.l.bracecnt /\ m.parencnt = y.l.parencnt
  BY <1>1, SlashedIs DEF Scanned
<1>5. r => y.tok = "/"
  BY <1>2, ParserGoesOn
<1>6. Begun(y.s) = Begun(s) /\ Limit(y.s) = Limit(s)
  BY <1>1, KeptBegins
<1>7. CASE Doomed(o, p, l)
  <2>1. l.sc /\ Owed(p, l, OpenBrace) = 0
    BY <1>7 DEF Doomed
  <2>2. y.tok = CloseBrace
    BY <2>1, OwedIs
  <2>3. Owed(p, l, OpenBrace) + Delta(OpenBrace, CloseBrace) \in Nat
    BY <1>2, <2>2, BracePair, OwedTaken
  <2> QED
    BY <2>1, <2>3, PairDeltas
<1>8. CASE Twin(o, p, l, s) /\ Room(l, s, n) /\ (l.yysbuf # <<>> => ~l.sc /\ ~l.reg)
  <2>1. n \in Nat /\ n + 1 \in 0..Limit(y.s)
    BY <1>2, <1>6, <1>8, RoomBound
  <2>2. Onward(Begun(y.s))[n + 1] = f
    <3>1. Onward(Begun(s))[n + 1] = Advanced(o)
      BY <2>1, OnwardIs
    <3>2. o.how = "parsing"
      BY <1>8 DEF Twin
    <3> QED
      BY <1>6, <3>1, <3>2 DEF Advanced
  <2>3. /\ o.s = s /\ o.stack = p.stack /\ o.toks = p.toks /\ o.body = p.body
        /\ o.l \in LexerStates
    BY <1>8 DEF Twin
  <2> DEFINE a == p.from.bracecnt
             b == p.from.parencnt
  <2>4. Twins(y, z, a, b) \/ Parted(y, z, o.l, a, b)
    BY <1>1, <1>8, <2>3, TwinIs
  <2>5. a \in Int /\ b \in Int
    BY LexerStateIs DEF Reading
  <2> HIDE DEF o, z, a, b
  <2>6. CASE Twins(y, z, a, b)
    <3>1. /\ y.tok = z.tok /\ y.body = z.body /\ y.how = z.how /\ y.s = z.s
          /\ z.l \in LexerStates /\ y.l = Off(z.l, a, b)
      BY <2>6 DEF Twins
    <3>2. /\ f.how = "parsing" /\ f.toks = q.toks /\ f.stack = q.stack /\ f.s = y.s
          /\ f.body = q.body /\ f.l = Slashed(z.l, r)
      <4>1. rest = Reduced(Expected(o.stack, z.tok)) /\ r = StartsRegexpr(o.stack, z.tok)
        BY <2>3, <3>1
      <4>2. Bad(p) = (Head(o.stack) = "close" /\ requote(o.body) \in Invalid)
        BY <2>3 DEF Bad
      <4>3. z = yylex(o.l, o.s) /\ z.how = "ok" /\ Takes(o.stack, z.tok)
        BY <2>3, <3>1 DEF z
      <4> QED
        BY <1>3, <2>3, <3>1, <4>1, <4>2, <4>3, FurtherIs
    <3> HIDE DEF f
    <3>3. m = Off(f.l, a, b) /\ f.l \in LexerStates
      <4>1. f.l = Lexing(z.l.sc, r, z.l.bracecnt, z.l.parencnt, z.l.yysbuf)
              /\ f.l \in LexerStates
        BY <3>1, <3>2, SlashedIs
      <4>2. Off(f.l, a, b) = Lexing(z.l.sc, r, z.l.bracecnt + a, z.l.parencnt + b, z.l.yysbuf)
        BY <4>1, OffLexing
      <4>3. /\ y.l.sc = z.l.sc /\ y.l.yysbuf = z.l.yysbuf
            /\ y.l.bracecnt = z.l.bracecnt + a /\ y.l.parencnt = z.l.parencnt + b
        BY <2>5, <3>1, OffIs
      <4>4. m = Lexing(m.sc, m.reg, m.bracecnt, m.parencnt, m.yysbuf)
        BY <1>4, LexerStateIs
      <4> QED
        BY <1>4, <4>1, <4>2, <4>3, <4>4
    <3>4. Twin(f, q, m, y.s)
      BY <1>3, <3>2, <3>3 DEF Twin, a, b
    <3>5. Room(m, y.s, n + 1)
      <4>1. Spends(l, s, y)
        BY <1>1, <1>8 DEF GoodToken
      <4>2. l.yysbuf # <<EOT>>
        <5>1. <<EOT>> # <<>>
          OBVIOUS
        <5> QED
          BY <1>2, <1>8, <5>1, EotFirst
      <4> QED
        BY <1>1, <1>2, <1>4, <1>5, <1>8, <2>1, <4>1, <4>2, RoomNext
    <3>6. m.yysbuf # <<>> => ~m.sc /\ ~m.reg
      <4>1. Spends(l, s, y)
        BY <1>1, <1>8 DEF GoodToken
      <4>2. y.l.yysbuf # <<>> => ~y.l.sc /\ y.tok # "/"
        BY <4>1, Zenon DEF Spends
      <4> QED
        BY <1>4, <1>5, <4>2
    <3>7. Follows(q, m, y.s, n + 1)
      BY <2>2, <3>4, <3>5, <3>6 DEF Follows
    <3> QED
      BY <2>1, <3>7
  <2>7. CASE Parted(y, z, o.l, a, b)
    <3>1. z.how = "syntax" /\ y.tok = Semicolon /\ y.l.sc /\ Owed(p, l, OpenBrace) = 0
      BY <1>1, <1>8, <2>3, <2>7, PartedIs DEF z, a, b, o
    <3>2. f.how = "syntax"
      <4>1. z = yylex(o.l, o.s) /\ z.how # "ok"
        BY <3>1 DEF z
      <4> QED
        BY <3>1, <4>1, FurtherIs
    <3>3. Owed(q, m, OpenBrace) = 0
      <4>1. Counter(m, OpenBrace) = Counter(l, OpenBrace) + Delta(OpenBrace, y.tok)
        BY <1>1, <1>4, BracePair DEF GoodToken
      <4>2. Owed(q, m, OpenBrace) = Owed(p, l, OpenBrace) + Delta(OpenBrace, y.tok)
        BY <1>3, <1>4, <4>1, BracePair, OwedNext
      <4> QED
        BY <3>1, <4>2, PairDeltas
    <3>4. Doomed(f, q, m)
      BY <1>4, <3>1, <3>2, <3>3 DEF Doomed
    <3>5. Follows(q, m, y.s, n + 1)
      BY <2>2, <3>4 DEF Follows
    <3> QED
      BY <2>1, <3>5
  <2> QED
    BY <2>4, <2>6, <2>7
<1> QED
  BY <1>7, <1>8 DEF Follows

LEMMA ReadingGoesOn ==
  ASSUME NEW p, NEW l, NEW s, Reading(p, l, s),
         NEW y, y = yylex(l, s), y.how = "ok", Takes(p.stack, y.tok), ~Bad(p),
         NEW rest, rest = Reduced(Expected(p.stack, y.tok)), rest # <<>>,
         NEW r \in BOOLEAN, r = StartsRegexpr(p.stack, y.tok),
         NEW q, q = Compiling(p.of, rest, Append(p.toks, y.tok), y.body, p.from),
         NEW m, m = Slashed(y.l, r)
  PROVE  Reading(q, m, y.s)
<1>1. /\ ~p.from.sc /\ (p.from.yysbuf = <<EOT>> => y.tok = EOT)
      /\ Scanned(y.l, y.s) /\ Kept(s, y.s) /\ GoodToken(l, s, y)
  BY TokenTaken DEF Good
<1>2. /\ Accounts(p, l) /\ Stacked(p.stack) /\ p.toks \in Seq(Symbols)
      /\ p.from \in LexerStates /\ ~p.from.reg
  BY <1>1 DEF Reading
<1>3. y.tok # EOT
  BY <1>2, ParserEnds
<1>4. /\ q.stack = rest /\ q.toks = Append(p.toks, y.tok) /\ q.from = p.from
      /\ q = Compiling(q.of, q.stack, q.toks, q.body, q.from)
  BY DEF Compiling
<1>5. /\ m \in LexerStates /\ Scanned(m, y.s) /\ \A k : Counter(m, k) = Counter(y.l, k)
  BY <1>1, SlashedIs DEF Scanned
<1>6. /\ Stacked(rest) /\ y.tok \in Symbols
      /\ \A k \in Pairs : \A a : Pays(k, p.stack, a, 0) => Pays(k, rest, a + Delta(k, y.tok), 0)
  BY <1>2, <1>3, ParserGoesOn
<1>7. q.toks \in Seq(Symbols)
  BY <1>2, <1>4, <1>6, AppendProperties
<1>8. Accounts(q, m)
  <2> SUFFICES ASSUME NEW k \in Pairs
               PROVE  /\ Pays(k, q.stack, Owed(q, m, k), 0)
                      /\ Number(q.toks, k) - Number(q.toks, Closer(k)) = Owed(q, m, k)
    BY DEF Accounts
  <2>1. /\ Pays(k, p.stack, Owed(p, l, k), 0)
        /\ Number(p.toks, k) - Number(p.toks, Closer(k)) = Owed(p, l, k)
    BY <1>2 DEF Accounts
  <2>2. Counter(m, k) = Counter(l, k) + Delta(k, y.tok)
    BY <1>1, <1>5 DEF GoodToken
  <2>3. Owed(q, m, k) = Owed(p, l, k) + Delta(k, y.tok)
    BY <1>4, <1>5, <2>2, OwedNext
  <2>4. Owed(p, l, k) \in Int
    <3>1. Owed(p, l, k) \in Nat
      BY <1>2, <1>3, OwedTaken
    <3> QED
      BY <3>1
  <2>5. Pays(k, rest, Owed(p, l, k) + Delta(k, y.tok), 0)
    BY <1>6, <2>1
  <2>6. Number(q.toks, k) - Number(q.toks, Closer(k)) = Owed(p, l, k) + Delta(k, y.tok)
    BY <1>2, <1>4, <1>6, <2>1, <2>4, NumbersAppend
  <2> QED
    BY <1>4, <2>3, <2>5, <2>6
<1>9. ASSUME p.from.yysbuf = <<>>
      PROVE  \E n \in 0..Limit(y.s) : Follows(q, m, y.s, n)
  <2>1. PICK n \in 0..Limit(s) : Follows(p, l, s, n)
    BY <1>1, <1>9 DEF Reading
  <2> QED
    BY <1>3, <2>1, AloneGoesOn
<1>10. ~q.from.sc /\ q.from.yysbuf # <<EOT>> /\ q.from \in LexerStates /\ ~q.from.reg
  BY <1>1, <1>2, <1>3, <1>4
<1>11. Stacked(q.stack)
  BY <1>4, <1>6
<1> QED
  BY <1>4, <1>5, <1>7, <1>8, <1>9, <1>10, <1>11 DEF Reading
-----------------------------------------------------------------------------
(* The end of a compilation.                                               *)
\* How a compilation ends with a token.
Outcome(p, y, how) ==
  \/ y.how # "ok" /\ how = y.how
  \/ y.how = "ok" /\ ~Takes(p.stack, y.tok) /\ how = "syntax"
  \/ y.how = "ok" /\ Takes(p.stack, y.tok) /\ how = "limit"
  \/ y.how = "ok" /\ Takes(p.stack, y.tok) /\ Bad(p) /\ how = "fatal"
  \/ /\ y.how = "ok" /\ Takes(p.stack, y.tok) /\ ~Bad(p) /\ how = "compiled"
     /\ Reduced(Expected(p.stack, y.tok)) = <<>>

LEMMA AloneIs ==
  ASSUME NEW s, NEW n \in 0..Limit(s), Onward(Begun(s))[n].how # "parsing", s \in Sources
  PROVE  Alone(s) = Onward(Begun(s))[n]
<1>1. Len(s.text) \in Nat
  BY LenProperties DEF Sources
<1>2. Limit(s) \in Nat /\ n \in Nat /\ n <= Limit(s)
  BY <1>1 DEF Limit
<1>3. Alone(s) = Onward(Begun(s))[Limit(s)]
  BY Zenon DEF Alone, Limit
<1> QED
  BY <1>2, <1>3, OnwardStays

LEMMA AloneEnds ==
  ASSUME NEW p, NEW l, NEW s, Reading(p, l, s), ~p.from.sc, p.from.yysbuf = <<>>,
         NEW y, y = yylex(l, s), NEW how, Outcome(p, y, how), how # "limit",
         Harmless(p.from) \/ how = "compiled"
  PROVE  /\ Alone(s).how = how
         /\ how = "compiled" => Alone(s).toks = Append(p.toks, y.tok)
<1>1. PICK n \in 0..Limit(s) : Follows(p, l, s, n)
  BY DEF Reading
<1> DEFINE o == Onward(Begun(s))[n]
           z == yylex(o.l, o.s)
           f == Further(o)
           rest == Reduced(Expected(p.stack, y.tok))
<1>2. /\ Accounts(p, l) /\ Stacked(p.stack) /\ Scanned(l, s) /\ s \in Sources
      /\ p.from \in LexerStates
  BY DEF Reading, Scanned
<1>3. y.how \in {"ok", "syntax", "fatal"}
  BY <1>2, LexIs DEF Good
<1>4. how # "parsing"
  BY <1>3 DEF Outcome
<1>5. CASE Doomed(o, p, l)
  <2>1. l.sc /\ Owed(p, l, OpenBrace) = 0 /\ o.how = "syntax"
    BY <1>5 DEF Doomed
  <2>2. y.tok = CloseBrace /\ y.how = "ok"
    BY <2>1, OwedIs
  <2>3. ASSUME Takes(p.stack, y.tok) PROVE FALSE
    <3>1. Owed(p, l, OpenBrace) + Delta(OpenBrace, CloseBrace) \in Nat
      BY <1>2, <2>2, <2>3, BracePair, OwedTaken
    <3> QED
      BY <2>1, <3>1, PairDeltas
  <2>4. how = "syntax"
    BY <2>2, <2>3 DEF Outcome
  <2>5. Alone(s) = o
    BY <1>2, <2>1, AloneIs
  <2> QED
    BY <2>1, <2>4, <2>5
<1>6. CASE Twin(o, p, l, s) /\ Room(l, s, n)
  <2>1. n \in Nat /\ n + 1 \in 0..Limit(s)
    BY <1>2, <1>6, RoomBound
  <2>2. Onward(Begun(s))[n + 1] = f
    <3>1. Onward(Begun(s))[n + 1] = Advanced(o)
      BY <2>1, OnwardIs
    <3>2. o.how = "parsing"
      BY <1>6 DEF Twin
    <3> QED
      BY <3>1, <3>2 DEF Advanced
  <2>3. /\ o.s = s /\ o.stack = p.stack /\ o.toks = p.toks /\ o.body = p.body
        /\ o.l \in LexerStates
    BY <1>6 DEF Twin
  <2> DEFINE a == p.from.bracecnt
             b == p.from.parencnt
  <2>4. Twins(y, z, a, b) \/ Parted(y, z, o.l, a, b)
    BY <1>6, <2>3, TwinIs
  <2>5. z = yylex(o.l, o.s)
    OBVIOUS
  <2>6. f.how = how /\ (how = "compiled" => f.toks = Append(p.toks, y.tok))
    <3> HIDE DEF o, z
    <3>1. CASE Twins(y, z, a, b)
      <4>1. y.tok = z.tok /\ y.how = z.how
        BY <3>1 DEF Twins
      <4>2. rest = Reduced(Expected(o.stack, z.tok))
        BY <2>3, <4>1
      <4>3. Bad(p) = (Head(o.stack) = "close" /\ requote(o.body) \in Invalid)
        BY <2>3 DEF Bad
      <4> DEFINE r == StartsRegexpr(o.stack, z.tok)
      <4>4. r = StartsRegexpr(o.stack, z.tok)
        OBVIOUS
      <4> HIDE DEF r, rest
      <4>5. /\ z.how # "ok" => f.how = z.how
            /\ z.how = "ok" /\ ~Takes(o.stack, z.tok) => f.how = "syntax"
            /\ z.how = "ok" /\ Takes(o.stack, z.tok) /\ Bad(p) => f.how = "fatal"
            /\ z.how = "ok" /\ Takes(o.stack, z.tok) /\ ~Bad(p) =>
                  /\ f.how = IF rest = <<>> THEN "compiled" ELSE "parsing"
                  /\ f.toks = Append(o.toks, z.tok)
        BY <2>5, <4>2, <4>3, <4>4, FurtherIs
      <4> HIDE DEF f
      <4> QED
        BY <1>3, <2>3, <4>1, <4>5 DEF Outcome, rest
    <3>2. CASE Parted(y, z, o.l, a, b) /\ y.how = "ok"
      <4>1. /\ z.how = "syntax" /\ y.tok # EOT /\ y.tok # "/"
        BY <1>6, <2>3, <2>5, <3>2, PartedIs
      <4>2. f.how = "syntax"
        BY <2>5, <4>1, FurtherIs
      <4>3. Takes(p.stack, y.tok) => ~Bad(p) /\ rest # <<>>
        BY <1>2, <4>1, CloseIsPlain, ParserGoesOn DEF Bad
      <4>4. how = "syntax"
        BY <3>2, <4>3 DEF Outcome
      <4> QED
        BY <4>2, <4>4
    <3>3. CASE Parted(y, z, o.l, a, b) /\ y.how # "ok"
      <4>1. a < 0 \/ b < 0
        BY <3>3 DEF Parted
      <4>2. how = y.how /\ how # "compiled"
        BY <1>3, <3>3 DEF Outcome
      <4>3. a >= 0 /\ b >= 0
        BY <4>2 DEF Harmless
      <4>4. a \in Int /\ b \in Int
        BY <1>2, LexerStateIs
      <4> QED
        BY <4>1, <4>3, <4>4
    <3> QED
      BY <2>4, <3>1, <3>2, <3>3
  <2>7. Alone(s) = f
    <3> HIDE DEF f
    <3> QED
      BY <1>2, <1>4, <2>1, <2>2, <2>6, AloneIs
  <2> QED
    BY <2>6, <2>7
<1> QED
  BY <1>1, <1>5, <1>6 DEF Follows

\* A program that compiles ends with its last token, and closes all it opens.
LEMMA EndsEven ==
  ASSUME NEW p, NEW l, NEW s, Reading(p, l, s), NEW y, y = yylex(l, s),
         Outcome(p, y, "compiled"),
         NEW r \in BOOLEAN, r = StartsRegexpr(p.stack, y.tok), NEW m, m = Slashed(y.l, r)
  PROVE  /\ y.tok = EOT /\ ~r /\ y.how = "ok" /\ Takes(p.stack, y.tok)
         /\ ~p.from.sc /\ m = Drained(p.from)
         /\ \A k \in Pairs : Balanced(Append(p.toks, y.tok), k, Closer(k))
<1>0. Scanned(l, s) /\ Stacked(p.stack) /\ p.from \in LexerStates /\ ~p.from.reg
        /\ p.toks \in Seq(Symbols)
  BY DEF Reading
<1>1. /\ y.how = "ok" /\ Takes(p.stack, y.tok)
      /\ Reduced(Expected(p.stack, y.tok)) = <<>>
  <2>1. y.how \in {"ok", "syntax", "fatal"}
    BY <1>0, LexIs DEF Good
  <2> QED
    BY <2>1 DEF Outcome
<1>2. /\ ~p.from.sc /\ Scanned(y.l, y.s) /\ GoodToken(l, s, y)
  BY <1>1, TokenTaken DEF Good
<1>3. y.tok = EOT
  BY <1>0, <1>1, ParserGoesOn
<1>4. ~r
  BY <1>0, <1>1, <1>3, ParserEnds
<1>5. Met(p.stack, y.tok) = Len(p.stack)
  BY <1>0, <1>1, <1>3, EndOnStart
<1>6. \A k \in Pairs : Owed(p, l, k) = 0 /\ Number(p.toks, k) - Number(p.toks, Closer(k)) = 0
  <2> SUFFICES ASSUME NEW k \in Pairs
               PROVE  Owed(p, l, k) = 0 /\ Number(p.toks, k) - Number(p.toks, Closer(k)) = 0
    OBVIOUS
  <2>1. /\ Pays(k, p.stack, Owed(p, l, k), 0)
        /\ Number(p.toks, k) - Number(p.toks, Closer(k)) = Owed(p, l, k)
    BY <1>2 DEF Reading, Accounts
  <2>2. Owed(p, l, k) = 0
    BY <1>0, <1>5, <2>1, PaidOnStart
  <2> QED
    BY <2>1, <2>2
<1>7. \A k \in Pairs : Counter(y.l, k) = Counter(p.from, k)
  <2> SUFFICES ASSUME NEW k \in Pairs PROVE Counter(y.l, k) = Counter(p.from, k)
    OBVIOUS
  <2>1. Counter(y.l, k) = Counter(l, k) + Delta(k, EOT)
    BY <1>2, <1>3 DEF GoodToken
  <2>2. Counter(l, k) \in Int /\ Counter(p.from, k) \in Int
    BY <1>0, CounterTyped DEF Scanned
  <2>3. Counter(l, k) - Counter(p.from, k) = 0
    BY <1>6 DEF Owed
  <2> QED
    BY <2>1, <2>2, <2>3, PairDeltas
<1>8. y.l.yysbuf = <<>> /\ ~y.l.sc
  BY <1>2, <1>3 DEF GoodToken
<1>9. m = Drained(p.from)
  <2>1. y.l \in LexerStates
    BY <1>2 DEF Scanned
  <2>2. m = Lexing(y.l.sc, r, y.l.bracecnt, y.l.parencnt, y.l.yysbuf)
    BY <2>1, SlashedIs
  <2>3. Drained(p.from) = Lexing(p.from.sc, p.from.reg, p.from.bracecnt, p.from.parencnt, <<>>)
    BY <1>0, LexerStatesAre
  <2>4. /\ y.l.sc \in BOOLEAN /\ p.from.sc \in BOOLEAN /\ p.from.reg \in BOOLEAN
        /\ y.l.bracecnt \in Int /\ p.from.bracecnt \in Int
    BY <1>0, <2>1, LexerStateIs
  <2>5. y.l.sc = p.from.sc /\ r = p.from.reg
    BY <1>0, <1>2, <1>4, <1>8, <2>4
  <2>6. y.l.parencnt = p.from.parencnt
    BY <1>7, BracePair, CounterIs
  <2>7. y.l.bracecnt = p.from.bracecnt
    <3>1. Counter(y.l, OpenBrace) = y.l.bracecnt + Bit(y.l.sc)
      BY BracePair, CounterIs
    <3>2. Counter(p.from, OpenBrace) = p.from.bracecnt + Bit(p.from.sc)
      BY BracePair, CounterIs
    <3>3. Bit(y.l.sc) = 0 /\ Bit(p.from.sc) = 0
      BY <1>2, <1>8 DEF Bit
    <3> QED
      BY <1>7, <2>4, <3>1, <3>2, <3>3, BracePair
  <2> QED
    BY <1>8, <2>2, <2>3, <2>5, <2>6, <2>7
<1>10. \A k \in Pairs : Balanced(Append(p.toks, y.tok), k, Closer(k))
  <2> SUFFICES ASSUME NEW k \in Pairs PROVE Balanced(Append(p.toks, y.tok), k, Closer(k))
    OBVIOUS
  <2> DEFINE c == Closer(k)
  <2>1. EOT \in Symbols /\ 0 \in Int
    BY DEF Symbols
  <2>2. Number(Append(p.toks, EOT), k) - Number(Append(p.toks, EOT), Closer(k))
          = 0 + Delta(k, EOT)
    BY <1>0, <1>6, <2>1, NumbersAppend
  <2>3. Append(p.toks, EOT) \in Seq(Symbols)
    BY <1>0, <2>1, AppendProperties
  <2>4. Number(Append(p.toks, EOT), k) \in Nat /\ Number(Append(p.toks, EOT), c) \in Nat
    BY <2>3, NumberIs
  <2>5. Number(Append(p.toks, EOT), k) - Number(Append(p.toks, EOT), c) = 0
    BY <2>2, PairDeltas
  <2> HIDE DEF c
  <2>6. Number(Append(p.toks, EOT), k) = Number(Append(p.toks, EOT), c)
    BY <2>4, <2>5
  <2> QED
    BY <1>3, <2>6 DEF Balanced, c
<1> QED
  BY <1>1, <1>2, <1>3, <1>4, <1>9, <1>10

LEMMA ReadingEnds ==
  ASSUME NEW p, NEW l, NEW s, Reading(p, l, s), NEW y, y = yylex(l, s),
         NEW how, Outcome(p, y, how), NEW f,
         f # "none" => (s.kind = "files" /\ how \in {"syntax", "limit"}),
         NEW toks, toks = IF how = "compiled" THEN Append(p.toks, y.tok) ELSE p.toks,
         NEW r \in BOOLEAN, how = "compiled" => r = StartsRegexpr(p.stack, y.tok),
         NEW m, m = Slashed(y.l, r),
         NEW made, made = [how |-> how, toks |-> toks, from |-> p.from, of |-> s]
  PROVE  Said(made, m, f)
<1> SUFFICES ASSUME NEW c, c.how = how, c.toks = toks, c.from = p.from, c.of = s
             PROVE  Said(c, m, f)
  OBVIOUS
<1>1. c.how = how /\ c.toks = toks /\ c.from = p.from /\ c.of = s
  OBVIOUS
<1>2. ASSUME p.from.sc PROVE how = "syntax"
  BY <1>2, OwedRefused DEF Outcome
<1>3. ASSUME ~p.from.sc, p.from.yysbuf = <<>>, how # "limit",
             Harmless(p.from) \/ how = "compiled"
      PROVE  Same(c, Alone(c.of))
  <2>1. /\ Alone(s).how = how
        /\ how = "compiled" => Alone(s).toks = Append(p.toks, y.tok)
    BY <1>3, AloneEnds
  <2> QED
    BY <1>1, <2>1 DEF Same
<1>4. ASSUME how = "compiled"
      PROVE  /\ p.from.yysbuf = <<>> => Same(c, Alone(c.of))
             /\ p.from.yysbuf = <<EOT>> => toks = <<EOT>>
             /\ \A k \in Pairs : Balanced(toks, k, Closer(k))
             /\ m = Drained(p.from)
  <2>1. /\ y.tok = EOT /\ y.how = "ok" /\ Takes(p.stack, y.tok)
        /\ ~p.from.sc /\ m = Drained(p.from)
        /\ \A k \in Pairs : Balanced(Append(p.toks, y.tok), k, Closer(k))
    BY <1>4, EndsEven
  <2>2. p.from.yysbuf = <<EOT>> => p.toks = <<>>
    BY DEF Reading, Fresh
  <2>3. p.from.yysbuf = <<EOT>> => toks = <<EOT>>
    <3>1. Append(<<>>, EOT) = <<EOT>>
      OBVIOUS
    <3>2. toks = Append(p.toks, EOT)
      BY <1>4, <2>1
    <3> QED
      BY <2>2, <3>1, <3>2
  <2>4. p.from.yysbuf = <<>> => Same(c, Alone(c.of))
    BY <1>3, <1>4, <2>1
  <2> QED
    BY <1>4, <2>1, <2>3, <2>4
<1>5. Harmless(p.from) => p.from.yysbuf = <<>> /\ ~p.from.sc
  BY DEF Harmless
<1> QED
  BY <1>1, <1>2, <1>3, <1>4, <1>5 DEF Said
-----------------------------------------------------------------------------
(* The invariant of the compiler.                                          *)
\* CompileByText is about a compilation that has ended, so it is not inductive.
\* What makes it so is what holds while the parser is at work (Reading): its
\* stack closes what the tokens so far have opened (Accounts), one that began in
\* the middle of a } or with the 0 of another program has read nothing yet
\* (Fresh), and one that began clean goes step by step with the compilation of
\* its program alone, or that one has been refused where this one must be
\* (Follows).
CompileInv ==
  /\ source \in [Interp -> Sources]
  /\ \A i \in Interp : /\ source[i].at \in 1..Len(source[i].text) + 1
                       /\ status[i] \in {"none", "INIT"} => source[i].at = 1 /\ ~source[i].ended
  /\ lexer \in LexerStates /\ Len(lexer.yysbuf) <= 1
  /\ parsing.of = None => ~lexer.reg
  /\ parsing.of # None => /\ compiled = None /\ fault = "none"
                          /\ Reading(parsing, lexer, source[parsing.of])
  /\ compiled # None => Said(compiled, lexer, fault)

Moved(p, stack, toks, body) == [p EXCEPT !.stack = stack, !.toks = toks, !.body = body]

LEMMA MovedIs ==
  ASSUME NEW i, NEW u, NEW t, NEW w, NEW from, NEW stack, NEW toks, NEW body
  PROVE  Moved(Compiling(i, u, t, w, from), stack, toks, body)
           = Compiling(i, stack, toks, body, from)
<1>1. Moved(Compiling(i, u, t, w, from), stack, toks, body)
        = [[[Compiling(i, u, t, w, from) EXCEPT !.stack = stack] EXCEPT !.toks = toks]
             EXCEPT !.body = body]
  BY Zenon DEF Moved
<1>2. [Compiling(i, u, t, w, from) EXCEPT !.stack = stack] = Compiling(i, stack, t, w, from)
  BY DEF Compiling
<1>3. [Compiling(i, stack, t, w, from) EXCEPT !.toks = toks]
        = Compiling(i, stack, toks, w, from)
  BY DEF Compiling
<1>4. [Compiling(i, stack, toks, w, from) EXCEPT !.body = body]
        = Compiling(i, stack, toks, body, from)
  BY DEF Compiling
<1> QED
  BY <1>1, <1>2, <1>3, <1>4, Zenon

LEMMA StartsBoolean == \A s, tok : StartsRegexpr(s, tok) \in BOOLEAN
BY DEF StartsRegexpr

\* How a step of the parser ends the compilation, or goes on with it.
Ended(i, y) ==
  \E how : /\ Outcome(parsing, y, how)
           /\ parsing' = NotParsing
           /\ compiled' = [how |-> how, from |-> parsing.from, of |-> source[i],
                           toks |-> IF how = "compiled" THEN Append(parsing.toks, y.tok)
                                    ELSE parsing.toks]
           /\ fault' # "none" => source[i].kind = "files" /\ how \in {"syntax", "limit"}
           /\ ~lexer'.reg

Continued(y) ==
  /\ y.how = "ok" /\ Takes(parsing.stack, y.tok) /\ ~Bad(parsing)
  /\ Reduced(Expected(parsing.stack, y.tok)) # <<>>
  /\ parsing' = Compiling(parsing.of, Reduced(Expected(parsing.stack, y.tok)),
                          Append(parsing.toks, y.tok), y.body, parsing.from)
  /\ lexer' = Slashed(y.l, StartsRegexpr(parsing.stack, y.tok))
  /\ UNCHANGED <<compiled, fault>>

\* What lexer' is: startreg in the action of the parser for the slash.
Reg(y) == Taken(y) /\ ~Limited(y) /\ StartsRegexpr(parsing.stack, y.tok)

LEMMA TokenIs ==
  ASSUME CompileInv, RangeInv, NEW i \in Interp, yyparse(i), NEW y, y = yylex(lexer, source[i])
  PROVE  /\ parsing.of = i /\ compiled = None /\ fault = "none"
         /\ Reading(parsing, lexer, source[i]) /\ Good(lexer, source[i], y)
         /\ source' = [source EXCEPT ![i] = y.s]
         /\ Reg(y) \in BOOLEAN /\ lexer' = Slashed(y.l, Reg(y))
         /\ Ended(i, y) \/ Continued(y)
<1>1. parsing.of = i /\ i # None /\ compiled = None /\ fault = "none"
  BY ProgramsAssumption DEF CompileInv, yyparse
<1>2. Reading(parsing, lexer, source[i])
  BY <1>1 DEF CompileInv
<1>3. Good(lexer, source[i], y)
  BY <1>2, LexIs DEF Reading
<1>4. /\ source' = [source EXCEPT ![i] = y.s]
      /\ lexer' = [y.l EXCEPT !.reg = Reg(y)]
      /\ \/ LexerThrows(i, y) \/ Refuses(i, y) \/ TableFull(i, y) \/ MakedfaThrows(i, y)
         \/ Shifts(i, y)
  BY Zenon DEF yyparse, Reg
<1>5. Reg(y) \in BOOLEAN
  BY DEF Reg
<1>6. lexer' = Slashed(y.l, Reg(y))
  BY <1>4, Zenon DEF Slashed
<1>7. y.l \in LexerStates /\ y.s.kind = source[i].kind /\ y.how \in {"ok", "syntax", "fatal"}
  BY <1>3 DEF Good, Scanned, Kept
<1>8. lexer'.reg = Reg(y)
  BY <1>5, <1>6, <1>7, SlashedIs
<1>9. Stacked(parsing.stack)
        /\ parsing = Compiling(parsing.of, parsing.stack, parsing.toks, parsing.body, parsing.from)
  BY <1>2 DEF Reading
<1>10. ASSUME NEW how, Outcome(parsing, y, how), Throws(i, y, how),
              how \in {"syntax", "fatal", "limit"},
              ~Reg(y)
       PROVE  Ended(i, y)
  <2>1. /\ parsing' = NotParsing
        /\ compiled' = [how |-> how, toks |-> parsing.toks, from |-> parsing.from, of |-> source[i]]
        /\ fault' = IF how # "fatal" /\ y.s.kind = "files" /\ y.s.ended THEN "source" ELSE fault
    BY <1>10 DEF Throws, Ends
  <2>2. fault' # "none" => source[i].kind = "files" /\ how \in {"syntax", "limit"}
    BY <1>1, <1>7, <1>10, <2>1
  <2>3. how # "compiled"
    BY <1>10
  <2> QED
    BY <1>8, <1>10, <2>1, <2>2, <2>3 DEF Ended
<1> SUFFICES Ended(i, y) \/ Continued(y)
  BY <1>1, <1>2, <1>3, <1>4, <1>5, <1>6
<1>11. CASE LexerThrows(i, y)
  <2>1. Outcome(parsing, y, y.how) /\ Throws(i, y, y.how) /\ y.how # "ok"
    BY <1>11 DEF LexerThrows, Outcome
  <2>2. ~Reg(y)
    BY <2>1 DEF Reg, Taken
  <2> QED
    BY <1>7, <1>10, <2>1, <2>2
<1>12. CASE Refuses(i, y)
  <2>1. Outcome(parsing, y, "syntax") /\ Throws(i, y, "syntax") /\ ~Taken(y)
    BY <1>12 DEF Refuses, Taken, Outcome
  <2>2. ~Reg(y)
    BY <2>1 DEF Reg
  <2> QED
    BY <1>10, <2>1, <2>2
<1>13. CASE TableFull(i, y)
  <2>1. Outcome(parsing, y, "limit") /\ Throws(i, y, "limit") /\ Limited(y)
    BY <1>13 DEF TableFull, Limited, Taken, Outcome
  <2>2. ~Reg(y)
    BY <2>1 DEF Reg
  <2> QED
    BY <1>10, <2>1, <2>2
<1>14. CASE MakedfaThrows(i, y)
  <2>1. /\ Outcome(parsing, y, "fatal") /\ Throws(i, y, "fatal")
        /\ Takes(parsing.stack, y.tok) /\ Head(parsing.stack) = "close"
    BY <1>14 DEF MakedfaThrows, BadConstant, Bad, Taken, Outcome
  <2>2. ~Reg(y)
    BY <1>9, <2>1, CloseIsPlain DEF Reg
  <2> QED
    BY <1>10, <2>1, <2>2
<1>15. CASE Shifts(i, y)
  <2> DEFINE rest == Reduced(Expected(parsing.stack, y.tok))
             toks == Append(parsing.toks, y.tok)
  <2>1. /\ y.how = "ok" /\ Takes(parsing.stack, y.tok) /\ Taken(y) /\ ~Bad(parsing)
        /\ fault' = fault
    BY <1>15 DEF Shifts, Taken, BadConstant, Bad
  <2>2. IF Ranged(y) THEN paircnt < PA2NUM ELSE TRUE
    BY <1>15 DEF Shifts, pa2stat
  <2>3. IF rest = <<>>
           THEN Ends(i, "compiled", toks)
           ELSE /\ parsing' = [parsing EXCEPT !.stack = rest, !.toks = toks, !.body = y.body]
                /\ UNCHANGED <<status, compiled>>
    BY <1>15 DEF Shifts
  <2>4. ~Limited(y)
    <3>1. paircnt \in Nat /\ PA2NUM \in Nat
      BY ProgramsAssumption DEF RangeInv
    <3> QED
      BY <2>2, <3>1 DEF Limited
  <2>5. Reg(y) = StartsRegexpr(parsing.stack, y.tok)
    BY <2>1, <2>4, StartsBoolean DEF Reg
  <2>6. CASE rest = <<>>
    <3>1. Outcome(parsing, y, "compiled")
      BY <2>1, <2>6 DEF Outcome
    <3>2. /\ parsing' = NotParsing
          /\ compiled' = [how |-> "compiled", toks |-> toks, from |-> parsing.from, of |-> source[i]]
      BY <2>3, <2>6 DEF Ends
    <3>3. ~Reg(y)
      BY <1>2, <1>5, <2>5, <3>1, EndsEven
    <3> QED
      BY <1>1, <1>8, <2>1, <3>1, <3>2, <3>3 DEF Ended
  <2>7. CASE rest # <<>>
    <3>1. parsing' = Compiling(parsing.of, rest, toks, y.body, parsing.from)
            /\ compiled' = compiled
      <4>1. parsing' = Moved(parsing, rest, toks, y.body) /\ compiled' = compiled
        BY <2>3, <2>7, Zenon DEF Moved
      <4> HIDE DEF rest, toks
      <4>2. Moved(Compiling(parsing.of, parsing.stack, parsing.toks, parsing.body, parsing.from),
                  rest, toks, y.body)
              = Compiling(parsing.of, rest, toks, y.body, parsing.from)
        BY MovedIs
      <4> QED
        BY <1>9, <4>1, <4>2
    <3> QED
      BY <1>6, <2>1, <2>5, <2>7, <3>1 DEF Continued
  <2> QED
    BY <2>6, <2>7
<1> QED
  BY <1>4, <1>11, <1>12, <1>13, <1>14, <1>15
-----------------------------------------------------------------------------
(* The invariant is kept by every action.                                  *)
LEMMA TokenKeepsCompile ==
  ASSUME CompileInv, RangeInv, NEW i \in Interp, yyparse(i)
  PROVE  CompileInv'
<1> DEFINE y == yylex(lexer, source[i])
<1>1. /\ parsing.of = i /\ compiled = None /\ fault = "none"
      /\ Reading(parsing, lexer, source[i]) /\ Good(lexer, source[i], y)
      /\ source' = [source EXCEPT ![i] = y.s]
      /\ Reg(y) \in BOOLEAN /\ lexer' = Slashed(y.l, Reg(y))
      /\ Ended(i, y) \/ Continued(y)
  BY TokenIs
<1>2. i # None /\ None \notin Interp
  BY ProgramsAssumption
<1>3. status[i] = "COMPILING" /\ (Thrown(i) \/ Shifted(i))
  BY TokenStep
<1> HIDE DEF y
<1>4. /\ y.l \in LexerStates /\ Len(y.l.yysbuf) <= 1 /\ y.s \in Sources
      /\ y.s.at \in 1..Len(y.s.text) + 1
  BY <1>1 DEF Good, Scanned
<1>5. lexer' \in LexerStates /\ Len(lexer'.yysbuf) <= 1 /\ lexer'.reg = Reg(y)
  BY <1>1, <1>4, SlashedIs
<1>6. source' \in [Interp -> Sources] /\ source'[i] = y.s
      /\ \A j \in Interp : j # i => source'[j] = source[j]
  BY <1>1, <1>4 DEF CompileInv
<1>7. status'[i] \notin {"none", "INIT"} /\ \A j \in Interp : j # i => status'[j] = status[j]
  BY <1>3 DEF Thrown, Shifted, Goes, RangeInv, Statuses
<1>8. \A j \in Interp : /\ source'[j].at \in 1..Len(source'[j].text) + 1
                        /\ status'[j] \in {"none", "INIT"} => source'[j].at = 1
                             /\ ~source'[j].ended
  BY <1>4, <1>6, <1>7 DEF CompileInv
<1>9. CASE Ended(i, y)
  <2>1. PICK how : /\ Outcome(parsing, y, how)
                   /\ parsing' = NotParsing
                   /\ compiled' = [how |-> how, from |-> parsing.from, of |-> source[i],
                                   toks |-> IF how = "compiled" THEN Append(parsing.toks, y.tok)
                                            ELSE parsing.toks]
                   /\ fault' # "none" => source[i].kind = "files" /\ how \in {"syntax", "limit"}
                   /\ ~lexer'.reg
    BY <1>9 DEF Ended
  <2>2. parsing'.of = None
    BY <2>1 DEF NotParsing
  <2>3. Said(compiled', lexer', fault')
    <3> DEFINE r == Reg(y)
               toks == IF how = "compiled" THEN Append(parsing.toks, y.tok) ELSE parsing.toks
    <3>1. how = "compiled" => r = StartsRegexpr(parsing.stack, y.tok)
      <4> SUFFICES ASSUME how = "compiled" PROVE r = StartsRegexpr(parsing.stack, y.tok)
        OBVIOUS
      <4>1. ~StartsRegexpr(parsing.stack, y.tok)
        BY <1>1, <2>1, StartsBoolean, EndsEven DEF y
      <4> QED
        BY <1>1, <1>5, <2>1, <4>1, StartsBoolean
    <3> HIDE DEF r
    <3>2. r \in BOOLEAN /\ lexer' = Slashed(y.l, r)
      BY <1>1 DEF r
    <3>3. y = yylex(lexer, source[i])
      BY DEF y
    <3> QED
      BY <1>1, <2>1, <3>1, <3>2, <3>3, ReadingEnds
  <2> QED
    BY <1>5, <1>6, <1>8, <2>1, <2>2, <2>3 DEF CompileInv
<1>10. CASE Continued(y)
  <2> DEFINE r == StartsRegexpr(parsing.stack, y.tok)
             rest == Reduced(Expected(parsing.stack, y.tok))
             q == Compiling(parsing.of, rest, Append(parsing.toks, y.tok), y.body, parsing.from)
  <2>1. /\ y.how = "ok" /\ Takes(parsing.stack, y.tok) /\ ~Bad(parsing) /\ rest # <<>>
        /\ parsing' = q /\ lexer' = Slashed(y.l, r) /\ UNCHANGED <<compiled, fault>>
    BY <1>10 DEF Continued
  <2>2. q.of = i
    BY <1>1, CompilingIs
  <2>3. r \in BOOLEAN
    BY StartsBoolean
  <2>4. y = yylex(lexer, source[i])
    BY DEF y
  <2>5. Reading(q, Slashed(y.l, r), y.s)
    BY <1>1, <2>1, <2>3, <2>4, ReadingGoesOn
  <2> HIDE DEF q, r
  <2> QED
    BY <1>1, <1>2, <1>5, <1>6, <1>8, <2>1, <2>2, <2>5 DEF CompileInv
<1> QED
  BY <1>1, <1>9, <1>10

\* A new compilation.
LEMMA StartKeepsCompile ==
  ASSUME CompileInv, RangeInv, NEW i \in Interp, awk_compile(i)
  PROVE  CompileInv'
<1>1. /\ parsing.of = None /\ fault = "none" /\ status[i] = "INIT"
      /\ status' = [status EXCEPT ![i] = "COMPILING"]
      /\ parsing' = [NotParsing EXCEPT !.of = i, !.stack = <<"pas">>, !.from = lexer]
      /\ compiled' = None /\ UNCHANGED <<source, lexer, fault>>
  BY DEF awk_compile, Unlocked
<1>2. parsing' = Compiling(i, <<"pas">>, <<>>, <<>>, lexer)
  BY <1>1 DEF NotParsing, Compiling
<1>3. parsing'.of = i
  BY <1>2, CompilingIs
<1>4. /\ source \in [Interp -> Sources] /\ source[i].at = 1 /\ ~source[i].ended
      /\ source[i].at \in 1..Len(source[i].text) + 1
      /\ lexer \in LexerStates /\ Len(lexer.yysbuf) <= 1 /\ ~lexer.reg
  BY <1>1 DEF CompileInv
<1>5. Scanned(lexer, source[i])
  BY <1>4 DEF Scanned
<1>6. Reading(parsing', lexer, source[i])
  BY <1>2, <1>4, <1>5, ReadingBegins
<1>7. \A j \in Interp : status'[j] \in {"none", "INIT"} => status[j] \in {"none", "INIT"}
  BY <1>1 DEF RangeInv
<1> QED
  BY <1>1, <1>3, <1>4, <1>6, <1>7, ProgramsAssumption DEF CompileInv

Titled(kind, text, nprog, at, ended) ==
  [kind |-> kind, text |-> text, nprog |-> nprog, at |-> at, ended |-> ended]

LEMMA TitledIs ==
  ASSUME NEW k, NEW t, NEW n, NEW a, NEW e, NEW h, NEW u
  PROVE  /\ [Titled(k, t, n, a, e) EXCEPT !.kind = h] = Titled(h, t, n, a, e)
         /\ [Titled(k, t, n, a, e) EXCEPT !.text = u] = Titled(k, u, n, a, e)
         /\ Titled(k, t, n, a, e).at = a /\ Titled(k, t, n, a, e).ended = e
         /\ Titled(k, t, n, a, e).text = t
BY DEF Titled

\* The calls that set a program up or drop it.
LEMMA SetUpKeepsCompile ==
  ASSUME CompileInv, RangeInv, CacheInv, NEW i \in Interp,
         awk_init(i) \/ awk_setprog(i) \/ awk_addprogfile(i) \/ awk_end(i)
  PROVE  CompileInv'
<1>1. /\ parsing.of = None /\ fault = "none"
      /\ parsing' = parsing /\ lexer' = lexer /\ fault' = fault
      /\ compiled' = compiled \/ compiled' = None
  BY DEF awk_init, awk_setprog, awk_addprogfile, awk_end, Unlocked, compiler
<1>2. source \in [Interp -> Sources] /\ status \in [Interp -> Statuses]
  BY DEF CompileInv, RangeInv
<1>3. \A t \in host.texts \cup host.files : t \in Seq(STRING)
  BY ProgramsAssumption DEF CacheInv
<1>4. /\ source' \in [Interp -> Sources]
      /\ \A j \in Interp : j # i => source'[j] = source[j] /\ status'[j] = status[j]
      /\ source'[i].at \in 1..Len(source'[i].text) + 1
      /\ status'[i] \in {"none", "INIT"} => source'[i].at = 1 /\ ~source'[i].ended
  <2>1. CASE awk_init(i)
    BY <1>2, <2>1 DEF awk_init, CompileInv
  <2>2. CASE awk_setprog(i)
    <3>1. /\ status' = status
          /\ \E t \in host.texts :
               source' = [source EXCEPT ![i] = [NoSource EXCEPT !.kind = "string", !.text = t]]
      BY <2>2 DEF awk_setprog
    <3>2. PICK t \in host.texts :
               source' = [source EXCEPT ![i] = [NoSource EXCEPT !.kind = "string", !.text = t]]
      BY <3>1
    <3>3. t \in Seq(STRING) /\ Len(t) \in Nat
      BY <1>3, LenProperties
    <3> DEFINE e == [NoSource EXCEPT !.kind = "string", !.text = t]
    <3>4. e = Titled("string", t, 0, 1, No)
      <4>1. e = [[NoSource EXCEPT !.kind = "string"] EXCEPT !.text = t]
        BY Zenon
      <4>2. NoSource = Titled("none", <<>>, 0, 1, No)
        BY Zenon DEF NoSource, Titled, No
      <4> HIDE DEF e
      <4>3. [Titled("none", <<>>, 0, 1, No) EXCEPT !.kind = "string"]
              = Titled("string", <<>>, 0, 1, No)
        BY TitledIs
      <4>4. [Titled("string", <<>>, 0, 1, No) EXCEPT !.text = t] = Titled("string", t, 0, 1, No)
        BY TitledIs
      <4> QED
        BY <4>1, <4>2, <4>3, <4>4, Zenon
    <3> HIDE DEF e
    <3>5. e \in Sources /\ e.at = 1 /\ ~e.ended /\ e.text = t
      <4>1. e.at = 1 /\ e.ended = No /\ e.text = t
        BY <3>4, TitledIs
      <4>2. Titled("string", t, 0, 1, No) \in Sources
        BY <3>3, YesAndNo DEF Titled, Sources
      <4> QED
        BY <3>4, <4>1, <4>2, YesAndNo
    <3>6. source' = [source EXCEPT ![i] = e]
      BY <3>2 DEF e
    <3>7. source' \in [Interp -> Sources] /\ source'[i] = e
            /\ \A j \in Interp : j # i => source'[j] = source[j]
      BY <1>2, <3>5, <3>6
    <3>8. source'[i].at = 1 /\ ~source'[i].ended /\ source'[i].text = t /\ 1 \in 1..Len(t) + 1
      BY <3>3, <3>5, <3>7
    <3>9. status' = status
      BY <3>1
    <3> HIDE <3>1, <3>2
    <3> QED
      BY <3>7, <3>8, <3>9, Zenon
  <2>3. CASE awk_addprogfile(i)
    <3>1. /\ status' = status /\ status[i] = "INIT"
          /\ \E t \in host.files :
               source' = [source EXCEPT ![i].kind = "files", ![i].text = @ \o t, ![i].nprog = @ + 1]
      BY <2>3 DEF awk_addprogfile
    <3>2. PICK t \in host.files :
               source' = [source EXCEPT ![i].kind = "files", ![i].text = @ \o t, ![i].nprog = @ + 1]
      BY <3>1
    <3>3. t \in Seq(STRING) /\ source[i] \in Sources
      BY <1>2, <1>3
    <3> DEFINE s == source[i]
    <3>4. /\ s.text \in Seq(STRING) /\ s.text \o t \in Seq(STRING) /\ Len(s.text \o t) \in Nat
          /\ s.nprog + 1 \in Nat
      BY <3>3, ConcatProperties, LenProperties DEF Sources
    <3>5. s.at = 1 /\ ~s.ended
      BY <3>1 DEF CompileInv
    <3>6. /\ source' \in [Interp -> Sources]
               /\ \A j \in Interp : j # i => source'[j] = source[j]
          /\ source'[i].at = s.at /\ source'[i].ended = s.ended /\ source'[i].text = s.text \o t
      BY <1>2, <3>2, <3>4 DEF Sources
    <3> HIDE DEF s
    <3> QED
      BY <3>1, <3>4, <3>5, <3>6
  <2>4. CASE awk_end(i)
    <3>1. source' = [source EXCEPT ![i] = NoSource] /\ status' = [status EXCEPT ![i] = "none"]
      BY <2>4 DEF awk_end
    <3>2. NoSource \in Sources /\ NoSource.at = 1 /\ ~NoSource.ended /\ Len(NoSource.text) = 0
      BY DEF NoSource, Sources
    <3> HIDE DEF NoSource
    <3> QED
      BY <1>2, <3>1, <3>2
  <2> QED
    BY <2>1, <2>2, <2>3, <2>4
<1>5. /\ lexer \in LexerStates /\ Len(lexer.yysbuf) <= 1 /\ ~lexer.reg
      /\ compiled # None => Said(compiled, lexer, fault)
      /\ \A j \in Interp : /\ source[j].at \in 1..Len(source[j].text) + 1
                           /\ status[j] \in {"none", "INIT"} => source[j].at = 1
                                /\ ~source[j].ended
  BY <1>1 DEF CompileInv
<1>6. \A j \in Interp : /\ source'[j].at \in 1..Len(source'[j].text) + 1
                        /\ status'[j] \in {"none", "INIT"} => source'[j].at = 1
                             /\ ~source'[j].ended
  <2> SUFFICES ASSUME NEW j \in Interp
               PROVE  /\ source'[j].at \in 1..Len(source'[j].text) + 1
                      /\ status'[j] \in {"none", "INIT"} => source'[j].at = 1
                           /\ ~source'[j].ended
    OBVIOUS
  <2>1. CASE j = i
    BY <1>4, <2>1
  <2>2. CASE j # i
    BY <1>4, <1>5, <2>2
  <2> QED
    BY <2>1, <2>2
<1> QED
  BY <1>1, <1>4, <1>5, <1>6 DEF CompileInv

\* A run: the compiler is at rest.
LEMMA RunKeepsCompile ==
  ASSUME CompileInv, RangeInv, NEW i \in Interp,
         awk_exec(i) \/ dopa2(i) \/ makedfa(i) \/ Returns(i)
  PROVE  CompileInv'
<1>1. /\ source' = source /\ parsing' = parsing /\ lexer' = lexer /\ fault' = fault
      /\ compiled' = compiled \/ compiled' = None
  BY DEF awk_exec, dopa2, makedfa, Returns, compiler
<1>2. \A j \in Interp : status'[j] = status[j] \/ status'[j] \notin {"none", "INIT"}
  <2>1. \/ status' = status
        \/ \E s \in {"RUN", "COMPILED", "DONE"} : status' = [status EXCEPT ![i] = s]
    BY DEF awk_exec, dopa2, makedfa, Hit, Miss, Unusable, Returns, Stops
  <2> QED
    BY <2>1 DEF RangeInv
<1> QED
  BY <1>1, <1>2 DEF CompileInv

LEMMA CompileStep == CompileInv /\ RangeInv /\ CacheInv /\ [Next]_vars => CompileInv'
<1> SUFFICES ASSUME CompileInv, RangeInv, CacheInv, [Next]_vars PROVE CompileInv'
  OBVIOUS
<1>1. CASE Next
  <2>1. PICK i \in Interp :
          \/ awk_init(i) \/ awk_setprog(i) \/ awk_addprogfile(i) \/ awk_end(i)
          \/ awk_compile(i) \/ yyparse(i)
          \/ awk_exec(i) \/ dopa2(i) \/ makedfa(i) \/ Returns(i)
    BY <1>1 DEF Next
  <2> QED
    BY <2>1, TokenKeepsCompile, StartKeepsCompile, SetUpKeepsCompile, RunKeepsCompile
<1>2. CASE UNCHANGED vars
  BY <1>2 DEF vars, compiler, CompileInv
<1> QED
  BY <1>1, <1>2

LEMMA SaidIs == CompileInv => CompileByText
<1> SUFFICES ASSUME CompileInv, compiled # None
             PROVE  LET c == compiled
                        o == Alone(c.of)
                    IN  /\ Harmless(c.from) /\ c.how # "limit" => Same(c, o)
                        /\ c.from.sc => c.how = "syntax"
                        /\ fault # "none" => c.of.kind = "files"
                             /\ c.how \in {"syntax", "limit"}
                        /\ c.how = "compiled" =>
                             /\ c.from.yysbuf = <<>> => Same(c, o)
                             /\ c.from.yysbuf = <<EOT>> => c.toks = <<EOT>>
                             /\ Balanced(c.toks, "{", "}") /\ Balanced(c.toks, "(", ")")
                             /\ lexer = [c.from EXCEPT !.yysbuf = <<>>]
  BY Zenon DEF CompileByText
<1>1. Said(compiled, lexer, fault)
  BY DEF CompileInv
<1>2. ASSUME \A k \in Pairs : Balanced(compiled.toks, k, Closer(k))
      PROVE  Balanced(compiled.toks, "{", "}") /\ Balanced(compiled.toks, "(", ")")
  <2>1. "{" \in Pairs /\ "(" \in Pairs /\ Closer("{") = "}" /\ Closer("(") = ")"
    BY Zenon DEF Pairs, Closer
  <2>2. Balanced(compiled.toks, "{", Closer("{")) /\ Balanced(compiled.toks, "(", Closer("("))
    BY <1>2, <2>1, Zenon
  <2> QED
    BY <2>1, <2>2, Zenon
<1> QED
  BY <1>1, <1>2, Zenon DEF Said, Drained

LEMMA CompileStarts == Init => CompileInv
<1>1. CleanLexer \in LexerStates /\ Len(CleanLexer.yysbuf) = 0 /\ ~CleanLexer.reg
  <2>1. CleanLexer = Lexing(No, No, 0, 0, <<>>)
    BY Zenon DEF CleanLexer, Lexing, No
  <2>2. CleanLexer \in LexerStates
    <3>1. 0 \in Int /\ <<>> \in Seq(Read) /\ No \in BOOLEAN
      BY YesAndNo
    <3> QED
      BY <2>1, <3>1, LexingTyped
  <2>3. CleanLexer.yysbuf = <<>> /\ CleanLexer.reg = No
    BY <2>1, LexingIs
  <2> QED
    BY <2>2, <2>3, YesAndNo
<1>2. NoSource \in Sources /\ NoSource.at = 1 /\ ~NoSource.ended /\ Len(NoSource.text) = 0
  BY DEF NoSource, Sources
<1>3. NotParsing.of = None
  BY DEF NotParsing
<1> HIDE DEF NoSource, NotParsing, CleanLexer
<1> SUFFICES ASSUME Init PROVE CompileInv
  OBVIOUS
<1>4. /\ source = [i \in Interp |-> NoSource] /\ lexer = CleanLexer /\ parsing = NotParsing
      /\ compiled = None
  BY DEF Init
<1> QED
  BY <1>1, <1>2, <1>3, <1>4 DEF CompileInv

\* What a compilation makes of a program is decided by its text and by what the
\* lexer was left with, for any interpreters, any programs of any length and any
\* order of calls: from a lexer whose left-over state is harmless it ends as it
\* would have on its own, unless the table of ranges is full; from an owed } it
\* ends in a syntax error; a program that compiles closes every brace and
\* parenthesis it opens and leaves the counters as it found them.
THEOREM CompilesByText == Spec => []CompileByText
BY CacheStarts, CacheStep, RangesStart, RangeStep, CompileStarts, CompileStep, SaidIs,
   PTL DEF Spec
=============================================================================
