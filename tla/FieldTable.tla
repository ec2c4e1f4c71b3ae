----------------------------- MODULE FieldTable -----------------------------
(***************************************************************************)
(* The table of the fields of a record: fldtab[1..], as a sequence of      *)
(* texts (fldtab.size() is its length plus one).  growfldtab at least      *)
(* doubles the table, up to the cell asked for; the new cells are empty.   *)
(***************************************************************************)
EXTENDS Integers, Sequences, FiniteSets

CONSTANT DEFAULT_FLD   \* number of fields before the first record, 2 in the code

ASSUME FieldTableAssumption == DEFAULT_FLD \in Nat \ {0}

Max2(a, b) == IF a >= b THEN a ELSE b

\* (Mutant) New cells keep what the memory held.
ExtendRaw(f, n) == [i \in 1..n |-> IF i <= Len(f) THEN f[i] ELSE <<"?">>]

Extend(f, n) == [i \in 1..n |-> IF i <= Len(f) THEN f[i] ELSE <<>>]

growfldtab(f, n) == IF n <= Len(f) THEN f
                    ELSE Extend(f, Max2(2 * (Len(f) + 1), n))

\* (Mutant) The loop stores field after field without growing the table.
TableAfterNoGrow(len, k) == len

\* The lengths of the table as it grows a cell at a time.
Sizes(len) == LET size[j \in Nat] == IF j = 0 THEN len ELSE 2 * (size[j - 1] + 1)
              IN  size

\* Length of the table once fields 1..k have been stored one after another,
\* each growing the table when it has no cell: len doubles to 2 * (len + 1)
\* until it reaches k, and the last doubling leaves cells past k.
TableAfter(len, k) ==
  LET size == Sizes(len)
  IN  IF k <= len THEN len
      ELSE k + Cardinality({i \in k + 1 .. 2 * k :
                              \A j \in 1..k : size[j] >= k => i <= size[j]})

\* (Mutant) Cell a is left as it was.
cleanfldOffByOne(f, a, b) == [i \in DOMAIN f |-> IF a < i /\ i <= b THEN <<>> ELSE f[i]]

\* The same table with cells a..b cleared.
cleanfld(f, a, b) == [i \in DOMAIN f |-> IF a <= i /\ i <= b THEN <<>> ELSE f[i]]
=============================================================================
