----------------------------- MODULE RecordText -----------------------------
(***************************************************************************)
(* Records and fields as values.  A text is a sequence of atoms: an atom   *)
(* is a word or a separator character, and nothing here looks inside a     *)
(* word.  SplitBy is what Interpreter::fldbld makes of $0 for each kind of *)
(* FS, JoinBy what Interpreter::recbld makes of $1..$NF.  FieldScan checks *)
(* SplitBy against the scanning loops of the code.                         *)
(***************************************************************************)
EXTENDS Sequences, Integers, FiniteSets, SequencesExt

Blank  == <<" ">>
Blanks == {" ", "\t", "\n"}

\* The element of A, a set of numbers, that has i smaller ones.
Nth(A, i) == CHOOSE p \in A : Cardinality({q \in A : q < p}) = i

(***************************************************************************)
(* The pieces of t between the atoms that belong to seps, with the empty   *)
(* pieces; always one piece more than there are separators.                *)
(***************************************************************************)
Cuts(t, seps) == {0, Len(t) + 1} \cup {p \in 1..Len(t) : t[p] \in seps}

Pieces(t, seps) ==
  LET at == Cuts(t, seps)
  IN  [i \in 1..(Cardinality(at) - 1) |-> SubSeq(t, Nth(at, i - 1) + 1, Nth(at, i) - 1)]

\* The elements of a sequence that are not empty.
NonEmpty(s) ==
  LET at == {i \in DOMAIN s : s[i] # <<>>}
  IN  [i \in 1..Cardinality(at) |-> s[Nth(at, i - 1)]]

(***************************************************************************)
(* FS is a regular expression when it is longer than one character.  The   *)
(* expressions modelled are character classes: <<",", ";">> stands for     *)
(* "[,;]".                                                                 *)
(***************************************************************************)
IsRegexFS(fs) == Len(fs) > 1

SplitBy(t, fs) ==
  CASE t = <<>>               -> <<>>
    [] t # <<>> /\ IsRegexFS(fs) -> Pieces(t, ToSet(fs))
    [] t # <<>> /\ fs = Blank -> NonEmpty(Pieces(t, Blanks))
    [] t # <<>> /\ fs = <<>>  -> [i \in 1..Len(t) |-> <<t[i]>>]
    [] OTHER                  -> Pieces(t, ToSet(fs))

JoinBy(fields, ofs) ==
  FlattenSeq([i \in 1..Len(fields) |->
                IF i < Len(fields) THEN fields[i] \o ofs ELSE fields[i]])
=============================================================================
