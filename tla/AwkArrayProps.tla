--------------------------- MODULE AwkArrayProps ----------------------------
(***************************************************************************)
(* What the hash table owes the program that uses the array.               *)
(***************************************************************************)
EXTENDS AwkArray

\* Type invariant: every stored key has a bucket of the table, and a rank that
\* no other key has.
TypeOK ==
  /\ sz \in Nat \ {0} /\ nelem \in Nat
  /\ keys \subseteq Key /\ IsFiniteSet(keys)
  /\ bucket \in [keys -> 0..sz - 1]
  /\ rank \in [keys -> Nat]
  /\ \A k, l \in keys : k # l => rank[k] # rank[l]
  /\ loop \in [on : BOOLEAN, ipos : Nat, ptr : Key \cup {NIL}, gone : BOOLEAN]
  /\ seen \subseteq Key /\ again \in BOOLEAN /\ kept \subseteq Key /\ grew \in BOOLEAN
  /\ fault \in {"none", "dangling", "count"}
  /\ out \in {"none", "refer", "in", "delete", "clear", "visit", "end"}
               \X (Key \cup {NIL}) \X BOOLEAN

\* The table is never freed with a wrong count ("inconsistent element count
\* freeing array", thrown from a destructor, ends the process): not after any
\* sequence of insertions, deletions and rehashes, with or without memory.
CountRight == fault # "count"

\* The array is a set of subscripts: what was put in is found until it is
\* deleted, across every rehash, nothing else is, and a loop names only
\* subscripts that are there when it does.
View == INSTANCE KeySet
ImplementsKeySet == View!Spec

\* A loop that comes to its end has visited every element that was there all
\* the time, and none twice, whatever its body inserted and deleted, unless
\* an insertion rehashed the table under the iterator.
VisitsAll ==
  /\ out[1] = "end" /\ ~grew => kept \subseteq seen
  /\ again => grew

\* A loop ends, or breaks off, even when its body keeps putting elements in:
\* new cells go to the head of a chain, behind the iterator, or the table
\* grows, which it does finitely often for finitely many subscripts.  A rehash
\* leaves ipos where it was, so that chains come again, those just visited as
\* well; but at the end of each chain ipos has gone forward.
LoopsEnd == loop.on ~> ~loop.on \/ fault # "none"

\* The body of a loop always comes to its end.
FairSpec == Spec /\ WF_vars(fault = "none" /\ (ForNext \/ ForNextDangling))
=============================================================================
