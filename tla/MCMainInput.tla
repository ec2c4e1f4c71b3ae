---------------------------- MODULE MCMainInput -----------------------------
(***************************************************************************)
(* Up to three arguments: a file of two records, an empty one, a missing   *)
(* one, assignments, the standard input and a deleted element.             *)
(***************************************************************************)
EXTENDS MainInputProps

MCFiles   == {"f", "g"}
MCAbsent  == {"n"}
MCLets    == {"x=1"}
MCRecords == [f |-> 2, g |-> 0, stdin |-> 2, redir |-> 1]
MCArgs    == MCFiles \cup MCAbsent \cup MCLets \cup {"-", ""}

\* The standard input at most once.
MCArgLists == {l \in UNION {[1..n -> MCArgs] : n \in 0..3} :
                 \A i, j \in DOMAIN l : l[i] = "-" /\ l[j] = "-" => i = j}
MCChanges == {"f", ""}
=============================================================================
