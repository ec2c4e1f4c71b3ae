------------------------------ MODULE MCAwkApi ------------------------------
(***************************************************************************)
(* Two threads and two interpreters.                                       *)
(***************************************************************************)
EXTENDS AwkApiProps, TLC

CONSTANTS t1, t2, i1, i2

MCThread == {t1, t2}
MCInterp == {i1, i2}
Alone    == {t1}
MCSymmetry == Permutations(MCThread) \cup Permutations(MCInterp)
=============================================================================
