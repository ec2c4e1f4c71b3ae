------------------------------ MODULE MCCalls ------------------------------
(***************************************************************************)
(* Calls for TLC.  The programs are of three kinds, each bounded where the *)
(* others are not: every statement, without parameters; calls of two       *)
(* parameters; calls of one parameter in each other.                       *)
(***************************************************************************)
EXTENDS CallsProps

Whole == [constructs : {Starts}, sections : {Sections}, depth : {5},
          names : {{}}, params : {0}, calls : {2}, expressions : {TRUE}, returns : {FALSE},
          getlines : {FALSE}]
Parts == [constructs : {Starts}, sections : SUBSET Sections \ {{}, Sections}, depth : {4},
          names : {{}}, params : {0}, calls : {2}, expressions : {TRUE}, returns : {FALSE},
          getlines : {FALSE}]
Wide  == [constructs : {{"arguments"}}, sections : {{"body"}}, depth : {3},
          names : {{1, 2}}, params : {2}, calls : {1}, expressions : BOOLEAN, returns : BOOLEAN,
          getlines : BOOLEAN]
Deep  == [constructs : {{"arguments", "if cond"}}, sections : {{"body"}}, depth : {4},
          names : {{1}}, params : {1}, calls : {2}, expressions : BOOLEAN, returns : BOOLEAN,
          getlines : BOOLEAN]

MCPrograms == Whole \cup Parts \cup Wide \cup Deep
=============================================================================
