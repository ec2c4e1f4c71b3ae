----------------------------- MODULE MCAwkArray -----------------------------
(***************************************************************************)
(* Subscripts that collide in a table of one bucket, and after it has      *)
(* grown to four.                                                          *)
(***************************************************************************)
EXTENDS AwkArrayProps

MCKey  == 1..3
MCHash == <<1, 3, 5>>
=============================================================================
