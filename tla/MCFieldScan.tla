---------------------------- MODULE MCFieldScan -----------------------------
(***************************************************************************)
(* All texts of up to six atoms: a word, the comma, blank and newline; the *)
(* table doubles twice.                                                    *)
(***************************************************************************)
EXTENDS FieldScan

MCRecords == UNION {[1..n -> {"a", ",", " ", "\n"}] : n \in 0..6}
MCFsVals == {<<>>, <<" ">>, <<",">>, <<",", ";">>, <<",", ";", "*">>}
=============================================================================
