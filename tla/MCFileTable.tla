---------------------------- MODULE MCFileTable -----------------------------
(***************************************************************************)
(* A table of four slots, so that the second file makes it grow.           *)
(***************************************************************************)
EXTENDS FileTableProps

MCName == {"f", "g", "-"}
MCNameFew == {"f", "-"}
=============================================================================
