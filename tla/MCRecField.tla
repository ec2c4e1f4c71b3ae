----------------------------- MODULE MCRecField -----------------------------
(***************************************************************************)
(* RecField on small texts: two words, the comma, the semicolon and blank. *)
(***************************************************************************)
EXTENDS RecFieldProps

RT == INSTANCE RecordText

MCAtom == {"a", "b", ",", ";", " "}

\* Split on the short texts is tabulated once.
Short == UNION {[1..n -> MCAtom] : n \in 0..3}
Separators == {<<" ">>, <<",">>, <<",", ";">>}
SplitTable == [p \in Short \X Separators |-> RT!SplitBy(p[1], p[2])]
MCSplit(t, s) == IF t \in Short THEN SplitTable[<<t, s>>] ELSE RT!SplitBy(t, s)
MCJoin(f, s) == RT!JoinBy(f, s)

\* No field; one or, depending on FS, three (one more than the table first
\* holds), two of them empty.
MCRecords == {<<>>, <<"a", ",", ",">>}

\* For a table of one cell: no field, or one more than it holds.
MCShortRecords == {<<>>, <<"a", ",">>}
MCValues == {<<"b">>}
MCFsVals == {<<",">>}
MCFsRegex == {<<",", ";">>}
MCFsAll == MCFsVals \cup MCFsRegex
MCOfsVals == {<<";">>}

\* Programs that name NF: the others do the same but for looking at it.
MCInit == Init /\ nfcell = "CELL"
MCCoreSpec == MCInit /\ [][Core]_vars

\* No step depends on the outcome of the step before it, and the properties of
\* the full run look at the new outcome only.
NoOutcome == <<rec, fld, nf, donefld, donerec, fs, ofs, nfcell, started, fault>>
=============================================================================
