--------------------------- MODULE RecFieldProps ----------------------------
(***************************************************************************)
(* What the record cache owes the program that uses it, and the workloads  *)
(* under which it is asked for.                                            *)
(***************************************************************************)
EXTENDS RecField

\* Type invariant of the cache.
TypeOK ==
  /\ rec \in Text /\ fld \in Seq(Text) /\ nf \in Nat
  /\ donefld \in BOOLEAN /\ donerec \in BOOLEAN
  /\ fs \in Text /\ ofs \in Text
  /\ nfcell \in {"CNF", "CELL"} /\ started \in BOOLEAN
  /\ fault \in {"none", "runaway", "overrun"}
  /\ out.val \in Text

\* fldbld and recbld always come to an end and stay inside fldtab: no
\* statement makes them call each other for ever or touch a missing cell.
NoFault == fault = "none"

\* "fields after NF are empty" (fieldadr): the cells past NF hold nothing of
\* an earlier record, whatever fldbld, setlastfld and assignments left there.
EmptyPastNF == \A i \in nf + 1 .. Len(fld) : fld[i] = <<>>

\* The record and its fields as the program sees them; empty while neither
\* form has been made (before the first record).
TextOf(c)   == IF c.donerec THEN c.rec
               ELSE IF c.donefld THEN Join(SubSeq(c.fld, 1, c.nf), c.ofs) ELSE <<>>
FieldsOf(c) == IF c.donefld THEN SubSeq(c.fld, 1, c.nf)
               ELSE IF c.donerec THEN Split(c.rec, c.fs) ELSE <<>>

TextView   == TextOf(Cache)
FieldsView == FieldsOf(Cache)

View == INSTANCE RecordView WITH text <- TextView, fields <- FieldsView

\* The lazy cache is indistinguishable from a record that keeps its text and
\* its fields in step at every statement.
ImplementsRecordView == View!Spec

\* A cell past fldtab is touched only when NF was set past the table behind
\* the back of setlastfld, or by a split on a regular expression: no split on
\* one character, assignment or host call gets there from a sound table.
OverrunCauses ==
  [][fault' = "overrun" => nf > Len(fld) \/ IsRegex(fs)]_vars

\* Both forms can be lost only by a string stored into a field by sub, gsub or
\* the host while $0 is out of date, by a host call on a field or on NF.
BothLostOnlyBy ==
  [][(donefld \/ donerec) /\ ~(donefld' \/ donerec') /\ fault' = "none"
       => \/ out'.op \in {"sub", "hostset"} /\ out'.n >= 1
          \/ out'.op \in {"hostget", "hostNF"}]_vars

\* Of an assignment still to reach $0: it is there when $0 is next marked valid,
\* unless that statement gives $0 a text of its own, or a read finds no record
\* (getrec) or no file (getline < file) and leaves the stale text as valid.
StoreLostOnlyBy ==
  [][donefld /\ ~donerec /\ nf <= Len(fld) /\ donerec' /\ fault' = "none"
       => \/ rec' = TextView
          \/ out'.op \in {"read", "assign", "copy", "sub", "hostset"}
          \/ out'.op \in {"nothing", "getfile"}]_vars

\* Of a record whose two forms are both marked valid one was made from the
\* other, under some value of FS or OFS.
Coherent ==
  donefld /\ donerec /\ nf <= Len(fld) =>
    \/ \E s \in FsVals \cup {BLANK}  : SubSeq(fld, 1, nf) = Split(rec, s)
    \/ \E s \in OfsVals \cup {BLANK} : rec = Join(SubSeq(fld, 1, nf), s)

\* $0 and the fields part, both marked valid, only where the code forgets a
\* flag: getline into a field, getline from a file into $0, and NF changed by
\* a program that names it or by its host.  No sequence of assignments, copies,
\* substitutions, reads and other host calls gets there.
PartOnlyBy ==
  [][Coherent /\ ~Coherent' /\ nf <= Len(fld) /\ fault' = "none" =>
       out'.op \in {"getfield", "getfile", "setNF", "hostNF"}]_vars

=============================================================================
