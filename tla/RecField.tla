------------------------------ MODULE RecField ------------------------------
(***************************************************************************)
(* The record cache of the interpreter: $0 and $1..$NF are two cached      *)
(* forms of the current input record, each with a validity flag (donerec,  *)
(* donefld), rebuilt from each other on demand by recbld and fldbld.       *)
(*                                                                         *)
(* The C++ functions are operators on a record c that holds the whole      *)
(* cache; a statement of an AWK program or a call of the host is an action *)
(* that composes them in the order of the code.  A behaviour the code does *)
(* not survive (a cell past fldtab is touched, or fldbld and recbld call   *)
(* each other without end) sets fault and is the last step.                *)
(*                                                                         *)
(* Core is the set of statements that keep the two forms in step; each of  *)
(* the other actions is a statement or a host call that does not.          *)
(***************************************************************************)
EXTENDS FieldTable

CONSTANTS Atom, Split(_, _), Join(_, _), Records, Values, FsVals, OfsVals,
          MaxField, MaxText

Text == Seq(Atom)

ASSUME TextAssumption ==
  /\ Records \subseteq Text /\ Values \subseteq Text
  /\ FsVals \subseteq Text /\ OfsVals \subseteq Text
  /\ <<" ">> \in Text
  /\ MaxField \in Nat /\ MaxText \in Nat

(***************************************************************************)
(* What is known of Split and Join: they turn texts into texts, and an     *)
(* empty record has no fields.  (Not an ASSUME, because TLC cannot run     *)
(* through all texts; the theorems have it as their hypothesis.)           *)
(***************************************************************************)
SplitJoinTyped ==
  /\ \A t, s \in Text : Split(t, s) \in Seq(Text)
  /\ \A s \in Text : Split(<<>>, s) = <<>>
  /\ \A f \in Seq(Text), s \in Text : Join(f, s) \in Text
  /\ \A s \in Text : Join(<<>>, s) = <<>>

VARIABLES rec,      \* fldtab[0]->sval
          fld,      \* fldtab[1..].sval; fldtab.size() is Len(fld) + 1
          nf,       \* NF
          donefld,  \* "record broken into fields"
          donerec,  \* "record is valid (no fld has changed)"
          fs, ofs,  \* FS and OFS
          nfcell,   \* ctype of the cell of NF
          started,  \* a record has been asked for
          fault,    \* "none", "runaway" or "overrun"
          out       \* the last statement and what it delivered

vars == <<rec, fld, nf, donefld, donerec, fs, ofs, nfcell, started, fault, out>>

BLANK == <<" ">>

Faulty(c) == c.fault # "none"
Crash(c, f) == [c EXCEPT !.fault = f]

(***************************************************************************)
(* recbld: $0 from $1..$NF.  It reads the fields with getsval, which calls *)
(* fldbld while the fields are not valid, which asks $0 for its text,      *)
(* which calls recbld again: nothing stops the two when both flags are off *)
(* and there is a field to read.                                           *)
(***************************************************************************)
recbld(c) ==
  IF Faulty(c) \/ c.donerec THEN c
  ELSE IF ~c.donefld /\ c.nf >= 1 THEN Crash(c, "runaway")
  ELSE IF c.nf > Len(c.fld) THEN Crash(c, "overrun")
  ELSE [c EXCEPT !.rec = Join(SubSeq(c.fld, 1, c.nf), c.ofs), !.donerec = TRUE]

(***************************************************************************)
(* fldbld: $1..$NF from $0.  The loops for a one-character FS grow the     *)
(* table before each store; refldbld (FS a regular expression) stores the  *)
(* piece after the last match without looking.  The cells of the previous  *)
(* record past the new NF, up to the old NF, are cleared.                  *)
(***************************************************************************)
IsRegex(s) == Len(s) > 1

\* The table once the fields new have been stored in it, cells long by then.
Filled(r, new, cells) ==
  IF Len(new) > cells \/ r.nf > cells THEN Crash(r, "overrun")
  ELSE [r EXCEPT !.fld = [i \in 1..cells |->
                            IF i <= Len(new) THEN new[i]
                            ELSE cleanfld(Extend(r.fld, cells), Len(new) + 1, r.nf)[i]],
                 !.nf = Len(new), !.donefld = TRUE, !.donerec = TRUE]

\* How many pieces are stored by a loop that looks at the table first.
Guarded(new, s) == IF IsRegex(s) /\ Len(new) > 0 THEN Len(new) - 1 ELSE Len(new)

Fill(r, new) == Filled(r, new, TableAfter(Len(r.fld), Guarded(new, r.fs)))

Resplit(r) == IF Faulty(r) THEN r ELSE Fill(r, Split(r.rec, r.fs))

fldbld(c) == IF c.donefld THEN c ELSE Resplit(recbld(c))

Lengthen(c, n, g) ==
  IF c.nf > Len(g) THEN Crash(c, "overrun")
  ELSE [c EXCEPT !.fld = IF c.nf < n THEN cleanfld(g, c.nf + 1, n)
                                     ELSE cleanfld(g, n + 1, c.nf),
                 !.nf = n]

setlastfld(c, n) == IF Faulty(c) THEN c ELSE Lengthen(c, n, growfldtab(c.fld, n))

\* fieldadr: make the wanted form valid, make sure the cell exists.
Grow(c, n) == IF Faulty(c) THEN c ELSE [c EXCEPT !.fld = growfldtab(c.fld, n)]
fieldadr(c, n) == Grow(IF n = 0 THEN recbld(c) ELSE fldbld(c), n)

\* sval of the cell of $n, whatever the flags say.
Cell(c, n) == IF n = 0 THEN c.rec ELSE c.fld[n]

PutCell(c, n, v) ==
  IF Faulty(c) THEN c
  ELSE IF n = 0 THEN [c EXCEPT !.rec = v]
  ELSE [c EXCEPT !.fld[n] = v]

\* A field past NF moves NF up to it.
Reach(c, n) == IF n > c.nf THEN setlastfld(c, n) ELSE c

\* $0 has a new text: the fields are out of date.
NewRecord(c) == [c EXCEPT !.donefld = FALSE, !.donerec = TRUE]

(***************************************************************************)
(* The side effects of storing into a cell.  assign (for =) and setfval    *)
(* (for +=, ++, a number from the host) agree on fields; setsval (sub,     *)
(* gsub, a string from the host) does not: for a field it drops the fields *)
(* instead of dropping $0.                                                 *)
(***************************************************************************)
\* (Mutant) Both forms are dropped, as if $0 and the fields were alike.
TouchBoth(c, n) == IF n = 0 THEN NewRecord(c)
                   ELSE [Reach(c, n) EXCEPT !.donerec = FALSE, !.donefld = FALSE]

\* (Mutant) $0 is not marked out of date.
TouchFieldOnly(c, n) == IF n = 0 THEN NewRecord(c) ELSE Reach(c, n)

Touch(c, n) == IF n = 0 THEN NewRecord(c)
               ELSE [Reach(c, n) EXCEPT !.donerec = FALSE]

setfval(c, n, v) == PutCell(Touch(c, n), n, v)

setsval(c, n, v) ==
  IF n = 0 THEN PutCell(NewRecord(c), 0, v)
  ELSE PutCell(Reach([c EXCEPT !.donefld = FALSE], n), n, v)

\* setfval and setsval of NF while its cell has the type CNF.
setfvalNF(c, n) == setlastfld([c EXCEPT !.donerec = FALSE], n)

setsvalNF(c, n) ==
  LET b == fldbld([c EXCEPT !.nf = n, !.donerec = FALSE])
  IN  setlastfld(b, b.nf)

\* (Mutant) The record is not built before OFS changes.
setsvalOFSLate(c, s) == [c EXCEPT !.ofs = s]

\* (Mutant) The record is marked as built and not built.
setsvalOFSMark(c, s) == [c EXCEPT !.ofs = s, !.donerec = TRUE]

\* setsval of OFS: a record still to be built is built with the old OFS.
setsvalOFS(c, s) == LET b == recbld(c) IN [b EXCEPT !.ofs = s]
-----------------------------------------------------------------------------
Outcome(op, n, v) == [op |-> op, n |-> n, val |-> v]

Cache == [rec |-> rec, fld |-> fld, nf |-> nf, donefld |-> donefld,
          donerec |-> donerec, fs |-> fs, ofs |-> ofs, fault |-> fault]

\* Bounds on what is kept, not on what the code does.
InBounds(c) == /\ c.nf <= MaxField
               /\ Len(c.rec) <= MaxText
               /\ ~c.donerec /\ c.nf <= Len(c.fld)
                    => Len(Join(SubSeq(c.fld, 1, c.nf), c.ofs)) <= MaxText

Put(c) == /\ InBounds(c)
          /\ rec' = c.rec /\ fld' = c.fld /\ nf' = c.nf
          /\ donefld' = c.donefld /\ donerec' = c.donerec
          /\ fs' = c.fs /\ ofs' = c.ofs /\ fault' = c.fault

\* A fault happens before the statement delivers anything.
Deliver(c, op, n, v) ==
  out' = IF Faulty(c) THEN Outcome("fault", 0, <<>>) ELSE Outcome(op, n, v)

Init == /\ rec = <<>> /\ fld = [i \in 1..DEFAULT_FLD |-> <<>>]
        /\ nf = DEFAULT_FLD
        /\ donefld = FALSE /\ donerec = FALSE
        /\ fs = BLANK /\ ofs = BLANK
        /\ nfcell \in {"CNF", "CELL"}
        /\ started = FALSE /\ fault = "none"
        /\ out = Outcome("none", 0, <<>>)
-----------------------------------------------------------------------------
(* Statements of an AWK program.                                           *)

\* getrec into $0: the fields are out of date and $0 is marked valid before a
\* record is looked for.  t is the record found; when none is found it is the
\* old text of the cell, or empty if readrec met the end of a file.
getrec(t) == PutCell(NewRecord(Cache), 0, t)

FromInput(c, op) == /\ Put(c)
                    /\ started' = TRUE
                    /\ Deliver(c, op, 0, <<>>)
                    /\ UNCHANGED nfcell

\* The main loop; a bare getline splits the record at once, found or not.
ReadRecord(t)     == FromInput(getrec(t), "read")
Getline(t)        == FromInput(fldbld(getrec(t)), "read")
ReadNothing(t)    == FromInput(getrec(t), "nothing")
GetlineNothing(t) == FromInput(fldbld(getrec(t)), "nothing")

\* print $n
Fetch(n) ==
  LET c == fieldadr(Cache, n)
  IN  /\ Put(c)
      /\ Deliver(c, "fetch", n, Cell(c, n))
      /\ UNCHANGED <<nfcell, started>>

\* print NF.  A program that names NF has turned its cell into a plain one.
FetchNF ==
  LET c == fldbld(Cache)
  IN  /\ nfcell = "CELL"
      /\ Put(c)
      /\ Deliver(c, "NF", c.nf, <<>>)
      /\ UNCHANGED <<nfcell, started>>

\* $n = v, $n += ..., $n++
AssignField(n, v) ==
  LET c == setfval(fieldadr(Cache, n), n, v)
  IN  /\ Put(c)
      /\ Deliver(c, "assign", 0, <<>>)
      /\ UNCHANGED <<nfcell, started>>

\* $n = $m: the value is taken from the cell of $m after the cell of $n has
\* been prepared.
CopyField(n, m) ==
  LET b == Touch(fieldadr(fieldadr(Cache, m), n), n)
      c == IF n = m THEN b ELSE PutCell(b, n, Cell(b, m))
  IN  /\ Put(c)
      /\ Deliver(c, "copy", 0, <<>>)
      /\ UNCHANGED <<nfcell, started>>

\* sub or gsub on $n: v is the text with its replacements.
Substitute(n, v) ==
  LET c == setsval(fieldadr(Cache, n), n, v)
  IN  /\ Put(c)
      /\ Deliver(c, "sub", n, v)
      /\ UNCHANGED <<nfcell, started>>

AssignFS(s) ==
  /\ Put([Cache EXCEPT !.fs = s])
  /\ Deliver(Cache, "FS", 0, <<>>)
  /\ UNCHANGED <<nfcell, started>>

\* OFS = s copies the cell and does not go through setsval.
AssignOFS(s) ==
  /\ Put([Cache EXCEPT !.ofs = s])
  /\ Deliver(Cache, "OFS", 0, <<>>)
  /\ UNCHANGED <<nfcell, started>>

\* NF = n, NF++, ...: the cell is a plain one, nothing else changes.
AssignNF(n) ==
  LET b == fldbld(Cache)
      c == IF Faulty(b) THEN b ELSE [b EXCEPT !.nf = n]
  IN  /\ nfcell = "CELL"
      /\ Put(c)
      /\ Deliver(c, "setNF", 0, <<>>)
      /\ UNCHANGED <<nfcell, started>>

\* getline $n: the text goes straight into the cell, which the end of a file
\* leaves empty.
GetlineField(n, t) ==
  LET c == PutCell(fieldadr(Cache, n), n, t)
  IN  /\ n >= 1
      /\ Put(c)
      /\ Deliver(c, "getfield", 0, <<>>)
      /\ UNCHANGED <<nfcell, started>>

\* getline < file: $0 is replaced, the fields are not marked out of date; the
\* cell keeps its text if the file is not there and is emptied at its end.
GetlineFile(t) ==
  LET c == fldbld([PutCell(Cache, 0, t) EXCEPT !.donerec = TRUE])
  IN  /\ Put(c)
      /\ Deliver(c, "getfile", 0, <<>>)
      /\ UNCHANGED <<nfcell, started>>
-----------------------------------------------------------------------------
(* Calls of the host program from an external function.                    *)

\* OFS set from outside the program (awk_setvar, a "OFS=..." argument of
\* awk_init or awk_addarg) goes through setsval.
HostSetOFS(s) ==
  LET c == setsvalOFS(Cache, s)
  IN  /\ Put(c)
      /\ Deliver(c, "OFS", 0, <<>>)
      /\ UNCHANGED <<nfcell, started>>

\* awk_getvar of "$n": the flags are both dropped once the cell is found.
HostGet(n) ==
  LET b == fldbld(Cache)
      c == IF Faulty(b) \/ n > b.nf THEN b
           ELSE IF n > Len(b.fld) THEN Crash(b, "overrun")
           ELSE [b EXCEPT !.donefld = FALSE, !.donerec = FALSE]
  IN  /\ Put(c)
      /\ Deliver(c, "hostget", 0, IF n <= b.nf THEN Cell(b, n) ELSE <<>>)
      /\ UNCHANGED <<nfcell, started>>

\* awk_setvar of "$n" with a string or a number; no field is split first.
HostSetString(n, v) ==
  LET b == setsval(Cache, n, v)
      c == IF n = 0 THEN [b EXCEPT !.donefld = FALSE] ELSE [b EXCEPT !.donerec = FALSE]
  IN  /\ n <= Len(fld)
      /\ Put(c)
      /\ Deliver(c, "hostset", n, <<>>)
      /\ UNCHANGED <<nfcell, started>>

HostSetNumber(n, v) ==
  LET c == setfval(Cache, n, v)
  IN  /\ n <= Len(fld)
      /\ Put(c)
      /\ Deliver(c, "hostset", n, <<>>)
      /\ UNCHANGED <<nfcell, started>>

\* awk_setvar of "NF", with a number or with a string.
HostSetNF(n) ==
  \E c \in IF nfcell = "CNF" THEN {setfvalNF(Cache, n), setsvalNF(Cache, n)}
                             ELSE {[Cache EXCEPT !.nf = n]} :
    /\ Put(c)
    /\ Deliver(c, "hostNF", 0, <<>>)
    /\ UNCHANGED <<nfcell, started>>

\* awk_exec again: clean_symtab restores FS and OFS and keeps the record.
NextRun ==
  /\ started
  /\ Put([Cache EXCEPT !.fs = BLANK, !.ofs = BLANK])
  /\ started' = FALSE
  /\ Deliver(Cache, "run", 0, <<>>)
  /\ UNCHANGED nfcell
-----------------------------------------------------------------------------
(***************************************************************************)
(* Core: what a program does with its records when it leaves NF alone,     *)
(* substitutes in $0 only, splits with one character or blanks, chooses FS *)
(* and OFS in BEGIN and looks at no field there, and asks for no record    *)
(* past the last while an assignment to a field has yet to reach $0.       *)
(***************************************************************************)
CoreRead == \/ \E t \in Records : ReadRecord(t) \/ Getline(t)
            \/ /\ donerec
               /\ ReadNothing(rec) \/ GetlineNothing(rec)
            \/ ReadNothing(<<>>) \/ GetlineNothing(<<>>)

CoreBegin == /\ ~started
             /\ \/ \E s \in FsVals : ~IsRegex(s) /\ AssignFS(s)
                \/ \E s \in OfsVals : AssignOFS(s)

CoreRecord == /\ started
              /\ \/ \E n \in 0..MaxField : Fetch(n)
                 \/ FetchNF
                 \/ \E n \in 1..MaxField, v \in Values : AssignField(n, v)
                 \/ \E v \in Records : AssignField(0, v)
                 \/ \E n, m \in 0..MaxField : CopyField(n, m)
                 \/ \E v \in Records : Substitute(0, v)
                 \/ \E s \in OfsVals : HostSetOFS(s)

Core == fault = "none" /\ (CoreRead \/ CoreBegin \/ CoreRecord)

\* The statements and calls outside Core, one disjunct each.
NothingLeft  == \E t \in {rec, <<>>} : ReadNothing(t) \/ GetlineNothing(t)
RegexFS      == \E s \in FsVals : IsRegex(s) /\ AssignFS(s)
EarlyOFS     == ~started /\ \E s \in OfsVals : HostSetOFS(s)
SubField     == started /\ \E n \in 1..MaxField, v \in Values : Substitute(n, v)
ChangeNF     == started /\ \E n \in 0..MaxField : AssignNF(n)
LateFS       == started /\ \E s \in FsVals : AssignFS(s)
LateOFS      == started /\ \E s \in OfsVals : AssignOFS(s)
ReadField    == started /\ \E n \in 1..MaxField, t \in Values \cup {<<>>} : GetlineField(n, t)
ReadFile     == started /\ \E t \in Records \cup {rec, <<>>} : GetlineFile(t)
HostReads    == started /\ \E n \in 0..MaxField : HostGet(n)
HostWrites   == started /\ \/ \E n \in 1..MaxField, v \in Values :
                                HostSetString(n, v) \/ HostSetNumber(n, v)
                           \/ \E v \in Records : HostSetString(0, v) \/ HostSetNumber(0, v)
HostChangesNF == \E n \in 0..MaxField : HostSetNF(n)
BeginFetch   == ~started /\ (FetchNF \/ \E n \in 0..MaxField : Fetch(n))

Next == /\ fault = "none"
        /\ \/ Core
           \/ NothingLeft \/ RegexFS \/ EarlyOFS \/ SubField \/ ChangeNF \/ LateFS \/ LateOFS
           \/ ReadField \/ ReadFile \/ HostReads \/ HostWrites \/ HostChangesNF
           \/ BeginFetch \/ NextRun

CoreSpec == Init /\ [][Core]_vars
FullSpec == Init /\ [][Next]_vars
=============================================================================
