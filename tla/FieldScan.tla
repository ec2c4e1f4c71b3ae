----------------------------- MODULE FieldScan ------------------------------
(***************************************************************************)
(* The loops that cut a text into pieces: those of Interpreter::fldbld and *)
(* refldbld, which store into the field table, and those of split, which   *)
(* store into an array.  Each iteration of a loop is a step; rest is what  *)
(* the pointer into the text has not passed yet.                           *)
(***************************************************************************)
EXTENDS FieldTable, RecordText

CONSTANTS Records,  \* texts to cut
          FsVals    \* separators, as in RecordText

\* "none" is what sep is when FS is empty, and no character.
ASSUME ScanAssumption == /\ Records \subseteq Seq(STRING)
                         /\ FsVals \subseteq Seq(STRING \ {"none"})

VARIABLES fun,      \* "fldbld"; "split2" is split(s, a), "split3" split(s, a, fs)
          text, fs,
          para,     \* RS is empty: a newline separates fields
          rest,     \* the text from fb (fldbld), s (split), rec (refldbld) on
          out,      \* the pieces stored
          cells,    \* fldtab.size() - 1
          state     \* "scan", "done" or "overrun"

vars == <<fun, text, fs, para, rest, out, cells, state>>

IsRegex == Len(fs) > 1
\* split(s, a) takes FS as it is written: "[,;]" begins with a bracket.
sep == IF IsRegex THEN "[" ELSE IF fs = <<>> THEN "none" ELSE fs[1]

ByRegex == IsRegex /\ fun # "split2"
ByBlank == ~ByRegex /\ sep = " "
ByChar  == ~ByRegex /\ sep = "none"
BySep   == ~ByRegex /\ sep \notin {" ", "none"}

\* <<",", ";", "*">> is the expression "[,;]*", which matches the empty text.
MatchesEmpty == ByRegex /\ fs[Len(fs)] = "*"
\* refldbld looks for no match in an empty record.
Endless == MatchesEmpty /\ (fun = "fldbld" => text # <<>>)

Init == /\ fun \in {"fldbld", "split2", "split3"}
        /\ text \in Records /\ fs \in FsVals /\ para \in BOOLEAN
        /\ rest = text /\ out = <<>>
        /\ cells = DEFAULT_FLD
        /\ state = "scan"

\* The first place of t at or after p with an atom of seps, or the end.
Stop(t, p, seps) ==
  CHOOSE q \in p..Len(t) + 1 : /\ q = Len(t) + 1 \/ t[q] \in seps
                               /\ \A r \in p..q - 1 : t[r] \notin seps

After(t, q) == SubSeq(t, q + 1, Len(t))

\* The next piece is stored; fldbld makes sure of the cell first.
Keep(piece) ==
  /\ out' = Append(out, piece)
  /\ cells' = IF fun = "fldbld" /\ Len(out') > cells
                THEN Max2(2 * (cells + 1), Len(out')) ELSE cells

Finish == state' = "done" /\ UNCHANGED <<rest, out, cells>>

BlankStep ==
  LET first == CHOOSE q \in 1..Len(rest) + 1 :
                 /\ q = Len(rest) + 1 \/ rest[q] \notin Blanks
                 /\ \A r \in 1..q - 1 : rest[r] \in Blanks
      end   == Stop(rest, first, Blanks)
  IN  /\ ByBlank
      /\ \/ first > Len(rest) /\ Finish
         \/ /\ first <= Len(rest)
            /\ Keep(SubSeq(rest, first, end - 1))
            /\ rest' = After(rest, end)
            /\ UNCHANGED state

CharStep ==
  /\ ByChar
  /\ \/ rest = <<>> /\ Finish
     \/ /\ rest # <<>>
        /\ Keep(<<Head(rest)>>)
        /\ rest' = Tail(rest)
        /\ UNCHANGED state

\* (Mutant) The loop ends with the text: no field after a last separator.
SepStepEarly ==
  LET end == Stop(rest, 1, {sep} \cup IF para \/ fun # "fldbld" THEN {"\n"} ELSE {})
  IN  /\ BySep
      /\ \/ rest = <<>> /\ Finish
         \/ /\ rest # <<>>
            /\ Keep(SubSeq(rest, 1, end - 1))
            /\ rest' = After(rest, end)
            /\ UNCHANGED state

\* A piece ends at the separator, at a newline when RS is empty or in split,
\* or with the text, and then it is the last one.
SepStep ==
  LET end == Stop(rest, 1, {sep} \cup IF para \/ fun # "fldbld" THEN {"\n"} ELSE {})
  IN  /\ BySep
      /\ \/ text = <<>> /\ Finish
         \/ /\ text # <<>>
            /\ Keep(SubSeq(rest, 1, end - 1))
            /\ rest' = After(rest, end)
            /\ state' = IF end > Len(rest) THEN "done" ELSE "scan"

\* (Mutant) The length of the match is forgotten.
RegexStepStay ==
  LET at == Stop(rest, 1, ToSet(fs))
  IN  /\ ByRegex /\ ~MatchesEmpty
      /\ at <= Len(rest)
      /\ out' = out /\ cells' = cells
      /\ rest' = SubSeq(rest, at, Len(rest))
      /\ UNCHANGED state

\* One match of the expression (a character class) after another.
RegexStep ==
  LET at == Stop(rest, 1, ToSet(fs))
  IN  /\ ByRegex /\ ~MatchesEmpty
      /\ at <= Len(rest)
      /\ Keep(SubSeq(rest, 1, at - 1))
      /\ rest' = After(rest, at)
      /\ UNCHANGED state

\* The expression matches the atoms of the class that come next, or none: then
\* the loop stores an empty piece and is where it was, and so it goes on (these
\* pieces are left out).
StarStep ==
  LET end == Stop(rest, 1, ToSet(rest) \ ToSet(fs))
  IN  /\ Endless
      /\ \/ end = 1 /\ UNCHANGED <<rest, out, cells>>
         \/ end > 1 /\ Keep(<<>>) /\ rest' = After(rest, end - 1)
      /\ UNCHANGED state

\* No match is left: refldbld stores the rest without growing the table, and
\* nothing for an empty text; split stores nothing more.
RegexLast ==
  /\ ByRegex /\ ~Endless
  /\ MatchesEmpty \/ Stop(rest, 1, ToSet(fs)) > Len(rest)
  /\ IF fun = "fldbld" /\ text # <<>>
       THEN /\ out' = Append(out, rest)
            /\ state' = IF Len(out') > cells THEN "overrun" ELSE "done"
       ELSE UNCHANGED out /\ state' = "done"
  /\ UNCHANGED <<rest, cells>>

Next == /\ state = "scan"
        /\ BlankStep \/ CharStep \/ SepStep \/ RegexStep \/ StarStep \/ RegexLast
        /\ UNCHANGED <<fun, text, fs, para>>

Spec == Init /\ [][Next]_vars /\ WF_vars(Next)
-----------------------------------------------------------------------------
\* Separators of the reference: the newline counts when RS is empty.
Separators == IF para /\ Len(fs) = 1 /\ fs # Blank THEN ToSet(fs) \cup {"\n"}
              ELSE ToSet(fs)

Reference == IF Len(fs) = 1 /\ fs # Blank
               THEN IF text = <<>> THEN <<>> ELSE Pieces(text, Separators)
               ELSE SplitBy(text, fs)

\* The loops of fldbld and refldbld store the pieces between the separators,
\* none lost at either end, none twice, the empty ones where FS is no blank;
\* cell after cell, the table ends up as large as RecField takes it to be; and
\* a piece is stored past the table only by refldbld, after the last match,
\* when the pieces before it fill the table.
FieldsAsReference ==
  fun = "fldbld" =>
    /\ state = "done" => out = Reference
    /\ state = "done" /\ ~IsRegex => cells = TableAfter(DEFAULT_FLD, Len(out))
    /\ state = "overrun" => ByRegex /\ Len(out) = cells + 1
    /\ state # "overrun" => Len(out) <= cells

\* split with a separator of one character agrees with the fields, except
\* that it takes a newline for a separator whatever RS is.
SplitAsFields ==
  fun # "fldbld" /\ ~IsRegex /\ state = "done" /\ (para \/ "\n" \notin ToSet(text)) =>
    out = Reference

\* Every loop comes to the end of the text, unless the expression matches the
\* empty text: then those of refldbld and split (interp.cpp:653, b.cpp:133) go
\* on for ever.
LoopsEnd == ~Endless => <>(state # "scan")

=============================================================================
