----------------------------- MODULE RecordView -----------------------------
(***************************************************************************)
(* What an AWK program may expect of $0, $1..$NF and NF: one record seen   *)
(* both as a text and as a sequence of fields, the two always in step.     *)
(* Reading or assigning $0 splits it at once, assigning a field rebuilds   *)
(* $0 at once.  RecField, which does both lazily, is shown to implement    *)
(* this specification.                                                     *)
(***************************************************************************)
EXTENDS Integers, Sequences

CONSTANTS Atom,          \* what texts are made of
          Split(_, _),   \* fields of a text under a value of FS
          Join(_, _),    \* text of a sequence of fields under a value of OFS
          Records,       \* texts an input record or $0 may be given
          Values,        \* texts a field may be given
          FsVals,        \* values FS may be given
          OfsVals,       \* values OFS may be given
          MaxField,      \* bound: largest field number a program mentions
          MaxText        \* bound: longest text kept

VARIABLES text, fields, fs, ofs, started, out

vars == <<text, fields, fs, ofs, started, out>>

FieldOf(n) == IF n = 0 THEN text
              ELSE IF n <= Len(fields) THEN fields[n] ELSE <<>>

\* The fields once $n has been given the value v: the gap up to n is empty.
WithField(n, v) ==
  [i \in 1..(IF n > Len(fields) THEN n ELSE Len(fields)) |->
     IF i = n THEN v ELSE FieldOf(i)]

Outcome(op, n, v) == [op |-> op, n |-> n, val |-> v]

Init == /\ text = <<>> /\ fields = <<>>
        /\ fs = <<" ">> /\ ofs = <<" ">>
        /\ started = FALSE
        /\ out = Outcome("none", 0, <<>>)

SetText(t) == text' = t /\ fields' = Split(t, fs) /\ UNCHANGED <<fs, ofs>>

Read(t) == out' = Outcome("read", 0, <<>>) /\ SetText(t) /\ started' = TRUE

\* No record is left: $0 keeps its text and is split again, or is emptied.
ReadNothing(t) == /\ out' = Outcome("nothing", 0, <<>>)
                  /\ SetText(t)
                  /\ started' = TRUE

Fetch(n) == /\ out' = Outcome("fetch", n, FieldOf(n))
            /\ UNCHANGED <<text, fields, fs, ofs, started>>

FetchNF == /\ out' = Outcome("NF", Len(fields), <<>>)
           /\ UNCHANGED <<text, fields, fs, ofs, started>>

Store(n, v) ==
  /\ IF n = 0
       THEN SetText(v)
       ELSE /\ fields' = WithField(n, v)
            /\ text' = Join(fields', ofs)
            /\ UNCHANGED <<fs, ofs>>
  /\ UNCHANGED started

Assign(n, v) == out' = Outcome("assign", 0, <<>>) /\ Store(n, v)

Copy(n, m) == out' = Outcome("copy", 0, <<>>) /\ Store(n, FieldOf(m))

Substitute(v) == out' = Outcome("sub", 0, v) /\ Store(0, v)

SetFS(s) == /\ ~started
            /\ out' = Outcome("FS", 0, <<>>)
            /\ fs' = s
            /\ UNCHANGED <<text, fields, ofs, started>>

SetOFS(s) == /\ out' = Outcome("OFS", 0, <<>>)
             /\ ofs' = s
             /\ UNCHANGED <<text, fields, fs, started>>

Next ==
  \/ \E t \in Records : Read(t)
  \/ \E t \in {text, <<>>} : ReadNothing(t)
  \/ \E n \in 0..MaxField : Fetch(n)
  \/ FetchNF
  \/ \E n \in 1..MaxField, v \in Values : Assign(n, v)
  \/ \E v \in Records : Assign(0, v)
  \/ \E n, m \in 0..MaxField : Copy(n, m)
  \/ \E v \in Records : Substitute(v)
  \/ \E s \in FsVals : SetFS(s)
  \/ \E s \in OfsVals : SetOFS(s)

Spec == Init /\ [][Next]_vars
=============================================================================
