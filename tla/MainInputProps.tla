--------------------------- MODULE MainInputProps ---------------------------
(***************************************************************************)
(* What the main input owes the program.                                   *)
(***************************************************************************)
EXTENDS MainInput

\* Type invariant.
TypeOK ==
  /\ argv \in Seq(Files \cup Absent \cup Lets \cup {"-", ""}) /\ argno \in Nat
  /\ infile \in Stream \cup {NoInput} /\ slot0 \in {"stdin", "redir", NoInput}
  /\ at \in [Stream -> Nat] /\ \A f \in Stream : at[f] <= Records[f]
  /\ shut \subseteq {"stdin", "redir"}
  /\ pc \in {"idle", "init", "begin", "get", "read", "body", "END", "failed"}
  /\ caller \in {"main", "begin", "body", "END"}
  /\ nr \in Nat /\ fnr \in Nat
  /\ filename \in Files \cup Absent \cup {"-", ""}
  /\ set \in Seq(Lets)
  /\ spoilt \in BOOLEAN /\ runs \in Nat
  /\ fault \in {"none", "null", "closed"}
-----------------------------------------------------------------------------
(* The input still to come, as a sequence of records and assignments.      *)
Item(kind, f, k) == [kind |-> kind, from |-> f, rec |-> k]

Unread(f) == [k \in 1..Records[f] - at[f] |-> Item("record", f, at[f] + k)]

Items(a) == IF a \in Files THEN [k \in 1..Records[a] |-> Item("record", a, k)]
            ELSE IF a \in Lets THEN <<Item("let", a, 0)>>
            ELSE IF a \in Absent THEN <<Item("absent", a, 0)>>
            ELSE IF a = "-" THEN Unread("stdin")
            ELSE <<>>

From(n) == FlattenSeq([i \in 1..Len(argv) - n + 1 |-> Items(argv[n + i - 1])])

FileArgs == Files \cup Absent \cup {"-"}

Todo == IF pc = "init"
          THEN From(argno) \o IF \E i \in argno..Len(argv) : argv[i] \in FileArgs
                              THEN <<>> ELSE IF slot0 = NoInput THEN <<>> ELSE Unread(slot0)
        ELSE IF infile = NoInput THEN From(argno)
        ELSE Unread(infile) \o From(argno + 1)

Source == INSTANCE RecordSource
  WITH todo <- Todo, count <- nr, promised <- ~spoilt /\ pc # "failed"

\* A program that leaves ARGV and its input alone gets every record and every
\* assignment of its arguments once and in order, with NR and FNR that go
\* with them, whatever mixture of main loop, getline and nextfile asks.
ImplementsRecordSource == Source!Spec

\* FILENAME names the file of the record at hand, but for the records of the
\* first file, which initgetrec opens.
NamesFile ==
  pc = "body" /\ got.from \in Files =>
    filename = got.from \/ (filename = "" /\ got.nr = got.fnr)

\* A stream is used after it was closed only by a program that closed its
\* input, or with "-" among the arguments of a host that redirected the input.
ClosedOnlyBy ==
  fault # "none" =>
    spoilt \/ (slot0 = "redir" /\ \E i \in DOMAIN argv : argv[i] = "-")

\* getrec comes to a record or to the end, whatever the program did to ARGV,
\* unless the slot of the standard input has lost its stream.
GetrecReturns ==
  pc \in {"get", "read"} ~> pc \notin {"get", "read"} \/ fault # "none" \/ slot0 = NoInput

\* The loop in getrec goes on as long as its condition holds.
FairSpec == Spec /\ WF_vars(fault = "none" /\ getrec)
=============================================================================
