--------------------------- MODULE FileTableProps ---------------------------
(***************************************************************************)
(* What the table of open files owes the program and the host.             *)
(***************************************************************************)
EXTENDS FileTable

Used == {i \in DOMAIN files : files[i].fp # NoFile}

\* Type invariant.
TypeOK ==
  /\ files \in Seq([name : Name \cup {"", "-", "/dev/stdout", "/dev/stderr"},
                    fp : Nat \cup {NoFile},
                    mode : {"none", "GT", "PIPE", "LE", "LT"}, freed : BOOLEAN])
  /\ Len(files) >= 3
  /\ open \subseteq 0..(made - 1) /\ made \in Nat
  /\ running \in BOOLEAN /\ runs \in Nat
  /\ pending \in Nat \cup {NoFile, NotPrinting}
  /\ fault \in {"none", "null", "closed"}

\* No statement of a core program and no second run uses a stream that is
\* closed or was never opened, or closes one twice.
NoFault == fault = "none"

\* A stream the library opened stays in the table until it is closed, so that
\* close, closeall or the end of the interpreter finds it: none is lost when
\* slots are reused, redirected or the table is moved.
NoLeak == open \subseteq 0..2 \cup {files[i].fp : i \in DOMAIN files}

\* A null or a closed stream is used only where an earlier run left a freed
\* name, a standard slot has lost its stream, a print had its stream closed by
\* its own arguments, or a stream of the process is closed or in two slots.
FaultCauses ==
  [][fault' # "none" =>
       \/ Freed # {} \/ \E i \in Std : files[i].fp = NoFile
       \/ pending \notin open \cup {NotPrinting}
       \/ ~ 0..2 \subseteq open \/ Twice(Used) ]_vars

View == INSTANCE Connections
  WITH Mode <- {"GT", "PIPE", "LE", "LT"},
       Stream <- 0..(MaxStreams + 2),
       Standard <- {[name |-> StdName[i], mode |-> StdMode[i], stream |-> i - 1] : i \in Std},
       conn <- {[name |-> files[i].name, mode |-> files[i].mode, stream |-> files[i].fp]
                  : i \in Used}

\* To a core program the table is a set of connections, whatever slots they
\* are in and however the table has grown.
ImplementsConnections == View!Spec
=============================================================================
