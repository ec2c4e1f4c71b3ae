---------------------------- MODULE Connections ----------------------------
(***************************************************************************)
(* What an AWK program may expect of its redirections: a name and a kind   *)
(* of redirection stand for one stream from the first use to close(name)   *)
(* or to the end of the run, and no two of them for the same stream.       *)
(* FileTable is shown to implement this specification.                     *)
(***************************************************************************)
EXTENDS Integers

CONSTANTS Name, Mode, Stream,
          Standard              \* the connections of every run

VARIABLES conn, out

vars == <<conn, out>>

Connection(s, m, f) == [name |-> s, mode |-> m, stream |-> f]

Outcome(op, s, f) == [op |-> op, name |-> s, stream |-> f]

Init == conn = Standard /\ out = Outcome("none", "", -1)

\* print > s, getline < s, ...
Use(s, m, f) ==
  /\ out' = Outcome("use", s, f)
  /\ \/ Connection(s, m, f) \in conn /\ UNCHANGED conn
     \/ /\ \A c \in conn : c.stream # f /\ (c.name # s \/ c.mode # m)
        /\ conn' = conn \cup {Connection(s, m, f)}

\* close(s): 0 when there was something to close.
Close(s) ==
  /\ out' = Outcome("close", s, IF \E c \in conn : c.name = s THEN 0 ELSE -1)
  /\ conn' = {c \in conn : c.name # s}

End == out' = Outcome("end", "", -1) /\ conn' = Standard

Next == \/ \E s \in Name, m \in Mode, f \in Stream : Use(s, m, f)
        \/ \E s \in Name : Close(s)
        \/ End

Spec == Init /\ [][Next]_vars
=============================================================================
