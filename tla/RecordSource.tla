---------------------------- MODULE RecordSource ----------------------------
(***************************************************************************)
(* What an AWK program may expect of its main input: the arguments are     *)
(* taken in order, every record of every file is delivered once, with the  *)
(* right NR and FNR, an assignment takes effect after the records of the   *)
(* files before it and before those of the files after it, and the end is  *)
(* reported when nothing is left.  MainInput implements this for a program *)
(* that leaves ARGV and its standard input alone.                          *)
(***************************************************************************)
EXTENDS Integers, Sequences, SequencesExt

VARIABLES todo,      \* records and assignments still to come
          count,     \* NR
          got,       \* what the last read delivered
          set,       \* the assignments made so far
          promised   \* FALSE once the program has interfered

vars == <<todo, count, got, set, promised>>

\* Items of todo are records of a stream, and assignments.
Rec(f, k)  == [kind |-> "record", from |-> f, rec |-> k]
Let(a)     == [kind |-> "let", from |-> a, rec |-> 0]
Nothing(s) == [from |-> s, rec |-> 0, nr |-> 0, fnr |-> 0]

Init == count = 0 /\ got = Nothing("none") /\ set = <<>> /\ promised = TRUE

\* The next record of a stream goes on counting in FNR, another starts at 1.
Deliver ==
  /\ todo # <<>> /\ Head(todo).kind = "record"
  /\ LET r == Head(todo)
     IN  got' = [from |-> r.from, rec |-> r.rec, nr |-> count + 1,
                 fnr |-> IF got.from = r.from /\ got.rec + 1 = r.rec
                         THEN got.fnr + 1 ELSE 1]
  /\ count' = count + 1
  /\ todo' = Tail(todo)
  /\ UNCHANGED <<set, promised>>

Assign ==
  /\ todo # <<>> /\ Head(todo).kind = "let"
  /\ set' = Append(set, Head(todo).from)
  /\ todo' = Tail(todo)
  /\ UNCHANGED <<count, got, promised>>

\* nextfile: what is left of the stream of the last record is passed over.
Following(n) == \A i \in 1..n : todo[i] = Rec(got.from, got.rec + i)

Skip ==
  /\ \E n \in 0..Len(todo) :
       /\ Following(n) /\ (n < Len(todo) => ~Following(n + 1))
       /\ todo' = SubSeq(todo, n + 1, Len(todo))
  /\ UNCHANGED <<count, got, set, promised>>

End ==
  /\ todo = <<>>
  /\ got' = Nothing("end")
  /\ UNCHANGED <<todo, count, set, promised>>

\* The next run.
Restart == count' = 0 /\ got' = Nothing("none") /\ set' = <<>> /\ UNCHANGED promised

Next == ~promised' \/ Deliver \/ Assign \/ Skip \/ End \/ Restart

Spec == Init /\ [][Next]_vars
=============================================================================
