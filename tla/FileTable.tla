----------------------------- MODULE FileTable ------------------------------
(***************************************************************************)
(* The table of open files of an interpreter: the three standard slots,    *)
(* which the host may redirect, and the slots that redirections of the     *)
(* program fill on first use.  A print statement is two steps, because its *)
(* arguments are evaluated between the look in the table and the write.    *)
(*                                                                         *)
(* Streams are numbered, 0 to 2 are those of the process.  A slot whose    *)
(* name has been freed but not cleared is marked so: what strcmp finds     *)
(* there is any name.  A null or closed stream that is used ends the       *)
(* behaviour with a fault.                                                 *)
(***************************************************************************)
EXTENDS Integers, Sequences, FiniteSets

CONSTANTS Name,         \* names of files and commands
          FOPEN_MAX,    \* slots made at a time
          MaxStreams,   \* bounds: streams ever made,
          MaxRuns       \* ... runs of the program

ASSUME FileAssumption ==
  /\ "" \notin Name
  /\ FOPEN_MAX \in Nat /\ FOPEN_MAX >= 3
  /\ MaxStreams \in Nat /\ MaxRuns \in Nat

VARIABLES files,    \* the table: slot i is files[i - 1] of the code
          open,     \* streams that are open
          made,     \* number of the next stream
          running,  \* a program is being run
          runs,
          pending,  \* the stream a print statement has taken, or NotPrinting
          fault,    \* "none", "null" or "closed"
          out       \* last use or close of a name

streams == <<open, made>>
vars == <<files, streams, running, runs, pending, fault, out>>

NoFile == -1
NotPrinting == -2
Std == 1..3
StdName == <<"-", "/dev/stdout", "/dev/stderr">>
StdMode == <<"LT", "GT", "GT">>

Outcome(op, s, f) == [op |-> op, name |-> s, stream |-> f]
Slot(s, f, m) == [name |-> s, fp |-> f, mode |-> m, freed |-> FALSE]
Vacant == Slot("", NoFile, "none")

Init == /\ files = [i \in 1..FOPEN_MAX |->
                      IF i \in Std THEN Slot(StdName[i], i - 1, StdMode[i]) ELSE Vacant]
        /\ open = {0, 1, 2} /\ made = 3
        /\ running = FALSE /\ runs = 0
        /\ pending = NotPrinting
        /\ fault = "none"
        /\ out = Outcome("none", "", -1)

Fault(f) == /\ fault' = f
            /\ UNCHANGED <<files, streams, running, runs, pending, out>>

\* The fault of using stream f, if any.
Misuse(f) == IF f < 0 THEN "null" ELSE IF f \notin open THEN "closed" ELSE "none"
-----------------------------------------------------------------------------
(* openfile.  ghosts are the slots with a freed name that strcmp takes for *)
(* the one looked for.                                                     *)
Freed == {i \in DOMAIN files : files[i].freed}

Named(s, ghosts) == {i \in DOMAIN files : IF files[i].freed THEN i \in ghosts
                                                            ELSE files[i].name = s}

\* The mode of a slot: one slot serves > and >>.
Kept(a) == IF a = "APPEND" THEN "GT" ELSE a

Hits(s, a, ghosts) == {i \in Named(s, ghosts) : files[i].mode = Kept(a)}

First(S) == CHOOSE i \in S : \A j \in S : i <= j

Unused == {i \in DOMAIN files : files[i].fp = NoFile}

Place == IF Unused = {} THEN Len(files) + 1 ELSE First(Unused)

\* The table, with FOPEN_MAX more slots when none is vacant.
Room == IF Unused # {} THEN files
        ELSE [i \in 1..Len(files) + FOPEN_MAX |->
                IF i <= Len(files) THEN files[i] ELSE Vacant]

\* (Mutant) A name that is known is opened again for another mode of writing.
ObtainOther(s, a, f) ==
  \E ghosts \in SUBSET Freed :
    LET hits == {i \in Named(s, ghosts) : files[i].mode = a}
    IN  \/ hits # {} /\ f = files[First(hits)].fp /\ UNCHANGED <<files, streams>>
        \/ /\ hits = {} /\ made < MaxStreams /\ f = made
           /\ files' = [Room EXCEPT ![Place] = Slot(s, f, Kept(a))]
           /\ open' = open \cup {f} /\ made' = made + 1

\* openfile(a, s) returns f.
Obtain(s, a, f) ==
  \E ghosts \in SUBSET Freed :
    \/ /\ Hits(s, a, ghosts) # {}
       /\ f = files[First(Hits(s, a, ghosts))].fp
       /\ UNCHANGED <<files, streams>>
    \/ /\ Hits(s, a, ghosts) = {}
       /\ IF s = "-" /\ a = "LT"
            THEN f = 0 /\ UNCHANGED streams
            ELSE /\ made < MaxStreams /\ f = made
                 /\ open' = open \cup {f} /\ made' = made + 1
       /\ files' = [Room EXCEPT ![Place] = Slot(s, f, Kept(a))]

\* print > s, >> s and | s; a print without a redirection takes the slot of
\* the standard output.
PrintTo(s, a) ==
  /\ running /\ pending = NotPrinting
  /\ \E f \in NoFile..made : /\ Obtain(s, a, f)
                             /\ pending' = f
                             /\ out' = Outcome("use", s, f)
  /\ UNCHANGED <<running, runs, fault>>

PrintOut ==
  /\ running /\ pending = NotPrinting
  /\ pending' = files[2].fp
  /\ UNCHANGED <<files, streams, running, runs, fault, out>>

\* The arguments have been evaluated, the text is written.
Put ==
  /\ running /\ pending # NotPrinting
  /\ IF Misuse(pending) # "none"
       THEN Fault(Misuse(pending))
       ELSE /\ pending' = NotPrinting
            /\ UNCHANGED <<files, streams, running, runs, fault, out>>

\* getline < s and s | getline: nothing is read from a null stream.
Getline(s, a) ==
  /\ running
  /\ \E f \in NoFile..made :
       /\ Obtain(s, a, f)
       /\ fault' = IF f = NoFile THEN "none" ELSE Misuse(f)'
       /\ out' = Outcome("use", s, f)
  /\ UNCHANGED <<running, runs, pending>>
-----------------------------------------------------------------------------
\* The fault of closing the streams of the slots S, one after the other.
Twice(S) == \E i, j \in S : i # j /\ files[i].fp = files[j].fp

Misclosed(S) == IF \E i \in S : files[i].fp = NoFile THEN "null"
                ELSE IF Twice(S) \/ \E i \in S : files[i].fp \notin open THEN "closed"
                ELSE "none"

Streams(S) == {files[i].fp : i \in S}

\* (Mutant) The stream is closed and stays in the table.
closefileKeep(s) ==
  /\ running
  /\ LET S == Named(s, {})
     IN  IF Misclosed(S) # "none" THEN Fault(Misclosed(S))
         ELSE /\ open' = open \ Streams(S)
              /\ out' = Outcome("close", s, IF S = {} THEN -1 ELSE 0)
              /\ UNCHANGED <<files, made, running, runs, pending, fault>>

\* close(s): every slot of that name.
closefile(s) ==
  /\ running
  /\ \E ghosts \in SUBSET Freed :
       LET S == Named(s, ghosts)
       IN  IF Misclosed(S) # "none" THEN Fault(Misclosed(S))
           ELSE /\ open' = open \ Streams(S)
                /\ files' = [i \in DOMAIN files |->
                               IF i \in S THEN [files[i] EXCEPT !.name = "", !.fp = NoFile]
                               ELSE files[i]]
                /\ out' = Outcome("close", s, IF S = {} THEN -1 ELSE 0)
                /\ UNCHANGED <<made, running, runs, pending, fault>>

\* Slots whose streams closeall closes.
Closing == {i \in DOMAIN files : IF i \in Std THEN files[i].fp # i - 1
                                              ELSE files[i].fp # NoFile}

\* (Mutant) The slots of the program are forgotten, their streams left open.
closeallForget ==
  /\ running
  /\ files' = [i \in DOMAIN files |-> IF i \in Std THEN files[i] ELSE Vacant]
  /\ running' = FALSE /\ pending' = NotPrinting
  /\ out' = Outcome("end", "", -1)
  /\ UNCHANGED <<streams, runs, fault>>

\* closeall, at the end of a run or after a FATAL (as when a file cannot be
\* opened).  The names of the slots of the program are freed, not cleared.
closeall ==
  /\ running
  /\ IF Misclosed(Closing) # "none" THEN Fault(Misclosed(Closing))
     ELSE /\ open' = open \ Streams(Closing)
          /\ files' = [i \in DOMAIN files |->
                         IF i \in Closing THEN [files[i] EXCEPT !.fp = NoFile,
                                                                !.freed = i \notin Std]
                         ELSE files[i]]
          /\ running' = FALSE /\ pending' = NotPrinting
          /\ out' = Outcome("end", "", -1)
          /\ UNCHANGED <<made, runs, fault>>
-----------------------------------------------------------------------------
(* The host, between two runs.                                             *)

\* Interpreter::run opens the standard slots that have no stream; fopen may
\* fail, and the slot stays without.
Run ==
  LET shut == {i \in Std : files[i].fp = NoFile}
      home == {i \in shut : files[i].name = StdName[i]}
  IN  /\ ~running /\ runs < MaxRuns
      /\ IF \E i \in shut : files[i].name = "" THEN Fault("null")
         ELSE \E found \in SUBSET (shut \ home) :
                /\ found # {} => made < MaxStreams
                /\ files' = [i \in DOMAIN files |->
                     IF i \in home THEN [files[i] EXCEPT !.fp = i - 1]
                     ELSE IF i \in found THEN [files[i] EXCEPT !.fp = made + i - 1]
                     ELSE files[i]]
                /\ open' = open \cup {made + i - 1 : i \in found}
                /\ made' = IF found = {} THEN made ELSE made + 3
                /\ running' = TRUE /\ runs' = runs + 1
                /\ UNCHANGED <<pending, fault, out>>

\* awk_redirect, awk_setinput, awk_setoutput; "-" ends a redirection.  Nothing
\* happens when the file cannot be opened.
Redirect(n, s) ==
  LET old == files[n].fp
  IN  /\ ~running
      /\ files[n].name # s
      /\ \/ /\ files[n].name = "" \/ (s = "-" /\ old = NoFile)
            /\ Fault("null")
         \/ /\ old >= 0 /\ old \notin open /\ (IF s = "-" THEN old # n - 1 ELSE old > 2)
            /\ Fault("closed")
         \/ /\ s = "-" /\ (old = n - 1 \/ old \in open)
            /\ open' = IF old = n - 1 THEN open ELSE open \ {old}
            /\ files' = [files EXCEPT ![n].fp = n - 1, ![n].name = s]
            /\ UNCHANGED <<made, running, runs, pending, fault, out>>
         \/ /\ s # "-" /\ files[n].name # "" /\ made < MaxStreams
            /\ old <= 2 \/ old \in open
            /\ open' = (IF old > 2 THEN open \ {old} ELSE open) \cup {made}
            /\ made' = made + 1
            /\ files' = [files EXCEPT ![n].fp = made, ![n].name = s]
            /\ UNCHANGED <<running, runs, pending, fault, out>>
-----------------------------------------------------------------------------
(* Core: a program that leaves the standard streams open and closes no     *)
(* file in the middle of a print to it, run again only when it closed what *)
(* it opened, by a host that redirects nothing.                            *)
Writes(s) == \E a \in {"GT", "APPEND", "PIPE"} : PrintTo(s, a)
Reads(s)  == \E a \in {"LT", "LE"} : Getline(s, a)

Statement == \E s \in Name : Writes(s) \/ Reads(s)

CoreClose(s) ==
  /\ \A i \in Std : s # StdName[i]
  /\ \A i \in DOMAIN files : files[i].name = s => files[i].fp # pending
  /\ closefile(s)

Core == /\ fault = "none"
        /\ \/ Statement \/ PrintOut \/ Put \/ closeall
           \/ \E s \in Name : CoreClose(s)
           \/ Freed = {} /\ Run

Next == /\ fault = "none"
        /\ \/ Statement \/ PrintOut \/ Put \/ closeall \/ Run
           \/ \E s \in Name : closefile(s) \/ \E n \in Std : Redirect(n, s)

CoreSpec == Init /\ [][Core]_vars
FullSpec == Init /\ [][Next]_vars
=============================================================================
