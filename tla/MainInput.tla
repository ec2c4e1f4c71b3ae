----------------------------- MODULE MainInput ------------------------------
(***************************************************************************)
(* The main input of a run: initgetrec finds the first file among the      *)
(* arguments, getrec delivers record after record, from file to file, to   *)
(* the main loop and to every getline without a file.                      *)
(*                                                                         *)
(* One step is one turn of a loop of the code, or one statement of the     *)
(* program.  Streams are the files named by arguments, the standard input  *)
(* of the process ("stdin") and the file that awk_setinput put in its      *)
(* place ("redir").  A closed stream that is read or closed ends the       *)
(* behaviour with a fault.                                                 *)
(***************************************************************************)
EXTENDS Integers, Sequences, SequencesExt

CONSTANTS Files,     \* arguments that name a file that can be opened,
          Absent,    \* ... a file that cannot,
          Lets,      \* ... assignments
          Records,   \* the number of records of each stream
          ArgLists,  \* ARGV[1..] as the host sets it
          Changes,   \* bounds: what the program puts into ARGV,
          MaxRuns    \* ... runs

Stream == Files \cup {"stdin", "redir"}
NoInput == "null"

ASSUME InputAssumption ==
  /\ Records \in [Stream -> Nat]
  /\ ArgLists \subseteq Seq(Files \cup Absent \cup Lets \cup {"-", ""})
  /\ Changes \subseteq Files \cup Absent \cup Lets \cup {"-", ""}
  /\ {"stdin", "redir", "-", "", "null", "none", "end"} \cap (Files \cup Absent \cup Lets) = {}
  /\ Files \cap Lets = {} /\ Absent \cap (Files \cup Lets) = {}
  /\ MaxRuns \in Nat

VARIABLES argv,      \* ARGV[1..], "" for a deleted element; ARGC is Len(argv) + 1
          argno,
          infile,    \* a stream or NoInput
          slot0,     \* files[0].fp
          at,        \* records read so far of each stream
          shut,      \* streams of slot0 that have been closed
          pc,        \* where the interpreter is
          caller,    \* what getrec returns to
          nr, fnr, filename,
          set,       \* assignments made in this run
          got,       \* what the last getrec of this run delivered
          spoilt,    \* ARGV was changed, or the input closed or not opened again
          runs, fault

inputs == <<infile, at, shut>>
counts == <<nr, fnr, filename>>
vars == <<argv, argno, infile, slot0, at, shut, pc, caller, nr, fnr, filename,
          set, got, spoilt, runs, fault>>

ARGC == Len(argv) + 1
getargv(n) == IF n \in DOMAIN argv THEN argv[n] ELSE ""
isclvar(a) == a \in Lets

Nothing(s) == [from |-> s, rec |-> 0, nr |-> 0, fnr |-> 0]

Init == /\ argv \in ArgLists
        /\ argno = 1 /\ infile = NoInput
        /\ slot0 \in {"stdin", "redir"}
        /\ at = [f \in Stream |-> 0] /\ shut = {}
        /\ pc = "idle" /\ caller = "main"
        /\ nr = 0 /\ fnr = 0 /\ filename = ""
        /\ set = <<>> /\ got = Nothing("none")
        /\ spoilt = FALSE
        /\ runs = 0 /\ fault = "none"

Fault(f) == /\ fault' = f
            /\ UNCHANGED <<argv, argno, slot0, inputs, pc, caller, counts, set, got,
                           spoilt, runs>>

\* Interpreter::run: the file of a redirection is opened again, or cannot be.
Run ==
  /\ pc = "idle" /\ runs < MaxRuns
  /\ \/ slot0 # NoInput /\ UNCHANGED <<slot0, at, shut, spoilt>>
     \/ /\ slot0 = NoInput
        /\ slot0' = "redir" /\ at' = [at EXCEPT !["redir"] = 0]
        /\ shut' = shut \ {"redir"}
        /\ UNCHANGED spoilt
     \/ slot0 = NoInput /\ spoilt' = TRUE /\ UNCHANGED <<slot0, at, shut>>
  /\ nr' = 0 /\ fnr' = 0 /\ filename' = ""
  /\ set' = <<>> /\ got' = Nothing("none")
  /\ argno' = 1 /\ pc' = "init" /\ runs' = runs + 1
  /\ UNCHANGED <<argv, infile, caller, fault>>
-----------------------------------------------------------------------------
(* initgetrec, one argument at a time.                                     *)
InitAt(a) == pc = "init" /\ argno < ARGC /\ getargv(argno) = a

InitSkip ==
  /\ InitAt("")
  /\ argno' = argno + 1
  /\ UNCHANGED <<argv, slot0, inputs, pc, caller, counts, set, got, spoilt, runs, fault>>

InitSet(a) ==
  /\ InitAt(a) /\ isclvar(a)
  /\ set' = Append(set, a)
  /\ argno' = argno + 1
  /\ UNCHANGED <<argv, slot0, inputs, pc, caller, counts, got, spoilt, runs, fault>>

\* The first file is opened without setting FILENAME.
InitOpen(a) ==
  /\ InitAt(a) /\ a \in Files
  /\ infile' = a /\ at' = [at EXCEPT ![a] = 0]
  /\ pc' = "begin"
  /\ UNCHANGED <<argv, argno, slot0, shut, caller, counts, set, got, spoilt, runs, fault>>

\* FATAL; "-" is not known here.
InitFail(a) ==
  /\ InitAt(a) /\ a \in Absent \cup {"-"}
  /\ pc' = "failed"
  /\ UNCHANGED <<argv, argno, slot0, inputs, caller, counts, set, got, spoilt, runs, fault>>

InitStdin ==
  /\ pc = "init" /\ argno >= ARGC
  /\ infile' = slot0
  /\ pc' = "begin"
  /\ UNCHANGED <<argv, argno, slot0, at, shut, caller, counts, set, got, spoilt, runs, fault>>

initgetrec == \/ InitSkip \/ InitStdin
              \/ \E a \in Lets : InitSet(a)
              \/ \E a \in Files : InitOpen(a)
              \/ \E a \in Absent \cup {"-"} : InitFail(a)
-----------------------------------------------------------------------------
\* (Mutant) The standard input is closed like any file.
nextfileAll(p, c) ==
  IF infile \in shut THEN Fault("closed")
  ELSE /\ shut' = IF infile \in {"stdin", "redir"} THEN shut \cup {infile} ELSE shut
       /\ infile' = NoInput
       /\ argno' = argno + 1
       /\ pc' = p /\ caller' = c
       /\ UNCHANGED <<argv, slot0, at, counts, set, got, spoilt, runs, fault>>

\* (Mutant) The argument is not passed over.
nextfileStay(p, c) ==
  IF infile \in shut /\ infile # slot0 THEN Fault("closed")
  ELSE /\ shut' = IF infile \in {"stdin", "redir"} \ {slot0} THEN shut \cup {infile}
                  ELSE shut
       /\ infile' = NoInput
       /\ pc' = p /\ caller' = c
       /\ UNCHANGED <<argv, argno, slot0, at, counts, set, got, spoilt, runs, fault>>

\* nextfile, then continuing at place p with the caller c.
nextfile(p, c) ==
  IF infile \in shut /\ infile # slot0 THEN Fault("closed")
  ELSE /\ shut' = IF infile \in {"stdin", "redir"} \ {slot0} THEN shut \cup {infile}
                  ELSE shut
       /\ infile' = NoInput
       /\ argno' = argno + 1
       /\ pc' = p /\ caller' = c
       /\ UNCHANGED <<argv, slot0, at, counts, set, got, spoilt, runs, fault>>

(* getrec, one turn of its loop at a time.                                 *)
Turn == pc = "get" /\ (argno < ARGC \/ infile = slot0)

GetAt(a) == Turn /\ infile = NoInput /\ getargv(argno) = a

GetSkip ==
  /\ GetAt("")
  /\ argno' = argno + 1
  /\ argno <= ARGC  \* bound on a loop without end
  /\ UNCHANGED <<argv, slot0, inputs, pc, caller, counts, set, got, spoilt, runs, fault>>

GetSet(a) ==
  /\ GetAt(a) /\ isclvar(a)
  /\ set' = Append(set, a)
  /\ argno' = argno + 1
  /\ UNCHANGED <<argv, slot0, inputs, pc, caller, counts, got, spoilt, runs, fault>>

\* (Mutant) FNR goes on counting.
GetOpenKeepFNR(a) ==
  /\ GetAt(a) /\ a \in Files \cup {"-"}
  /\ filename' = a
  /\ infile' = IF a = "-" THEN "stdin" ELSE a
  /\ at' = IF a = "-" THEN at ELSE [at EXCEPT ![a] = 0]
  /\ pc' = "read"
  /\ UNCHANGED <<argv, argno, slot0, shut, caller, nr, fnr, set, got, spoilt, runs, fault>>

\* (Mutant) FILENAME is set for the first file only.
GetOpenNoName(a) ==
  /\ GetAt(a) /\ a \in Files \cup {"-"}
  /\ filename' = IF filename = "" THEN a ELSE filename
  /\ fnr' = 0
  /\ infile' = IF a = "-" THEN "stdin" ELSE a
  /\ at' = IF a = "-" THEN at ELSE [at EXCEPT ![a] = 0]
  /\ pc' = "read"
  /\ UNCHANGED <<argv, argno, slot0, shut, caller, nr, set, got, spoilt, runs, fault>>

GetOpen(a) ==
  /\ GetAt(a) /\ a \in Files \cup {"-"}
  /\ filename' = a /\ fnr' = 0
  /\ infile' = IF a = "-" THEN "stdin" ELSE a
  /\ at' = IF a = "-" THEN at ELSE [at EXCEPT ![a] = 0]
  /\ pc' = "read"
  /\ UNCHANGED <<argv, argno, slot0, shut, caller, nr, set, got, spoilt, runs, fault>>

GetFail(a) ==
  /\ GetAt(a) /\ a \in Absent
  /\ filename' = a
  /\ pc' = "failed"
  /\ UNCHANGED <<argv, argno, slot0, inputs, caller, nr, fnr, set, got, spoilt, runs, fault>>

\* (Mutant) The end of a stream is delivered as one more record.
GetReadPast ==
  /\ pc = "read" \/ Turn
  /\ infile # NoInput
  /\ IF infile \in shut THEN Fault("closed")
     ELSE IF at[infile] > Records[infile] THEN nextfile("get", caller)
     ELSE /\ at' = [at EXCEPT ![infile] = @ + 1]
          /\ nr' = nr + 1 /\ fnr' = fnr + 1
          /\ got' = [from |-> infile, rec |-> at'[infile], nr |-> nr', fnr |-> fnr']
          /\ pc' = IF caller = "main" THEN "body" ELSE caller
          /\ UNCHANGED <<argv, argno, infile, slot0, shut, caller, filename, set,
                         spoilt, runs, fault>>

\* readrec of a stream, which is taken up at once after it has been opened.
GetRead ==
  /\ pc = "read" \/ Turn
  /\ infile # NoInput
  /\ IF infile \in shut THEN Fault("closed")
     ELSE IF at[infile] = Records[infile] THEN nextfile("get", caller)
     ELSE /\ at' = [at EXCEPT ![infile] = @ + 1]
          /\ nr' = nr + 1 /\ fnr' = fnr + 1
          /\ got' = [from |-> infile, rec |-> at'[infile], nr |-> nr', fnr |-> fnr']
          /\ pc' = IF caller = "main" THEN "body" ELSE caller
          /\ UNCHANGED <<argv, argno, infile, slot0, shut, caller, filename, set,
                         spoilt, runs, fault>>

GetEnd ==
  /\ pc = "get" /\ ~Turn
  /\ got' = Nothing("end")
  /\ pc' = IF caller = "main" THEN "END" ELSE caller
  /\ UNCHANGED <<argv, argno, slot0, inputs, caller, counts, set, spoilt, runs, fault>>

getrec == \/ GetSkip \/ GetRead \/ GetEnd
          \/ \E a \in Lets : GetSet(a)
          \/ \E a \in Files \cup {"-"} : GetOpen(a)
          \/ \E a \in Absent : GetFail(a)
-----------------------------------------------------------------------------
(* The program: BEGIN, a body for each record, END.                        *)
Goto(p) == /\ pc' = p
           /\ UNCHANGED <<argv, argno, slot0, inputs, counts, set, got, spoilt,
                          runs, fault>>

\* getline without a file, anywhere.
Getline == pc \in {"begin", "body", "END"} /\ caller' = pc /\ Goto("get")

\* The end of BEGIN, of a body, the next statement.
MainLoop == pc \in {"begin", "body"} /\ caller' = "main" /\ Goto("get")

Exit == pc \in {"begin", "body"} /\ caller' = caller /\ Goto("END")

\* The nextfile statement; outside a body an error follows.
Nextfile == \/ pc = "body" /\ nextfile("get", "main")
            \/ pc \in {"begin", "END"} /\ nextfile("failed", caller)

\* The program changes an element of ARGV.
SetArg ==
  /\ pc \in {"begin", "body", "END"}
  /\ \E i \in DOMAIN argv, a \in Changes : argv' = [argv EXCEPT ![i] = a]
  /\ spoilt' = TRUE
  /\ UNCHANGED <<argno, slot0, inputs, pc, caller, counts, set, got, runs, fault>>

\* close of the name in the slot of the standard input.
CloseInput ==
  /\ pc \in {"begin", "body", "END"} /\ slot0 # NoInput
  /\ IF slot0 \in shut THEN Fault("closed")
     ELSE /\ shut' = shut \cup {slot0} /\ slot0' = NoInput
          /\ spoilt' = TRUE
          /\ UNCHANGED <<argv, argno, infile, at, pc, caller, counts, set, got, runs, fault>>

\* closeall: an input that was redirected is closed, infile is left as it is.
Finish ==
  /\ pc = "END"
  /\ IF slot0 = NoInput THEN Fault("null")
     ELSE /\ slot0' = IF slot0 = "redir" THEN NoInput ELSE slot0
          /\ shut' = shut \cup ({slot0} \ {"stdin"})
          /\ pc' = "idle"
          /\ UNCHANGED <<argv, argno, infile, at, caller, counts, set, got, spoilt, runs, fault>>

Program == Getline \/ MainLoop \/ Exit \/ Nextfile \/ SetArg \/ CloseInput \/ Finish

Next == fault = "none" /\ (Run \/ initgetrec \/ getrec \/ Program)

Spec == Init /\ [][Next]_vars
=============================================================================
