--------------------------- MODULE MainInputProofs ---------------------------
(***************************************************************************)
(* The types of the main input, FILENAME, the use of closed streams, and   *)
(* what a program may expect of its input (RecordSource), for any files,   *)
(* any arguments and any number of runs.                                   *)
(***************************************************************************)
EXTENDS MainInputProps, SequenceTheorems, WellFoundedInduction, TLAPS

Arguments == Files \cup Absent \cup Lets \cup {"-", ""}

\* The assumptions, one by one.
LEMMA Names ==
  /\ "stdin" \notin Files /\ "redir" \notin Files /\ NoInput \notin Stream
  /\ "none" \notin Files /\ "end" \notin Files
  /\ Absent \cap Files = {} /\ "-" \notin Files /\ "-" \notin Lets /\ "-" \notin Absent
BY InputAssumption DEF Stream, NoInput

LEMMA RecordsTyped == \A f \in Stream : Records[f] \in Nat /\ 0 \in Nat /\ 0 <= Records[f]
<1>1. \A f \in Stream : Records[f] \in Nat
  BY InputAssumption
<1>2. \A n \in Nat : 0 \in Nat /\ 0 <= n
  OBVIOUS
<1> QED
  BY <1>1, <1>2

LEMMA ArgumentsTyped == ArgLists \subseteq Seq(Arguments) /\ Changes \subseteq Arguments
BY InputAssumption DEF Arguments

LEMMA Streams == Files \subseteq Stream /\ "stdin" \in Stream /\ "redir" \in Stream
BY DEF Stream
-----------------------------------------------------------------------------
(* Types, in four parts.                                                   *)
ReadOK  == at \in [Stream -> Nat] /\ \A f \in Stream : at[f] <= Records[f]
ArgvOK  == argv \in Seq(Arguments)
SetOK   == set \in Seq(Lets)
PlaceOK == /\ pc \in {"idle", "init", "begin", "get", "read", "body", "END", "failed"}
           /\ caller \in {"main", "begin", "body", "END"}
           /\ fault \in {"none", "null", "closed"}
CountOK == /\ argno \in Nat /\ nr \in Nat /\ fnr \in Nat /\ runs \in Nat
           /\ spoilt \in BOOLEAN
InputOK == /\ infile \in Stream \cup {NoInput} /\ slot0 \in {"stdin", "redir", NoInput}
           /\ shut \subseteq {"stdin", "redir"}
           /\ filename \in Files \cup Absent \cup {"-", ""}

Typed == ReadOK /\ ArgvOK /\ SetOK /\ PlaceOK /\ CountOK /\ InputOK

LEMMA TypedIsTypeOK == Typed <=> TypeOK
BY Zenon DEF Typed, TypeOK, ReadOK, ArgvOK, SetOK, PlaceOK, CountOK, InputOK, Arguments

\* Opening a stream again and reading a record keep what was read in bounds.
LEMMA ReadFrom ==
  ASSUME ReadOK, NEW s \in Stream, NEW k \in Nat, k <= Records[s],
         at' = [at EXCEPT ![s] = k]
  PROVE  ReadOK'
BY RecordsTyped DEF ReadOK

LEMMA ReadAgain ==
  ASSUME ReadOK, NEW s \in Stream, at' = [at EXCEPT ![s] = 0]
  PROVE  ReadOK'
BY ReadFrom, RecordsTyped

LEMMA SetLonger ==
  ASSUME SetOK, NEW a \in Lets, set' = Append(set, a)
  PROVE  SetOK'
BY AppendProperties DEF SetOK

LEMMA SameRead == ReadOK /\ UNCHANGED at => ReadOK'
BY DEF ReadOK
LEMMA SameArgv == ArgvOK /\ UNCHANGED argv => ArgvOK'
BY DEF ArgvOK
LEMMA SameSet == SetOK /\ UNCHANGED set => SetOK'
BY DEF SetOK
LEMMA SameCount == CountOK /\ UNCHANGED <<argno, nr, fnr, runs, spoilt>> => CountOK'
BY DEF CountOK
LEMMA SameInput == InputOK /\ UNCHANGED <<infile, slot0, shut, filename>> => InputOK'
BY DEF InputOK

LEMMA FaultTyped ==
  ASSUME Typed, NEW f \in {"null", "closed"}, Fault(f)
  PROVE  Typed'
<1>1. PlaceOK'
  BY DEF Typed, Fault, PlaceOK
<1> QED
  BY <1>1, SameRead, SameArgv, SameSet, SameCount, SameInput DEF Typed, Fault, inputs, counts

LEMMA NextfileTyped ==
  ASSUME Typed, NEW p \in {"get", "failed"}, NEW c \in {"main", "begin", "body", "END"},
         nextfile(p, c)
  PROVE  Typed'
<1>1. CASE infile \in shut /\ infile # slot0
  BY <1>1, FaultTyped DEF nextfile
<1>2. CASE ~(infile \in shut /\ infile # slot0)
  <2>1. /\ shut' = IF infile \in {"stdin", "redir"} \ {slot0} THEN shut \cup {infile} ELSE shut
        /\ infile' = NoInput /\ argno' = argno + 1 /\ pc' = p /\ caller' = c
        /\ UNCHANGED <<argv, slot0, at, counts, set, got, spoilt, runs, fault>>
    BY <1>2 DEF nextfile
  <2>2. InputOK'
    BY <2>1 DEF Typed, InputOK, counts
  <2>3. CountOK' /\ PlaceOK'
    BY <2>1 DEF Typed, CountOK, PlaceOK, counts
  <2> QED
    BY <2>1, <2>2, <2>3, SameRead, SameArgv, SameSet DEF Typed
<1> QED
  BY <1>1, <1>2

LEMMA RunTyped == Typed /\ Run => Typed'
<1> SUFFICES ASSUME Typed, Run PROVE Typed'
  OBVIOUS
<1>1. \/ UNCHANGED at
      \/ at' = [at EXCEPT !["redir"] = 0]
  BY DEF Run
<1>2. ReadOK'
  BY <1>1, SameRead, ReadAgain, Streams DEF Typed
<1>3. set' = <<>> /\ UNCHANGED argv
  BY DEF Run
<1>4. SetOK' /\ ArgvOK'
  BY <1>3, EmptySeq, SameArgv DEF Typed, SetOK
<1>5. PlaceOK'
  BY DEF Run, Typed, PlaceOK
<1>7. CountOK'
  <2>1. argno' = 1 /\ nr' = 0 /\ fnr' = 0 /\ runs' = runs + 1
    BY DEF Run
  <2>2. UNCHANGED spoilt \/ spoilt' = TRUE
    BY DEF Run
  <2>3. CountOK
    BY DEF Typed
  <2>4. argno' \in Nat /\ nr' \in Nat /\ fnr' \in Nat /\ runs' \in Nat
    BY <2>1, <2>3 DEF CountOK
  <2>5. spoilt' \in BOOLEAN
    BY <2>2, <2>3, Zenon DEF CountOK
  <2> QED
    BY <2>4, <2>5 DEF CountOK
<1>6. InputOK'
  BY DEF Run, Typed, InputOK
<1> QED
  BY <1>2, <1>4, <1>5, <1>6, <1>7 DEF Typed

LEMMA InitgetrecTyped == Typed /\ initgetrec => Typed'
<1> SUFFICES ASSUME Typed, initgetrec PROVE Typed'
  OBVIOUS
<1>1. CASE InitSkip \/ InitStdin
  <2>1. argno' \in {argno, argno + 1} /\ UNCHANGED <<nr, fnr, runs, spoilt>>
    BY <1>1 DEF InitSkip, InitStdin, counts
  <2>3. CountOK'
    BY <2>1 DEF Typed, CountOK
  <2>4. PlaceOK'
    BY <1>1 DEF InitSkip, InitStdin, Typed, PlaceOK
  <2>2. InputOK'
    BY <1>1, Streams DEF InitSkip, InitStdin, Typed, InputOK, counts, inputs
  <2> QED
    BY <1>1, <2>2, <2>3, <2>4, SameRead, SameArgv, SameSet DEF InitSkip, InitStdin, Typed, inputs
<1>2. ASSUME NEW a \in Lets, InitSet(a) PROVE Typed'
  <2>1. CountOK' /\ PlaceOK'
    BY <1>2 DEF InitSet, InitAt, Typed, CountOK, PlaceOK, counts
  <2>2. set' = Append(set, a) /\ UNCHANGED <<argv, at, infile, slot0, shut, filename>>
    BY <1>2 DEF InitSet, inputs, counts
  <2> QED
    BY <2>1, <2>2, SetLonger, SameRead, SameArgv, SameInput DEF Typed
<1>3. ASSUME NEW a \in Files, InitOpen(a) PROVE Typed'
  <2>1. CountOK' /\ PlaceOK'
    BY <1>3 DEF InitOpen, Typed, CountOK, PlaceOK, counts
  <2>2. InputOK'
    BY <1>3, Streams DEF InitOpen, Typed, InputOK, counts
  <2>3. ReadOK'
    BY <1>3, ReadAgain, Streams DEF InitOpen, Typed
  <2> QED
    BY <1>3, <2>1, <2>2, <2>3, SameArgv, SameSet DEF InitOpen, Typed
<1>4. ASSUME NEW a \in Absent \cup {"-"}, InitFail(a) PROVE Typed'
  <2>1. PlaceOK'
    BY <1>4 DEF InitFail, Typed, PlaceOK
  <2> QED
    BY <1>4, <2>1, SameRead, SameArgv, SameSet, SameCount, SameInput
    DEF InitFail, Typed, inputs, counts
<1> QED
  BY <1>1, <1>2, <1>3, <1>4 DEF initgetrec

LEMMA GetReadTyped == Typed /\ GetRead => Typed'
<1> SUFFICES ASSUME Typed, GetRead PROVE Typed'
  OBVIOUS
<1>1. infile \in Stream
  BY DEF GetRead, Typed, InputOK
<1>2. CASE infile \in shut
  BY <1>2, FaultTyped DEF GetRead
<1>3. CASE infile \notin shut /\ at[infile] = Records[infile]
  BY <1>3, NextfileTyped DEF GetRead, Typed, PlaceOK
<1>4. CASE infile \notin shut /\ at[infile] # Records[infile]
  <2>1. /\ at' = [at EXCEPT ![infile] = @ + 1]
        /\ nr' = nr + 1 /\ fnr' = fnr + 1
        /\ pc' = IF caller = "main" THEN "body" ELSE caller
        /\ UNCHANGED <<argv, argno, infile, slot0, shut, caller, filename, set,
                       spoilt, runs, fault>>
    BY <1>4 DEF GetRead
  <2>2. at[infile] + 1 \in Nat /\ at[infile] + 1 <= Records[infile]
    BY <1>1, <1>4, RecordsTyped DEF Typed, ReadOK
  <2>3. ReadOK'
    BY <1>1, <2>1, <2>2, ReadFrom DEF Typed
  <2>4. CountOK' /\ PlaceOK'
    BY <2>1 DEF Typed, CountOK, PlaceOK
  <2> QED
    BY <2>1, <2>3, <2>4, SameArgv, SameSet, SameInput DEF Typed
<1> QED
  BY <1>2, <1>3, <1>4

LEMMA GetrecTyped == Typed /\ getrec => Typed'
<1> SUFFICES ASSUME Typed, getrec PROVE Typed'
  OBVIOUS
<1>1. CASE GetSkip \/ GetEnd
  <2>1. argno' \in {argno, argno + 1} /\ UNCHANGED <<nr, fnr, runs, spoilt>>
    BY <1>1 DEF GetSkip, GetEnd, counts
  <2>2. CountOK'
    BY <2>1 DEF Typed, CountOK
  <2>3. PlaceOK'
    BY <1>1 DEF GetSkip, GetEnd, Typed, PlaceOK
  <2> QED
    BY <1>1, <2>2, <2>3, SameRead, SameArgv, SameSet, SameInput
    DEF GetSkip, GetEnd, Typed, inputs, counts
<1>2. ASSUME NEW a \in Lets, GetSet(a) PROVE Typed'
  <2>1. CountOK' /\ PlaceOK'
    BY <1>2 DEF GetSet, Typed, CountOK, PlaceOK, counts
  <2>2. set' = Append(set, a) /\ UNCHANGED <<argv, at, infile, slot0, shut, filename>>
    BY <1>2 DEF GetSet, inputs, counts
  <2> QED
    BY <2>1, <2>2, SetLonger, SameRead, SameArgv, SameInput DEF Typed
<1>3. ASSUME NEW a \in Files \cup {"-"}, GetOpen(a) PROVE Typed'
  <2>1. CountOK' /\ PlaceOK'
    BY <1>3 DEF GetOpen, Typed, CountOK, PlaceOK
  <2>2. InputOK'
    BY <1>3, Streams, Names DEF GetOpen, Typed, InputOK
  <2>3. CASE a = "-"
    BY <1>3, <2>1, <2>2, <2>3, SameRead, SameArgv, SameSet DEF GetOpen, Typed
  <2>4. CASE a # "-"
    <3>1. a \in Stream /\ at' = [at EXCEPT ![a] = 0]
      BY <1>3, <2>4, Streams DEF GetOpen
    <3>2. ReadOK'
      BY <3>1, ReadAgain DEF Typed
    <3> QED
      BY <1>3, <2>1, <2>2, <3>2, SameArgv, SameSet DEF GetOpen, Typed
  <2> QED
    BY <2>3, <2>4
<1>4. ASSUME NEW a \in Absent, GetFail(a) PROVE Typed'
  <2>1. CountOK' /\ PlaceOK'
    BY <1>4 DEF GetFail, Typed, CountOK, PlaceOK
  <2>2. InputOK'
    BY <1>4 DEF GetFail, Typed, InputOK, inputs
  <2> QED
    BY <1>4, <2>1, <2>2, SameRead, SameArgv, SameSet DEF GetFail, Typed, inputs
<1> QED
  BY <1>1, <1>2, <1>3, <1>4, GetReadTyped DEF getrec

LEMMA ProgramTyped == Typed /\ Program => Typed'
<1> SUFFICES ASSUME Typed, Program PROVE Typed'
  OBVIOUS
<1>1. CASE Getline \/ MainLoop \/ Exit
  <2>1. PlaceOK'
    BY <1>1 DEF Getline, MainLoop, Exit, Goto, Typed, PlaceOK
  <2>2. UNCHANGED <<argv, argno, slot0, inputs, counts, set, got, spoilt, runs, fault>>
    BY <1>1 DEF Getline, MainLoop, Exit, Goto
  <2> QED
    BY <2>1, <2>2, SameRead, SameArgv, SameSet, SameCount, SameInput DEF Typed, inputs, counts
<1>2. CASE Nextfile
  BY <1>2, NextfileTyped DEF Nextfile, Typed, PlaceOK
<1>3. CASE SetArg
  <2>1. PICK i \in DOMAIN argv, a \in Changes : argv' = [argv EXCEPT ![i] = a]
    BY <1>3 DEF SetArg
  <2>2. argv \in Seq(Arguments) /\ a \in Arguments
    BY ArgumentsTyped DEF Typed, ArgvOK
  <2>3. i \in 1..Len(argv)
    BY <2>2, LenProperties
  <2>4. ArgvOK'
    BY <2>1, <2>2, <2>3, ExceptSeq DEF ArgvOK
  <2>5. CountOK' /\ PlaceOK'
    BY <1>3 DEF SetArg, Typed, CountOK, PlaceOK, counts
  <2> QED
    BY <1>3, <2>4, <2>5, SameRead, SameSet, SameInput DEF SetArg, Typed, inputs, counts
<1>4. CASE CloseInput
  <2>1. CASE slot0 \in shut
    BY <1>4, <2>1, FaultTyped DEF CloseInput
  <2>2. CASE slot0 \notin shut
    <3>1. CountOK' /\ PlaceOK'
      BY <1>4, <2>2 DEF CloseInput, Typed, CountOK, PlaceOK, counts
    <3>2. InputOK'
      BY <1>4, <2>2 DEF CloseInput, Typed, InputOK, counts
    <3> QED
      BY <1>4, <2>2, <3>1, <3>2, SameRead, SameArgv, SameSet DEF CloseInput, Typed
  <2> QED
    BY <2>1, <2>2
<1>5. CASE Finish
  <2>1. CASE slot0 = NoInput
    BY <1>5, <2>1, FaultTyped DEF Finish
  <2>2. CASE slot0 # NoInput
    <3>1. CountOK' /\ PlaceOK'
      BY <1>5, <2>2 DEF Finish, Typed, CountOK, PlaceOK, counts
    <3>2. InputOK'
      BY <1>5, <2>2 DEF Finish, Typed, InputOK, counts
    <3> QED
      BY <1>5, <2>2, <3>1, <3>2, SameRead, SameArgv, SameSet DEF Finish, Typed
  <2> QED
    BY <2>1, <2>2
<1> QED
  BY <1>1, <1>2, <1>3, <1>4, <1>5 DEF Program

LEMMA SpecTyped == Spec => []Typed
<1>1. Init => Typed
  <2> SUFFICES ASSUME Init PROVE Typed
    OBVIOUS
  <2>1. ReadOK
    <3>1. at = [f \in Stream |-> 0]
      BY DEF Init
    <3> QED
      BY <3>1, RecordsTyped DEF ReadOK
  <2>2. ArgvOK /\ SetOK
    BY ArgumentsTyped, EmptySeq DEF Init, ArgvOK, SetOK
  <2>3. PlaceOK /\ CountOK /\ InputOK
    BY DEF Init, PlaceOK, CountOK, InputOK
  <2> QED
    BY <2>1, <2>2, <2>3 DEF Typed
<1>2. Typed /\ [Next]_vars => Typed'
  <2> SUFFICES ASSUME Typed, [Next]_vars PROVE Typed'
    OBVIOUS
  <2>1. CASE UNCHANGED vars
    <3>1. PlaceOK'
      BY <2>1 DEF vars, Typed, PlaceOK
    <3> QED
      BY <2>1, <3>1, SameRead, SameArgv, SameSet, SameCount, SameInput DEF vars, Typed
  <2> QED
    BY <2>1, RunTyped, InitgetrecTyped, GetrecTyped, ProgramTyped DEF Next
<1> QED
  BY <1>1, <1>2, PTL DEF Spec

\* The types of initgetrec, getrec and nextfile, for any files and arguments;
\* no stream is read past its last record.
THEOREM InputTypeOK == Spec => []TypeOK
BY SpecTyped, TypedIsTypeOK, PTL
-----------------------------------------------------------------------------
(* FILENAME.  initgetrec opens the first file when neither FILENAME nor FNR *)
(* has been touched; from there on both go with the files.                  *)
FirstOK == pc = "init" => filename = "" /\ nr = fnr
NamedOK == infile \in Files => filename = infile \/ (filename = "" /\ nr = fnr)

FileOK == FirstOK /\ NamedOK /\ NamesFile

\* A step that delivers nothing and leaves the file alone.
LEMMA SameFile ==
  ASSUME FileOK, UNCHANGED <<infile, filename, nr, fnr, got>>,
         pc' = "init" => pc = "init", pc' = "body" => pc = "body"
  PROVE  FileOK'
<1>1. FirstOK' /\ NamedOK'
  BY DEF FileOK, FirstOK, NamedOK
<1>2. NamesFile'
  BY DEF FileOK, NamesFile
<1> QED
  BY <1>1, <1>2 DEF FileOK

\* A step to another place, with no file of the arguments open after it.
LEMMA NoFile ==
  ASSUME infile' \notin Files, pc' \notin {"init", "body"}
  PROVE  FileOK'
BY DEF FileOK, FirstOK, NamedOK, NamesFile

LEMMA FaultFile == \A f : FileOK /\ Fault(f) => FileOK'
BY SameFile DEF Fault, inputs, counts

LEMMA NextfileFile ==
  ASSUME FileOK, NEW p \in {"get", "failed"}, NEW c, nextfile(p, c)
  PROVE  FileOK'
<1>1. CASE infile \in shut /\ infile # slot0
  BY <1>1, FaultFile DEF nextfile
<1>2. CASE ~(infile \in shut /\ infile # slot0)
  <2>1. infile' = NoInput /\ pc' = p
    BY <1>2 DEF nextfile
  <2> QED
    BY <2>1, NoFile, Names, Streams
<1> QED
  BY <1>1, <1>2

LEMMA InitgetrecFile == Typed /\ FileOK /\ initgetrec => FileOK'
<1> SUFFICES ASSUME Typed, FileOK, initgetrec PROVE FileOK'
  OBVIOUS
<1>1. CASE InitSkip \/ \E a \in Lets : InitSet(a)
  BY <1>1, SameFile DEF InitSkip, InitSet, InitAt, inputs, counts
<1>2. CASE \E a \in Absent \cup {"-"} : InitFail(a)
  BY <1>2, SameFile DEF InitFail, inputs, counts
<1>3. ASSUME NEW a \in Files, InitOpen(a) PROVE FileOK'
  <2>1. /\ pc = "init" /\ pc' = "begin" /\ infile' = a
        /\ UNCHANGED <<nr, fnr, filename>>
    BY <1>3 DEF InitOpen, InitAt, counts
  <2>2. filename = "" /\ nr = fnr
    BY <2>1 DEF FileOK, FirstOK
  <2>3. FirstOK' /\ NamesFile'
    BY <2>1 DEF FirstOK, NamesFile
  <2>4. NamedOK'
    BY <2>1, <2>2 DEF NamedOK
  <2> QED
    BY <2>3, <2>4 DEF FileOK
<1>4. CASE InitStdin
  <2>1. infile' = slot0 /\ pc' = "begin"
    BY <1>4 DEF InitStdin
  <2>2. slot0 \notin Files
    BY Names, Streams DEF Typed, InputOK
  <2> QED
    BY <2>1, <2>2, NoFile
<1> QED
  BY <1>1, <1>2, <1>3, <1>4 DEF initgetrec

LEMMA GetReadFile == Typed /\ FileOK /\ GetRead => FileOK'
<1> SUFFICES ASSUME Typed, FileOK, GetRead PROVE FileOK'
  OBVIOUS
<1>1. CASE infile \in shut
  BY <1>1, FaultFile DEF GetRead
<1>2. CASE infile \notin shut /\ at[infile] = Records[infile]
  BY <1>2, NextfileFile DEF GetRead
<1>3. CASE infile \notin shut /\ at[infile] # Records[infile]
  <2>1. /\ nr' = nr + 1 /\ fnr' = fnr + 1
        /\ got' = [from |-> infile, rec |-> at'[infile], nr |-> nr', fnr |-> fnr']
        /\ pc' = (IF caller = "main" THEN "body" ELSE caller)
        /\ UNCHANGED <<infile, filename>>
    BY <1>3 DEF GetRead
  <2>2. pc' # "init"
    BY <2>1 DEF Typed, PlaceOK
  <2>3. FirstOK'
    BY <2>2 DEF FirstOK
  <2>4. NamedOK'
    BY <2>1 DEF FileOK, NamedOK
  <2>5. got'.from = infile /\ got'.nr = nr' /\ got'.fnr = fnr'
    BY <2>1
  <2>6. NamesFile'
    BY <2>1, <2>4, <2>5 DEF NamedOK, NamesFile
  <2> QED
    BY <2>3, <2>4, <2>6 DEF FileOK
<1> QED
  BY <1>1, <1>2, <1>3

LEMMA GetrecFile == Typed /\ FileOK /\ getrec => FileOK'
<1> SUFFICES ASSUME Typed, FileOK, getrec PROVE FileOK'
  OBVIOUS
<1>1. CASE GetSkip \/ \E a \in Lets : GetSet(a)
  BY <1>1, SameFile DEF GetSkip, GetSet, inputs, counts
<1>2. ASSUME NEW a \in Files \cup {"-"}, GetOpen(a) PROVE FileOK'
  <2>1. /\ filename' = a /\ infile' = (IF a = "-" THEN "stdin" ELSE a)
        /\ pc' = "read"
    BY <1>2 DEF GetOpen
  <2>2. FirstOK' /\ NamesFile'
    BY <2>1 DEF FirstOK, NamesFile
  <2>3. NamedOK'
    BY <2>1, Names DEF NamedOK
  <2> QED
    BY <2>2, <2>3 DEF FileOK
<1>3. ASSUME NEW a \in Absent, GetFail(a) PROVE FileOK'
  <2>1. infile' = NoInput /\ pc' = "failed"
    BY <1>3 DEF GetFail, GetAt, inputs
  <2> QED
    BY <2>1, NoFile, Names, Streams
<1>4. CASE GetEnd
  <2>1. /\ got' = Nothing("end") /\ pc' = (IF caller = "main" THEN "END" ELSE caller)
        /\ UNCHANGED <<infile, nr, fnr, filename>>
    BY <1>4 DEF GetEnd, inputs, counts
  <2>2. pc' # "init"
    BY <2>1 DEF Typed, PlaceOK
  <2>3. FirstOK'
    BY <2>2 DEF FirstOK
  <2>4. NamedOK'
    BY <2>1 DEF FileOK, NamedOK
  <2>5. NamesFile'
    BY <2>1, Names DEF NamesFile, Nothing
  <2> QED
    BY <2>3, <2>4, <2>5 DEF FileOK
<1> QED
  BY <1>1, <1>2, <1>3, <1>4, GetReadFile DEF getrec

LEMMA ProgramFile == FileOK /\ Program => FileOK'
<1> SUFFICES ASSUME FileOK, Program PROVE FileOK'
  OBVIOUS
<1>1. CASE Getline \/ MainLoop \/ Exit
  BY <1>1, SameFile DEF Getline, MainLoop, Exit, Goto, inputs, counts
<1>2. CASE Nextfile
  BY <1>2, NextfileFile DEF Nextfile
<1>3. CASE SetArg
  BY <1>3, SameFile DEF SetArg, inputs, counts
<1>4. CASE CloseInput
  <2>1. CASE slot0 \in shut
    BY <1>4, <2>1, FaultFile DEF CloseInput
  <2>2. CASE slot0 \notin shut
    BY <1>4, <2>2, SameFile DEF CloseInput, counts
  <2> QED
    BY <2>1, <2>2
<1>5. CASE Finish
  <2>1. CASE slot0 = NoInput
    BY <1>5, <2>1, FaultFile DEF Finish
  <2>2. CASE slot0 # NoInput
    BY <1>5, <2>2, SameFile DEF Finish, counts
  <2> QED
    BY <2>1, <2>2
<1> QED
  BY <1>1, <1>2, <1>3, <1>4, <1>5 DEF Program

LEMMA RunFile == Run => FileOK'
<1> SUFFICES ASSUME Run PROVE FileOK'
  OBVIOUS
<1>1. nr' = 0 /\ fnr' = 0 /\ filename' = "" /\ pc' = "init"
  BY DEF Run
<1> QED
  BY <1>1 DEF FileOK, FirstOK, NamedOK, NamesFile

\* getrec and initgetrec: FILENAME is the file of the record at hand, but for
\* the records of the first file, through any getline, nextfile and change of
\* ARGV.
THEOREM RecordsNamed == Spec => []NamesFile
<1>1. Init => FileOK
  <2> SUFFICES ASSUME Init PROVE FileOK
    OBVIOUS
  <2>1. pc = "idle" /\ infile = NoInput
    BY DEF Init
  <2> QED
    BY <2>1, Names, Streams DEF FileOK, FirstOK, NamedOK, NamesFile
<1>2. Typed /\ FileOK /\ [Next]_vars => FileOK'
  <2> SUFFICES ASSUME Typed, FileOK, [Next]_vars PROVE FileOK'
    OBVIOUS
  <2>1. CASE UNCHANGED vars
    BY <2>1, SameFile DEF vars
  <2> QED
    BY <2>1, RunFile, InitgetrecFile, GetrecFile, ProgramFile DEF Next
<1>3. FileOK => NamesFile
  BY DEF FileOK
<1> QED
  BY <1>1, <1>2, <1>3, SpecTyped, PTL DEF Spec
-----------------------------------------------------------------------------
(* Closed streams.  Unless the program spoils its input, slot 0 is without  *)
(* a stream only between runs, the standard input is never closed, and the  *)
(* file of a redirection is closed by closeall only: nextfile closes the    *)
(* stream that is not in slot 0, and only "-" brings one up.                *)
Dash == \E i \in DOMAIN argv : argv[i] = "-"

EmptySlotOK == slot0 = NoInput =>
                 pc = "idle" /\ (~Dash => shut \subseteq {"redir"} /\ infile # "stdin")
StdinSlotOK == slot0 = "stdin" => shut = {} /\ infile # "redir"
RedirSlotOK == slot0 = "redir" /\ ~Dash => shut = {} /\ infile # "stdin"

ClosedOK == ~spoilt => EmptySlotOK /\ StdinSlotOK /\ RedirSlotOK

StreamOK == ClosedOK /\ ClosedOnlyBy

\* A stream that is used after it was closed.
LEMMA FaultStream ==
  ASSUME Typed, StreamOK, NEW f, Fault(f),
         spoilt \/ (slot0 = NoInput /\ pc # "idle") \/ \E s : s \in shut /\ slot0 # NoInput
  PROVE  StreamOK'
<1>1. UNCHANGED <<argv, slot0, infile, shut, pc, spoilt>>
  BY DEF Fault, inputs
<1>2. ClosedOK'
  BY <1>1 DEF StreamOK, ClosedOK, EmptySlotOK, StdinSlotOK, RedirSlotOK, Dash
<1>3. slot0 \in {"stdin", "redir", NoInput}
  BY DEF Typed, InputOK
<1>4. spoilt \/ (slot0 = "redir" /\ Dash)
  BY <1>3 DEF StreamOK, ClosedOK, EmptySlotOK, StdinSlotOK, RedirSlotOK
<1>5. ClosedOnlyBy'
  BY <1>1, <1>4 DEF ClosedOnlyBy, Dash
<1> QED
  BY <1>2, <1>5 DEF StreamOK

\* A step that leaves the streams alone.
LEMMA SameStream ==
  ASSUME StreamOK, UNCHANGED <<argv, slot0, infile, shut, spoilt, fault>>,
         pc = "idle" => pc' = "idle"
  PROVE  StreamOK'
<1>1. ClosedOK'
  BY DEF StreamOK, ClosedOK, EmptySlotOK, StdinSlotOK, RedirSlotOK, Dash
<1>2. ClosedOnlyBy'
  BY DEF StreamOK, ClosedOnlyBy
<1> QED
  BY <1>1, <1>2 DEF StreamOK

\* A step to another stream, or to none.
LEMMA OtherStream ==
  ASSUME StreamOK, UNCHANGED <<argv, slot0, shut, spoilt, fault>>, pc # "idle",
         infile' = "redir" => slot0 # "stdin",
         infile' = "stdin" => slot0 = "stdin" \/ Dash
  PROVE  StreamOK'
<1>1. ClosedOK'
  BY DEF StreamOK, ClosedOK, EmptySlotOK, StdinSlotOK, RedirSlotOK, Dash
<1>2. ClosedOnlyBy'
  BY DEF StreamOK, ClosedOnlyBy
<1> QED
  BY <1>1, <1>2 DEF StreamOK

\* A program that spoils its input is owed nothing.
LEMMA SpoiltStream ==
  ASSUME spoilt'
  PROVE  StreamOK'
BY DEF StreamOK, ClosedOK, ClosedOnlyBy

LEMMA NextfileStream ==
  ASSUME Typed, StreamOK, fault = "none", pc # "idle", NEW p, NEW c, nextfile(p, c)
  PROVE  StreamOK'
<1>1. slot0 \in {"stdin", "redir", NoInput}
  BY DEF Typed, InputOK
<1>2. CASE infile \in shut /\ infile # slot0
  BY <1>2, FaultStream DEF nextfile
<1>3. CASE ~(infile \in shut /\ infile # slot0)
  <2>1. /\ shut' = IF infile \in {"stdin", "redir"} \ {slot0} THEN shut \cup {infile} ELSE shut
        /\ infile' = NoInput
        /\ UNCHANGED <<argv, slot0, spoilt, fault>>
    BY <1>3 DEF nextfile
  <2>2. NoInput # "stdin" /\ NoInput # "redir"
    BY DEF NoInput
  <2>3. ClosedOK'
    BY <1>1, <2>1, <2>2 DEF StreamOK, ClosedOK, EmptySlotOK, StdinSlotOK, RedirSlotOK, Dash
  <2>4. ClosedOnlyBy'
    BY <2>1 DEF ClosedOnlyBy
  <2> QED
    BY <2>3, <2>4 DEF StreamOK
<1> QED
  BY <1>2, <1>3

LEMMA InitgetrecStream == Typed /\ StreamOK /\ initgetrec => StreamOK'
<1> SUFFICES ASSUME Typed, StreamOK, initgetrec PROVE StreamOK'
  OBVIOUS
<1>1. CASE InitSkip \/ \E a \in Lets : InitSet(a)
  BY <1>1, SameStream DEF InitSkip, InitSet, InitAt, inputs
<1>2. CASE \E a \in Absent \cup {"-"} : InitFail(a)
  BY <1>2, SameStream DEF InitFail, InitAt, inputs
<1>3. ASSUME NEW a \in Files, InitOpen(a) PROVE StreamOK'
  <2>1. infile' = a /\ pc = "init" /\ UNCHANGED <<argv, slot0, shut, spoilt, fault>>
    BY <1>3 DEF InitOpen, InitAt
  <2> QED
    BY <2>1, OtherStream, Names
<1>4. CASE InitStdin
  <2>1. infile' = slot0 /\ pc = "init" /\ UNCHANGED <<argv, slot0, shut, spoilt, fault>>
    BY <1>4 DEF InitStdin
  <2> QED
    BY <2>1, OtherStream
<1> QED
  BY <1>1, <1>2, <1>3, <1>4 DEF initgetrec

LEMMA GetReadStream == Typed /\ StreamOK /\ fault = "none" /\ GetRead => StreamOK'
<1> SUFFICES ASSUME Typed, StreamOK, fault = "none", GetRead PROVE StreamOK'
  OBVIOUS
<1>1. pc # "idle"
  BY DEF GetRead, Turn
<1>2. CASE infile \in shut
  <2>1. Fault("closed")
    BY <1>2 DEF GetRead
  <2> QED
    BY <1>1, <1>2, <2>1, FaultStream
<1>3. CASE infile \notin shut /\ at[infile] = Records[infile]
  BY <1>1, <1>3, NextfileStream DEF GetRead
<1>4. CASE infile \notin shut /\ at[infile] # Records[infile]
  BY <1>1, <1>4, SameStream DEF GetRead
<1> QED
  BY <1>2, <1>3, <1>4

LEMMA GetrecStream == Typed /\ StreamOK /\ fault = "none" /\ getrec => StreamOK'
<1> SUFFICES ASSUME Typed, StreamOK, fault = "none", getrec PROVE StreamOK'
  OBVIOUS
<1>1. CASE GetSkip \/ GetEnd \/ \E a \in Lets : GetSet(a)
  BY <1>1, SameStream DEF GetSkip, GetEnd, GetSet, GetAt, Turn, inputs
<1>2. ASSUME NEW a \in Absent, GetFail(a) PROVE StreamOK'
  BY <1>2, SameStream DEF GetFail, GetAt, Turn, inputs
<1>3. ASSUME NEW a \in Files \cup {"-"}, GetOpen(a) PROVE StreamOK'
  <2>1. /\ infile' = (IF a = "-" THEN "stdin" ELSE a)
        /\ pc = "get" /\ getargv(argno) = a
        /\ UNCHANGED <<argv, slot0, shut, spoilt, fault>>
    BY <1>3 DEF GetOpen, GetAt, Turn
  <2>2. infile' # "redir"
    BY <2>1, Names
  <2>3. infile' = "stdin" => Dash
    <3> SUFFICES ASSUME infile' = "stdin" PROVE Dash
      OBVIOUS
    <3>1. getargv(argno) = "-"
      BY <2>1, Names
    <3> QED
      BY <3>1 DEF getargv, Dash
  <2> QED
    BY <2>1, <2>2, <2>3, OtherStream
<1> QED
  BY <1>1, <1>2, <1>3, GetReadStream DEF getrec

LEMMA ProgramStream == Typed /\ StreamOK /\ fault = "none" /\ Program => StreamOK'
<1> SUFFICES ASSUME Typed, StreamOK, fault = "none", Program PROVE StreamOK'
  OBVIOUS
<1>1. CASE Getline \/ MainLoop \/ Exit
  BY <1>1, SameStream DEF Getline, MainLoop, Exit, Goto, inputs
<1>2. CASE Nextfile
  BY <1>2, NextfileStream DEF Nextfile
<1>3. CASE SetArg
  BY <1>3, SpoiltStream DEF SetArg
<1>4. CASE CloseInput
  <2>1. CASE slot0 \in shut
    BY <1>4, <2>1, FaultStream DEF CloseInput
  <2>2. CASE slot0 \notin shut
    BY <1>4, <2>2, SpoiltStream DEF CloseInput
  <2> QED
    BY <2>1, <2>2
<1>5. CASE Finish
  <2>1. pc = "END"
    BY <1>5 DEF Finish
  <2>2. CASE slot0 = NoInput
    BY <1>5, <2>1, <2>2, FaultStream DEF Finish
  <2>3. CASE slot0 # NoInput
    <3>1. /\ slot0' = (IF slot0 = "redir" THEN NoInput ELSE slot0)
          /\ shut' = shut \cup ({slot0} \ {"stdin"}) /\ pc' = "idle"
          /\ UNCHANGED <<argv, infile, spoilt, fault>>
      BY <1>5, <2>3 DEF Finish
    <3>2. slot0 \in {"stdin", "redir"} /\ NoInput # "stdin" /\ NoInput # "redir"
      BY <2>3 DEF Typed, InputOK, NoInput
    <3>3. ClosedOK'
      BY <3>1, <3>2 DEF StreamOK, ClosedOK, EmptySlotOK, StdinSlotOK, RedirSlotOK, Dash
    <3>4. ClosedOnlyBy'
      BY <3>1 DEF ClosedOnlyBy
    <3> QED
      BY <3>3, <3>4 DEF StreamOK
  <2> QED
    BY <2>2, <2>3
<1> QED
  BY <1>1, <1>2, <1>3, <1>4, <1>5 DEF Program

LEMMA RunStream == Typed /\ StreamOK /\ fault = "none" /\ Run => StreamOK'
<1> SUFFICES ASSUME Typed, StreamOK, fault = "none", Run PROVE StreamOK'
  OBVIOUS
<1>1. UNCHANGED <<argv, infile, fault>>
  BY DEF Run
<1>2. ClosedOnlyBy'
  BY <1>1 DEF ClosedOnlyBy
<1>3. CASE slot0 # NoInput /\ UNCHANGED <<slot0, shut, spoilt>>
  BY <1>1, <1>2, <1>3 DEF StreamOK, ClosedOK, EmptySlotOK, StdinSlotOK, RedirSlotOK, Dash
<1>4. CASE slot0 = NoInput /\ slot0' = "redir" /\ shut' = shut \ {"redir"} /\ UNCHANGED spoilt
  <2>1. NoInput # "redir"
    BY DEF NoInput
  <2> QED
    BY <1>1, <1>2, <1>4, <2>1 DEF StreamOK, ClosedOK, EmptySlotOK, StdinSlotOK, RedirSlotOK, Dash
<1>5. CASE spoilt' = TRUE
  BY <1>5, SpoiltStream
<1> QED
  BY <1>3, <1>4, <1>5 DEF Run

LEMMA SpecStream == Spec => []StreamOK
<1>1. Init => StreamOK
  <2> SUFFICES ASSUME Init PROVE StreamOK
    OBVIOUS
  <2>1. /\ slot0 \in {"stdin", "redir"} /\ infile = NoInput /\ shut = {}
        /\ pc = "idle" /\ fault = "none"
    BY DEF Init
  <2> QED
    BY <2>1 DEF StreamOK, ClosedOK, ClosedOnlyBy, EmptySlotOK, StdinSlotOK, RedirSlotOK, NoInput
<1>2. Typed /\ StreamOK /\ [Next]_vars => StreamOK'
  <2> SUFFICES ASSUME Typed, StreamOK, [Next]_vars PROVE StreamOK'
    OBVIOUS
  <2>1. CASE UNCHANGED vars
    BY <2>1, SameStream DEF vars
  <2> QED
    BY <2>1, RunStream, InitgetrecStream, GetrecStream, ProgramStream DEF Next
<1> QED
  BY <1>1, <1>2, SpecTyped, PTL DEF Spec

\* nextfile, closeall and close: a stream is used after it was closed only by
\* a program that closed its input or changed ARGV, or with "-" among the
\* arguments of a host that redirected the input.
THEOREM UsedOnlyOpen == Spec => []ClosedOnlyBy
<1>1. StreamOK => ClosedOnlyBy
  BY DEF StreamOK
<1> QED
  BY <1>1, SpecStream, PTL
-----------------------------------------------------------------------------
(* FlattenSeq, which is defined by recursion from the left, taken apart    *)
(* from the right: the input still to come is used up at its head.         *)

LEMMA Least ==
  ASSUME NEW S, S \subseteq Nat, S # {}
  PROVE  \E n \in S : \A m \in S : n <= m
<1> DEFINE R == {ss \in Nat \X Nat : ss[1] < ss[2]}
<1>1. IsWellFoundedOn(R, Nat)
  BY NatLessThanWellFounded DEF OpToRel
<1>2. PICK n \in S : \A y \in S : ~(<<y, n>> \in R)
  BY <1>1, WFMin
<1>3. ASSUME NEW y \in S PROVE n <= y
  <2>1. <<y, n>> \in Nat \X Nat /\ <<y, n>>[1] = y /\ <<y, n>>[2] = n
    OBVIOUS
  <2>2. ~(y < n)
    BY <2>1, <1>2
  <2> QED
    BY <2>2
<1> QED
  BY <1>3

\* f is the recursive function of FlattenSeq, as far as n.
Flattens(s, n, f) ==
  f = [i \in 1..n |-> IF i = 1 THEN s[i] ELSE f[i - 1] \o s[i]]

LEMMA FlattensLonger ==
  ASSUME NEW s, NEW n \in Nat, n >= 1, NEW g, Flattens(s, n, g)
  PROVE  \E f : Flattens(s, n + 1, f)
<1> DEFINE f == [i \in 1..n + 1 |-> IF i = n + 1 THEN g[n] \o s[n + 1] ELSE g[i]]
           e(i) == IF i = 1 THEN s[i] ELSE f[i - 1] \o s[i]
<1>1. ASSUME NEW i \in 1..n + 1 PROVE f[i] = e(i)
  <2>1. CASE i = n + 1
    <3>1. i # 1 /\ i - 1 = n /\ n \in 1..n + 1 /\ n # n + 1
      BY <2>1
    <3>2. f[n] = g[n]
      BY <3>1
    <3> QED
      BY <2>1, <3>1, <3>2
  <2>2. CASE i # n + 1
    <3>1. i \in 1..n
      BY <2>2
    <3>2. g[i] = IF i = 1 THEN s[i] ELSE g[i - 1] \o s[i]
      BY <3>1 DEF Flattens
    <3>3. i # 1 => i - 1 \in 1..n + 1 /\ i - 1 # n + 1
      BY <3>1
    <3>4. i # 1 => f[i - 1] = g[i - 1]
      BY <3>3
    <3> QED
      BY <2>2, <3>2, <3>4
  <2> QED
    BY <2>1, <2>2
<1>2. f = [i \in 1..n + 1 |-> e(i)]
  <2> HIDE DEF e
  <2> QED
    BY <1>1
<1>3. Flattens(s, n + 1, f)
  BY <1>2, Zenon DEF Flattens
<1> QED
  BY <1>3

LEMMA FlattensExists ==
  ASSUME NEW s, NEW n \in Nat \ {0}
  PROVE  \E f : Flattens(s, n, f)
<1> DEFINE Bad == {k \in Nat \ {0} : ~\E f : Flattens(s, k, f)}
<1> SUFFICES ASSUME Bad # {} PROVE FALSE
  OBVIOUS
<1>1. PICK k \in Bad : \A m \in Bad : k <= m
  BY Least
<1>2. CASE k = 1
  <2> DEFINE f == [i \in 1..1 |-> s[1]]
  <2>1. Flattens(s, 1, f)
    BY DEF Flattens
  <2> QED
    BY <1>2, <2>1
<1>3. CASE k # 1
  <2>1. k - 1 \in Nat \ {0} /\ ~(k <= k - 1)
    BY <1>3
  <2>2. \E f : Flattens(s, k - 1, f)
    BY <1>1, <2>1
  <2>3. \E f : Flattens(s, (k - 1) + 1, f)
    BY <2>1, <2>2, FlattensLonger
  <2>4. (k - 1) + 1 = k
    OBVIOUS
  <2> QED
    BY <2>3, <2>4
<1> QED
  BY <1>2, <1>3

LEMMA FlattenBy ==
  ASSUME NEW s, Len(s) \in Nat \ {0}
  PROVE  \E f : Flattens(s, Len(s), f) /\ FlattenSeq(s) = f[Len(s)]
<1>1. FlattenSeq(s) = (CHOOSE f : Flattens(s, Len(s), f))[Len(s)]
  BY DEF FlattenSeq, Flattens
<1>2. Flattens(s, Len(s), CHOOSE f : Flattens(s, Len(s), f))
  BY FlattensExists
<1> QED
  BY <1>1, <1>2

LEMMA FlattensTyped ==
  ASSUME NEW S, NEW s \in Seq(Seq(S)), NEW f, Flattens(s, Len(s), f)
  PROVE  \A i \in 1..Len(s) : f[i] \in Seq(S)
<1>0. Len(s) \in Nat /\ \A i \in 1..Len(s) : s[i] \in Seq(S)
  BY LenProperties, ElementOfSeq
<1> DEFINE Bad == {i \in 1..Len(s) : f[i] \notin Seq(S)}
<1> SUFFICES ASSUME Bad # {} PROVE FALSE
  OBVIOUS
<1>1. PICK k \in Bad : \A m \in Bad : k <= m
  <2>1. Bad \subseteq Nat
    BY <1>0
  <2> QED
    BY <2>1, Least
<1>2. f[k] = IF k = 1 THEN s[k] ELSE f[k - 1] \o s[k]
  BY DEF Flattens
<1>3. CASE k = 1
  BY <1>0, <1>2, <1>3
<1>4. CASE k # 1
  <2>1. k - 1 \in 1..Len(s) /\ ~(k <= k - 1)
    BY <1>0, <1>4
  <2>2. f[k - 1] \in Seq(S) /\ s[k] \in Seq(S)
    BY <1>0, <1>1, <2>1
  <2>3. f[k - 1] \o s[k] \in Seq(S)
    BY <2>2, ConcatProperties
  <2> QED
    BY <1>2, <1>4, <2>3
<1> QED
  BY <1>3, <1>4

\* The sequences after the first.
Rest(s) == [i \in 1..Len(s) - 1 |-> s[i + 1]]

LEMMA RestTyped ==
  ASSUME NEW T, NEW s \in Seq(T), s # <<>>
  PROVE  /\ Rest(s) \in Seq(T) /\ Len(Rest(s)) = Len(s) - 1 /\ Len(s) - 1 \in Nat
         /\ \A i \in 1..Len(s) - 1 : Rest(s)[i] = s[i + 1]
<1>1. Len(s) \in Nat \ {0} /\ \A i \in 1..Len(s) : s[i] \in T
  BY EmptySeq, LenProperties, ElementOfSeq
<1>2. Rest(s) \in [1..Len(s) - 1 -> T]
  BY <1>1 DEF Rest
<1> QED
  BY <1>1, <1>2 DEF Rest

Cat(a, b) == a \o b

LEMMA Regroup ==
  ASSUME NEW S, NEW a \in Seq(S), NEW b \in Seq(S), NEW c \in Seq(S)
  PROVE  Cat(Cat(a, b), c) = Cat(a, Cat(b, c))
BY ConcatAssociative, SMT DEF Cat

LEMMA FlattensRest ==
  ASSUME NEW S, NEW s \in Seq(Seq(S)), Len(s) > 1,
         NEW f, Flattens(s, Len(s), f),
         NEW g, Flattens(Rest(s), Len(s) - 1, g)
  PROVE  \A i \in 1..Len(s) - 1 : f[i + 1] = s[1] \o g[i]
<1>0. /\ Len(s) \in Nat /\ \A i \in 1..Len(s) : s[i] \in Seq(S)
      /\ Rest(s) \in Seq(Seq(S)) /\ Len(Rest(s)) = Len(s) - 1
      /\ \A i \in 1..Len(s) - 1 : Rest(s)[i] = s[i + 1]
      /\ \A i \in 1..Len(s) - 1 : g[i] \in Seq(S)
  <2>1. s # <<>> /\ Len(s) \in Nat
    BY LenProperties, EmptySeq
  <2>2. /\ Rest(s) \in Seq(Seq(S)) /\ Len(Rest(s)) = Len(s) - 1
        /\ \A i \in 1..Len(s) - 1 : Rest(s)[i] = s[i + 1]
    BY <2>1, RestTyped
  <2>3. \A i \in 1..Len(s) - 1 : g[i] \in Seq(S)
    BY <2>2, FlattensTyped
  <2> QED
    BY <2>1, <2>2, <2>3, ElementOfSeq
<1> DEFINE Bad == {i \in 1..Len(s) - 1 : f[i + 1] # s[1] \o g[i]}
<1> SUFFICES ASSUME Bad # {} PROVE FALSE
  OBVIOUS
<1>1. PICK k \in Bad : \A m \in Bad : k <= m
  <2>1. 1..Len(s) - 1 \subseteq Nat
    BY <1>0
  <2>2. Bad \subseteq Nat
    BY <2>1
  <2> QED
    BY <2>2, Least
<1>2. k \in Nat /\ k + 1 \in 1..Len(s) /\ k + 1 # 1 /\ (k + 1) - 1 = k
  BY <1>0
<1>3. f[k + 1] = f[k] \o s[k + 1]
  <2>1. f[k + 1] = IF k + 1 = 1 THEN s[k + 1] ELSE f[(k + 1) - 1] \o s[k + 1]
    BY <1>2 DEF Flattens
  <2> QED
    BY <1>2, <2>1
<1>4. g[k] = IF k = 1 THEN s[k + 1] ELSE g[k - 1] \o s[k + 1]
  <2>1. g[k] = IF k = 1 THEN Rest(s)[k] ELSE g[k - 1] \o Rest(s)[k]
    BY DEF Flattens
  <2> QED
    BY <1>0, <2>1
<1>5. CASE k = 1
  <2>1. f[1] = s[1]
    <3>1. 1 \in 1..Len(s)
      BY <1>0
    <3> QED
      BY <3>1 DEF Flattens
  <2> QED
    BY <1>3, <1>4, <1>5, <2>1
<1>6. CASE k # 1
  <2>1. k - 1 \in 1..Len(s) - 1 /\ ~(k <= k - 1) /\ (k - 1) + 1 = k
    BY <1>0, <1>6
  <2>2. f[k] = s[1] \o g[k - 1]
    BY <1>1, <2>1
  <2>3. s[1] \in Seq(S) /\ g[k - 1] \in Seq(S) /\ s[k + 1] \in Seq(S)
    BY <1>0, <1>2, <2>1
  <2>4. Cat(Cat(s[1], g[k - 1]), s[k + 1]) = Cat(s[1], Cat(g[k - 1], s[k + 1]))
    BY <2>3, Regroup
  <2>5. (s[1] \o g[k - 1]) \o s[k + 1] = s[1] \o (g[k - 1] \o s[k + 1])
    BY <2>4 DEF Cat
  <2> QED
    BY <1>3, <1>4, <1>6, <2>2, <2>5
<1> QED
  BY <1>5, <1>6

LEMMA FlattenFirst ==
  ASSUME NEW S, NEW s \in Seq(Seq(S)), s # <<>>
  PROVE  /\ FlattenSeq(s) = s[1] \o FlattenSeq(Rest(s))
         /\ FlattenSeq(s) \in Seq(S) /\ FlattenSeq(Rest(s)) \in Seq(S)
<1>1. /\ Len(s) \in Nat \ {0} /\ 1 \in 1..Len(s) /\ s[1] \in Seq(S)
      /\ Rest(s) \in Seq(Seq(S)) /\ Len(Rest(s)) = Len(s) - 1
  <2>1. Len(s) \in Nat \ {0}
    BY EmptySeq
  <2>2. 1 \in 1..Len(s)
    BY <2>1
  <2> QED
    BY <2>1, <2>2, RestTyped, ElementOfSeq
<1>2. PICK f : Flattens(s, Len(s), f) /\ FlattenSeq(s) = f[Len(s)]
  BY <1>1, FlattenBy
<1>3. Len(s) \in 1..Len(s)
  BY <1>1
<1>4. FlattenSeq(s) \in Seq(S)
  BY <1>2, <1>3, FlattensTyped
<1>5. CASE Len(s) = 1
  <2>1. FlattenSeq(s) = s[1]
    <3>1. f[1] = s[1]
      BY <1>1, <1>2 DEF Flattens
    <3> QED
      BY <1>2, <1>5, <3>1
  <2>2. Rest(s) = <<>>
    BY <1>1, <1>5, EmptySeq
  <2>3. FlattenSeq(Rest(s)) = <<>>
    BY <2>2, EmptySeq DEF FlattenSeq
  <2> QED
    BY <1>1, <1>4, <2>1, <2>3, EmptySeq, ConcatEmptySeq
<1>6. CASE Len(s) # 1
  <2>1. Len(s) > 1 /\ Len(Rest(s)) \in Nat \ {0} /\ Len(s) - 1 \in 1..Len(s) - 1
        /\ (Len(s) - 1) + 1 = Len(s)
    BY <1>1, <1>6
  <2>2. PICK g : Flattens(Rest(s), Len(Rest(s)), g)
                 /\ FlattenSeq(Rest(s)) = g[Len(Rest(s))]
    BY <2>1, FlattenBy
  <2>3. Flattens(Rest(s), Len(s) - 1, g) /\ FlattenSeq(Rest(s)) = g[Len(s) - 1]
    BY <1>1, <2>2
  <2>4. \A i \in 1..Len(s) - 1 : f[i + 1] = s[1] \o g[i]
    <3>1. Len(s) > 1 /\ Flattens(s, Len(s), f) /\ Flattens(Rest(s), Len(s) - 1, g)
      BY <1>2, <2>1, <2>3
    <3> QED
      BY <3>1, FlattensRest
  <2>5. f[Len(s)] = s[1] \o g[Len(s) - 1]
    <3>1. f[(Len(s) - 1) + 1] = s[1] \o g[Len(s) - 1]
      BY <2>1, <2>4
    <3> QED
      BY <2>1, <3>1
  <2>6. FlattenSeq(Rest(s)) \in Seq(S)
    <3>1. Len(Rest(s)) \in 1..Len(Rest(s))
      BY <2>1
    <3> QED
      BY <1>1, <2>2, <3>1, FlattensTyped
  <2> QED
    BY <1>2, <1>4, <2>3, <2>5, <2>6
<1> QED
  BY <1>5, <1>6
-----------------------------------------------------------------------------
(* What a program that leaves its input alone is owed.  OwedOK is what each *)
(* place of a run knows of it: FNR continues the records of the file that   *)
(* is open (FnrOK), a body has the last record of that file at hand or      *)
(* nothing is to come (BodyOK), getrec ends only where nothing is to come   *)
(* (OpenOK), and no "-" is left once records came from it (DashOK).         *)
Running == pc \in {"begin", "get", "read", "body", "END"}

\* No "-" from argument n on.
NoDash(n) == \A i \in DOMAIN argv : i >= n => argv[i] # "-"

\* The arguments not yet taken up.
Past == IF infile = NoInput THEN argno ELSE argno + 1

ListOK  == argno >= 1 /\ \A i, j \in DOMAIN argv : argv[i] = "-" /\ argv[j] = "-" => i = j
StartOK == pc = "init" => fnr = 0 /\ nr = 0 /\ got = Nothing("none")
OpenOK  == Running => infile = NoInput \/ argno < ARGC \/ infile = slot0
DashOK  == Running /\ (infile = "stdin" \/ got.from = "stdin") => NoDash(Past)
GotOK   == got.from \in Stream => got.rec \in Nat \ {0}
FnrOK   == Running /\ infile # NoInput =>
             fnr = IF got.from = infile /\ got.rec = at[infile] THEN got.fnr ELSE 0
BodyOK  == pc = "body" => \/ infile = NoInput /\ argno >= ARGC
                          \/ infile # NoInput /\ got.from = infile /\ got.rec = at[infile]

OwedOK == ListOK /\ StartOK /\ OpenOK /\ DashOK /\ GotOK /\ FnrOK /\ BodyOK

SourceOK == ~spoilt => OwedOK
-----------------------------------------------------------------------------
(* The input still to come: sequences of things.                           *)
Thing == {x \in [kind : {"record", "let", "absent"}, from : Stream \cup Absent \cup Lets,
                 rec : Nat] :
            x.kind = "record" => x.from \in Stream /\ x.rec <= Records[x.from]}

Parcels(n) == [i \in 1..Len(argv) - n + 1 |-> Items(argv[n + i - 1])]

LEMMA FromParcels == \A n : From(n) = FlattenSeq(Parcels(n))
BY DEF From, Parcels

LEMMA RecordThing ==
  ASSUME NEW f \in Stream, NEW k \in Nat, k <= Records[f]
  PROVE  Item("record", f, k) \in Thing
BY DEF Item, Thing

LEMMA UnreadTyped ==
  ASSUME ReadOK, NEW f \in Stream
  PROVE  /\ Unread(f) \in Seq(Thing)
         /\ Len(Unread(f)) = Records[f] - at[f] /\ Records[f] - at[f] \in Nat
         /\ \A k \in 1..Records[f] - at[f] : Unread(f)[k] = Item("record", f, at[f] + k)
<1>1. at[f] \in Nat /\ Records[f] \in Nat /\ at[f] <= Records[f]
  BY RecordsTyped DEF ReadOK
<1>2. Records[f] - at[f] \in Nat
  BY <1>1
<1>3. \A k \in 1..Records[f] - at[f] : at[f] + k \in Nat /\ at[f] + k <= Records[f]
  BY <1>1
<1>4. \A k \in 1..Records[f] - at[f] : Item("record", f, at[f] + k) \in Thing
  BY <1>3, RecordThing
<1>5. Unread(f) \in [1..Records[f] - at[f] -> Thing]
  BY <1>4 DEF Unread
<1>6. Unread(f) \in Seq(Thing) /\ Len(Unread(f)) = Records[f] - at[f]
  BY <1>2, <1>5
<1> QED
  BY <1>2, <1>6 DEF Unread

LEMMA ItemsTyped ==
  ASSUME ReadOK, NEW a \in Arguments
  PROVE  Items(a) \in Seq(Thing)
<1>1. CASE a \in Files
  <2>1. a \in Stream /\ Records[a] \in Nat
    BY <1>1, Streams, RecordsTyped
  <2>2. \A k \in 1..Records[a] : k \in Nat /\ k <= Records[a]
    BY <2>1
  <2>3. \A k \in 1..Records[a] : Item("record", a, k) \in Thing
    BY <2>1, <2>2, RecordThing
  <2>4. [k \in 1..Records[a] |-> Item("record", a, k)] \in [1..Records[a] -> Thing]
    BY <2>3
  <2>5. [k \in 1..Records[a] |-> Item("record", a, k)] \in Seq(Thing)
    BY <2>1, <2>4
  <2> QED
    BY <1>1, <2>5 DEF Items
<1>2. CASE a \notin Files /\ a \in Lets \cup Absent
  <2>1. Item("let", a, 0) \in Thing /\ Item("absent", a, 0) \in Thing
    BY <1>2 DEF Item, Thing
  <2>2. <<Item("let", a, 0)>> \in Seq(Thing) /\ <<Item("absent", a, 0)>> \in Seq(Thing)
    BY <2>1
  <2> QED
    BY <1>2, <2>2 DEF Items
<1>3. CASE a \notin Files \cup Lets \cup Absent
  <2>1. Unread("stdin") \in Seq(Thing) /\ <<>> \in Seq(Thing)
    BY UnreadTyped, Streams, EmptySeq
  <2> QED
    BY <1>3, <2>1 DEF Items
<1> QED
  BY <1>1, <1>2, <1>3

LEMMA ParcelsTyped ==
  ASSUME ReadOK, ArgvOK, NEW n \in Nat, n >= 1, n <= Len(argv)
  PROVE  /\ Parcels(n) \in Seq(Seq(Thing)) /\ Len(Parcels(n)) = Len(argv) - n + 1
         /\ Len(argv) - n + 1 \in Nat \ {0}
         /\ Parcels(n)[1] = Items(argv[n])
<1>1. Len(argv) \in Nat /\ \A i \in 1..Len(argv) : argv[i] \in Arguments
  BY LenProperties, ElementOfSeq DEF ArgvOK
<1>2. Len(argv) - n + 1 \in Nat \ {0}
  BY <1>1
<1>3. \A i \in 1..Len(argv) - n + 1 : n + i - 1 \in 1..Len(argv)
  BY <1>1
<1>4. \A i \in 1..Len(argv) - n + 1 : Items(argv[n + i - 1]) \in Seq(Thing)
  BY <1>1, <1>3, ItemsTyped
<1>5. Parcels(n) \in [1..Len(argv) - n + 1 -> Seq(Thing)]
  BY <1>4 DEF Parcels
<1>6. Parcels(n) \in Seq(Seq(Thing)) /\ Len(Parcels(n)) = Len(argv) - n + 1
  BY <1>2, <1>5
<1>7. 1 \in 1..Len(argv) - n + 1 /\ n + 1 - 1 = n
  BY <1>2
<1>8. Parcels(n)[1] = Items(argv[n + 1 - 1])
  BY <1>7 DEF Parcels
<1> QED
  BY <1>2, <1>6, <1>7, <1>8

\* Nothing comes from behind the last argument.
LEMMA FromEnd ==
  ASSUME ArgvOK, NEW n \in Nat, n > Len(argv)
  PROVE  From(n) = <<>>
<1>1. Len(argv) \in Nat
  BY LenProperties DEF ArgvOK
<1>2. 1..Len(argv) - n + 1 = {}
  BY <1>1
<1>3. Parcels(n) = <<>>
  <2>1. Parcels(n) \in [1..0 -> Seq(Thing)]
    BY <1>2 DEF Parcels
  <2>2. Parcels(n) \in Seq(Seq(Thing)) /\ Len(Parcels(n)) = 0
    BY <2>1
  <2> QED
    BY <2>2, EmptySeq
<1>4. FlattenSeq(<<>>) = <<>>
  BY EmptySeq DEF FlattenSeq
<1> QED
  BY <1>3, <1>4, FromParcels

LEMMA RestParcels ==
  ASSUME ReadOK, ArgvOK, NEW n \in Nat, n >= 1, n <= Len(argv)
  PROVE  Rest(Parcels(n)) = Parcels(n + 1)
<1>1. Len(argv) \in Nat /\ Len(Parcels(n)) = Len(argv) - n + 1
  BY LenProperties, ParcelsTyped DEF ArgvOK
<1>2. Len(Parcels(n)) - 1 = Len(argv) - (n + 1) + 1
  BY <1>1
<1>3. ASSUME NEW i \in 1..Len(argv) - (n + 1) + 1
      PROVE  Parcels(n)[i + 1] = Items(argv[(n + 1) + i - 1])
  <2>1. i + 1 \in 1..Len(argv) - n + 1 /\ n + (i + 1) - 1 = (n + 1) + i - 1
    BY <1>1
  <2>2. Parcels(n)[i + 1] = Items(argv[n + (i + 1) - 1])
    BY <2>1 DEF Parcels
  <2> QED
    BY <2>1, <2>2
<1> QED
  BY <1>2, <1>3, Zenon DEF Rest, Parcels

\* The items of an argument come before those of the arguments after it.
LEMMA FromNext ==
  ASSUME ReadOK, ArgvOK, NEW n \in Nat, n >= 1
  PROVE  /\ From(n) \in Seq(Thing) /\ From(n + 1) \in Seq(Thing)
         /\ n <= Len(argv) => From(n) = Items(argv[n]) \o From(n + 1)
<1>1. ASSUME n <= Len(argv)
      PROVE  /\ From(n) \in Seq(Thing) /\ From(n + 1) \in Seq(Thing)
             /\ From(n) = Items(argv[n]) \o From(n + 1)
  <2>1. Parcels(n) \in Seq(Seq(Thing)) /\ Parcels(n) # <<>> /\ Parcels(n)[1] = Items(argv[n])
    BY <1>1, ParcelsTyped, EmptySeq
  <2>2. Rest(Parcels(n)) = Parcels(n + 1)
    BY <1>1, RestParcels
  <2> DEFINE s == Parcels(n)
  <2>3. s \in Seq(Seq(Thing)) /\ s # <<>>
    BY <2>1
  <2> HIDE DEF s
  <2>4. /\ FlattenSeq(s) = s[1] \o FlattenSeq(Rest(s))
        /\ FlattenSeq(s) \in Seq(Thing) /\ FlattenSeq(Rest(s)) \in Seq(Thing)
    BY <2>3, FlattenFirst
  <2> QED
    BY <2>1, <2>2, <2>4, FromParcels DEF s
<1>2. ASSUME ~(n <= Len(argv)) PROVE From(n) \in Seq(Thing) /\ From(n + 1) \in Seq(Thing)
  <2>1. Len(argv) \in Nat
    BY LenProperties DEF ArgvOK
  <2>2. n > Len(argv) /\ n + 1 > Len(argv) /\ n + 1 \in Nat
    BY <1>2, <2>1
  <2> QED
    BY <2>2, FromEnd, EmptySeq
<1> QED
  BY <1>1, <1>2

\* A step that leaves the arguments alone, and the standard input if one of
\* the arguments from n on stands for it.
LEMMA SameFrom ==
  ASSUME ArgvOK, UNCHANGED argv, NEW n \in Nat, n >= 1,
         at'["stdin"] = at["stdin"] \/ NoDash(n)
  PROVE  From(n)' = From(n)
<1>1. DOMAIN argv = 1..Len(argv) /\ Len(argv) \in Nat
  BY LenProperties DEF ArgvOK
<1>2. ASSUME NEW i \in 1..Len(argv) - n + 1
      PROVE  Items(argv[n + i - 1])' = Items(argv[n + i - 1])
  <2>1. n + i - 1 \in DOMAIN argv /\ n + i - 1 >= n
    BY <1>1
  <2>2. CASE at'["stdin"] = at["stdin"]
    <3>1. Unread("stdin")' = Unread("stdin")
      BY <2>2 DEF Unread
    <3> QED
      BY <3>1 DEF Items
  <2>3. CASE NoDash(n)
    <3>1. argv[n + i - 1] # "-"
      BY <2>1, <2>3 DEF NoDash
    <3> QED
      BY <3>1 DEF Items
  <2> QED
    BY <2>2, <2>3
<1>3. Parcels(n)' = Parcels(n)
  BY <1>2, Zenon DEF Parcels
<1>4. From(n)' = FlattenSeq(Parcels(n)')
  BY DEF From, Parcels
<1> QED
  BY <1>3, <1>4, FromParcels
-----------------------------------------------------------------------------
(* What is to come, before and after a step.                               *)
LEMMA HeadTail ==
  ASSUME NEW T, NEW a \in T, NEW u \in Seq(T)
  PROVE  <<a>> \o u # <<>> /\ Head(<<a>> \o u) = a /\ Tail(<<a>> \o u) = u
<1> DEFINE s == <<a>> \o u
<1>1. s \in Seq(T) /\ Len(s) = Len(u) + 1 /\ Len(u) \in Nat
  BY ConcatProperties, LenProperties
<1>2. s[1] = a /\ \A i \in 1..Len(u) : s[i + 1] = u[i]
  BY ConcatProperties, LenProperties
<1> HIDE DEF s
<1>3. s # <<>>
  BY <1>1, EmptySeq
<1>4. Head(s) = a
  BY <1>1, <1>2, <1>3
<1>5. Tail(s) \in Seq(T) /\ Len(Tail(s)) = Len(u) /\ \A i \in 1..Len(u) : Tail(s)[i] = s[i + 1]
  BY <1>1, <1>3, HeadTailProperties
<1>6. Tail(s) = u
  BY <1>2, <1>5, SeqEqual
<1> QED
  BY <1>3, <1>4, <1>6 DEF s

LEMMA NoArgument ==
  /\ "" \notin Files /\ "" \notin Lets /\ "" \notin Absent /\ "" # "-"
  /\ "stdin" # "-" /\ Lets \cap FileArgs = {} /\ "" \notin FileArgs
BY InputAssumption DEF FileArgs

LEMMA ArgumentRange ==
  ASSUME Typed, ListOK
  PROVE  /\ Len(argv) \in Nat /\ argno \in Nat /\ argno >= 1 /\ argno + 1 \in Nat
         /\ argno + 1 >= 1
         /\ \A i : i \in DOMAIN argv <=> i \in 1..Len(argv)
         /\ argno <= Len(argv) => argno \in DOMAIN argv
         /\ argno \in DOMAIN argv => argno <= Len(argv)
         /\ ~(argno <= Len(argv)) => argno > Len(argv) /\ argno + 1 > Len(argv)
<1>1. DOMAIN argv = 1..Len(argv) /\ Len(argv) \in Nat
  BY LenProperties DEF Typed, ArgvOK
<1>2. argno \in Nat /\ argno >= 1
  BY DEF Typed, CountOK, ListOK
<1>3. Len(argv) \in Nat /\ argno \in Nat /\ argno >= 1
  BY <1>1, <1>2
<1>4. argno <= Len(argv) <=> argno \in 1..Len(argv)
  BY ONLY <1>3
<1>5. ~(argno <= Len(argv)) => argno > Len(argv) /\ argno + 1 > Len(argv)
  BY ONLY <1>3
<1>6. argno + 1 \in Nat /\ argno + 1 >= 1
  BY ONLY <1>3
<1> QED
  BY <1>1, <1>3, <1>4, <1>5, <1>6

LEMMA ArgumentAt ==
  ASSUME Typed, ListOK, NEW a, a # "", getargv(argno) = a
  PROVE  /\ argno \in DOMAIN argv /\ argno \in 1..Len(argv) /\ argv[argno] = a
         /\ a \in Arguments
         /\ Items(a) \in Seq(Thing) /\ From(argno + 1) \in Seq(Thing)
         /\ From(argno) = Items(a) \o From(argno + 1)
<1>1. argno \in DOMAIN argv /\ argv[argno] = a
  BY DEF getargv
<1>2. argno \in 1..Len(argv)
  BY <1>1, ArgumentRange
<1>3. a \in Arguments
  BY <1>1, <1>2, ElementOfSeq DEF Typed, ArgvOK
<1>4. argno \in Nat /\ argno >= 1 /\ argno <= Len(argv)
  BY <1>1, ArgumentRange
<1>5. ReadOK /\ ArgvOK
  BY DEF Typed
<1> QED
  BY <1>1, <1>2, <1>3, <1>4, <1>5, FromNext, ItemsTyped

LEMMA NoArgumentAt ==
  ASSUME Typed, ListOK, getargv(argno) = ""
  PROVE  /\ From(argno + 1) = From(argno)
         /\ From(argno) \in Seq(Thing)
<1>1. Len(argv) \in Nat /\ (argno <= Len(argv) => argno \in DOMAIN argv)
  BY ArgumentRange
<1>2. ReadOK /\ ArgvOK /\ argno \in Nat /\ argno >= 1 /\ argno + 1 \in Nat
  BY ArgumentRange DEF Typed
<1>3. From(argno) \in Seq(Thing) /\ From(argno + 1) \in Seq(Thing)
  BY <1>2, FromNext
<1>4. CASE argno <= Len(argv)
  <2>1. argv[argno] = ""
    BY <1>1, <1>2, <1>4 DEF getargv
  <2>2. Items("") = <<>>
    BY NoArgument DEF Items
  <2>3. From(argno) = <<>> \o From(argno + 1)
    BY <1>2, <1>4, <2>1, <2>2, FromNext
  <2>4. <<>> \o From(argno + 1) = From(argno + 1)
    BY <1>3, ConcatEmptySeq
  <2> QED
    BY <1>3, <2>3, <2>4
<1>5. CASE ~(argno <= Len(argv))
  <2>1. argno > Len(argv) /\ argno + 1 > Len(argv)
    BY <1>5, ArgumentRange
  <2> QED
    BY <1>2, <1>3, <2>1, FromEnd
<1> QED
  BY <1>4, <1>5

\* What comes behind the arguments when none of them is a file.
Behind(n) == IF \E i \in n..Len(argv) : argv[i] \in FileArgs
             THEN <<>> ELSE IF slot0 = NoInput THEN <<>> ELSE Unread(slot0)

LEMMA TodoInit == pc = "init" => Todo = From(argno) \o Behind(argno)
BY DEF Todo, Behind

LEMMA TodoAt ==
  pc # "init" => Todo = IF infile = NoInput THEN From(argno)
                        ELSE Unread(infile) \o From(argno + 1)
BY DEF Todo

LEMMA BehindTyped ==
  ASSUME Typed, NEW n
  PROVE  Behind(n) \in Seq(Thing)
<1>1. slot0 = NoInput \/ Unread(slot0) \in Seq(Thing)
  BY UnreadTyped, Streams DEF Typed, InputOK
<1> QED
  BY <1>1, EmptySeq DEF Behind

LEMMA BehindNext ==
  ASSUME Typed, ListOK, argno < ARGC, getargv(argno) \notin FileArgs,
         UNCHANGED <<argv, slot0, at>>, NEW m, m = argno + 1
  PROVE  Behind(m)' = Behind(argno)
<1>1. Len(argv) \in Nat /\ argno \in Nat /\ argno >= 1
  BY ArgumentRange
<1>2. argno \in DOMAIN argv /\ argv[argno] \notin FileArgs
  <2>1. argno <= Len(argv)
    BY <1>1 DEF ARGC
  <2> QED
    BY <2>1, ArgumentRange DEF getargv
<1> DEFINE P(n) == \E i \in n..Len(argv) : argv[i] \in FileArgs
<1>3. P(argno) <=> P(m)
  <2>1. \A i \in argno..Len(argv) : i = argno \/ i \in argno + 1..Len(argv)
    BY <1>1
  <2>2. argno + 1..Len(argv) \subseteq argno..Len(argv)
    BY <1>1
  <2> QED
    BY <1>2, <2>1, <2>2
<1>4. Unread(slot0)' = Unread(slot0)
  BY DEF Unread
<1>5. FileArgs' = FileArgs
  BY DEF FileArgs
<1>6. Behind(m)' = Behind(m)
  BY <1>4, <1>5 DEF Behind
<1>7. Behind(m) = Behind(argno)
  BY <1>3 DEF Behind
<1> QED
  BY <1>6, <1>7

LEMMA UnreadNext ==
  ASSUME ReadOK, NEW f \in Stream, at[f] # Records[f], at' = [at EXCEPT ![f] = @ + 1]
  PROVE  /\ Item("record", f, at[f] + 1) \in Thing /\ Unread(f)' \in Seq(Thing)
         /\ Unread(f) = <<Item("record", f, at[f] + 1)>> \o Unread(f)'
<1>1. at[f] \in Nat /\ Records[f] \in Nat /\ at[f] < Records[f] /\ at'[f] = at[f] + 1
  BY RecordsTyped DEF ReadOK
<1> DEFINE r == Item("record", f, at[f] + 1)
           n == Records[f] - at[f]
<1>2. r \in Thing
  BY <1>1, RecordThing
<1>3. Unread(f)' = [k \in 1..n - 1 |-> Item("record", f, (at[f] + 1) + k)]
  <2>1. Records[f] - (at[f] + 1) = n - 1
    BY <1>1
  <2>2. Unread(f)' = [k \in 1..Records[f] - (at[f] + 1) |-> Item("record", f, (at[f] + 1) + k)]
    BY <1>1 DEF Unread
  <2> QED
    BY <2>1, <2>2
<1>4. ASSUME NEW k \in 1..n - 1 PROVE Item("record", f, (at[f] + 1) + k) \in Thing
  <2>1. (at[f] + 1) + k \in Nat /\ (at[f] + 1) + k <= Records[f]
    BY <1>1
  <2> QED
    BY <2>1, RecordThing
<1>5. n - 1 \in Nat
  BY <1>1
<1> DEFINE u == Unread(f)'
<1>6. /\ u \in Seq(Thing) /\ Len(u) = n - 1
      /\ \A k \in 1..n - 1 : u[k] = Item("record", f, (at[f] + 1) + k)
  <2>1. u \in [1..n - 1 -> Thing]
    BY <1>3, <1>4
  <2> QED
    BY <1>3, <1>5, <2>1
<1> HIDE DEF u
<1> DEFINE s == <<r>> \o u
<1>7. s \in Seq(Thing) /\ Len(s) = n /\ s[1] = r /\ \A k \in 1..n - 1 : s[k + 1] = u[k]
  <2>1. <<r>> \in Seq(Thing) /\ Len(<<r>>) = 1 /\ <<r>>[1] = r
    BY <1>2
  <2> HIDE DEF r
  <2>2. s \in Seq(Thing) /\ Len(s) = Len(<<r>>) + Len(u)
    BY <1>6, <2>1, ConcatProperties
  <2>3. 1 + (n - 1) = n /\ \A k \in 1..n - 1 : k + 1 \in 1..n /\ k + 1 > 1 /\ (k + 1) - 1 = k
    BY <1>1
  <2>4. 1 \in 1..n
    BY <1>1
  <2> HIDE DEF n
  <2>5. \A i \in 1..n : s[i] = IF i <= 1 THEN <<r>>[i] ELSE u[i - 1]
    BY <1>6, <2>1, <2>3, ConcatProperties
  <2>6. s[1] = r
    BY <2>1, <2>4, <2>5
  <2>7. ASSUME NEW k \in 1..n - 1 PROVE s[k + 1] = u[k]
    <3>1. k + 1 \in 1..n /\ ~(k + 1 <= 1) /\ (k + 1) - 1 = k
      BY <1>5, <2>3
    <3>2. s[k + 1] = IF k + 1 <= 1 THEN <<r>>[k + 1] ELSE u[(k + 1) - 1]
      BY <2>5, <3>1
    <3> QED
      BY <3>1, <3>2
  <2> QED
    BY <1>6, <2>1, <2>2, <2>3, <2>6, <2>7
<1> HIDE DEF s
<1> DEFINE t == Unread(f)
<1>8. t \in Seq(Thing) /\ Len(t) = n /\ \A k \in 1..n : t[k] = Item("record", f, at[f] + k)
  BY UnreadTyped
<1> HIDE DEF t
<1>9. ASSUME NEW k \in 1..n PROVE s[k] = t[k]
  <2>1. CASE k = 1
    BY <1>7, <1>8, <2>1
  <2>2. CASE k # 1
    <3>1. k - 1 \in 1..n - 1 /\ (k - 1) + 1 = k /\ (at[f] + 1) + (k - 1) = at[f] + k
      BY <1>1, <2>2
    <3>2. s[k] = u[k - 1]
      BY <1>7, <3>1
    <3>3. u[k - 1] = Item("record", f, at[f] + k)
      BY <1>6, <3>1
    <3> QED
      BY <1>8, <3>2, <3>3
  <2> QED
    BY <2>1, <2>2
<1>10. s = t
  BY <1>7, <1>8, <1>9, SeqEqual
<1> QED
  BY <1>2, <1>6, <1>10 DEF s, t, u

LEMMA UnreadNone ==
  ASSUME ReadOK, NEW f \in Stream, at[f] = Records[f]
  PROVE  Unread(f) = <<>>
<1>1. Unread(f) \in Seq(Thing) /\ Len(Unread(f)) = 0
  <2>1. Records[f] - Records[f] = 0
    BY RecordsTyped
  <2> QED
    BY <2>1, UnreadTyped
<1> QED
  BY <1>1, EmptySeq
-----------------------------------------------------------------------------
(* Each step is a step of RecordSource, or leaves what it tells alone.     *)
Working == Typed /\ StreamOK /\ OwedOK /\ ~spoilt

LEMMA Together ==
  ASSUME NEW x \in Seq(Thing), NEW y \in Seq(Thing), NEW z \in Seq(Thing)
  PROVE  Cat(Cat(x, y), z) = Cat(x, Cat(y, z))
BY Regroup

LEMMA FromAt ==
  ASSUME ArgvOK, UNCHANGED argv, NEW n \in Nat, n >= 1, argno' = n,
         at'["stdin"] = at["stdin"] \/ NoDash(n)
  PROVE  From(argno)' = From(n)
<1>1. From(argno)' = From(n)'
  BY DEF From
<1> QED
  BY <1>1, SameFrom

LEMMA FromPast ==
  ASSUME ArgvOK, UNCHANGED argv, NEW n \in Nat, n >= 1, argno' + 1 = n,
         at'["stdin"] = at["stdin"] \/ NoDash(n)
  PROVE  From(argno + 1)' = From(n)
<1>1. From(argno + 1)' = From(n)'
  BY DEF From
<1> QED
  BY <1>1, SameFrom

LEMMA BehindAt ==
  ASSUME Typed, ListOK, argno < ARGC, getargv(argno) \notin FileArgs,
         UNCHANGED <<argv, slot0, at>>, argno' = argno + 1
  PROVE  Behind(argno)' = Behind(argno)
<1>1. PICK m : m = argno + 1
  OBVIOUS
<1>2. Behind(m)' = Behind(argno)
  BY <1>1, BehindNext
<1>3. Behind(argno)' = Behind(m)'
  BY <1>1 DEF Behind
<1> QED
  BY <1>2, <1>3

LEMMA TodoInitNext == pc' = "init" => Todo' = From(argno)' \o Behind(argno)'
BY DEF Todo, Behind

LEMMA TodoNext ==
  pc' # "init" => Todo' = IF infile' = NoInput THEN From(argno)'
                          ELSE Unread(infile)' \o From(argno + 1)'
BY DEF Todo

LEMMA UnreadAt ==
  ASSUME NEW f, infile' = f
  PROVE  Unread(infile)' = Unread(f)'
BY DEF Unread

LEMMA SameUnread == ASSUME NEW f, at'[f] = at[f] PROVE Unread(f)' = Unread(f)
BY DEF Unread

\* A step that leaves the input to come alone.
LEMMA SameTodo ==
  ASSUME Typed, ListOK, UNCHANGED <<argv, argno, infile, at>>, pc # "init", pc' # "init"
  PROVE  Todo' = Todo
<1>1. ArgvOK /\ argno \in Nat /\ argno >= 1 /\ argno + 1 \in Nat /\ argno + 1 >= 1
  BY ArgumentRange DEF Typed
<1>2. From(argno)' = From(argno) /\ From(argno + 1)' = From(argno + 1)
  BY <1>1, FromAt, FromPast
<1>3. Unread(infile)' = Unread(infile)
  BY DEF Unread
<1> QED
  BY <1>2, <1>3, TodoAt, TodoNext

LEMMA Stutters ==
  ASSUME Todo' = Todo, UNCHANGED <<nr, got, set, spoilt>>, pc # "failed", pc' # "failed"
  PROVE  UNCHANGED Source!vars
BY DEF Source!vars

LEMMA Spoils ==
  ASSUME spoilt' \/ pc' = "failed"
  PROVE  Source!Next
BY DEF Source!Next

LEMMA TakeHead ==
  ASSUME NEW r \in Thing, NEW w \in Seq(Thing), Todo = <<r>> \o w, Todo' = w
  PROVE  Todo # <<>> /\ Head(Todo) = r /\ Todo' = Tail(Todo)
BY HeadTail

LEMMA Assigns ==
  ASSUME NEW a \in Lets, NEW w \in Seq(Thing), Todo = <<Item("let", a, 0)>> \o w, Todo' = w,
         set' = Append(set, a), UNCHANGED <<nr, got, spoilt>>, pc # "failed", pc' # "failed"
  PROVE  Source!Assign
<1>1. Item("let", a, 0) \in Thing /\ Item("let", a, 0).kind = "let" /\ Item("let", a, 0).from = a
  BY DEF Item, Thing
<1>2. Todo # <<>> /\ Head(Todo) = Item("let", a, 0) /\ Todo' = Tail(Todo)
  BY <1>1, TakeHead
<1> QED
  BY <1>1, <1>2 DEF Source!Assign

LEMMA Delivers ==
  ASSUME NEW f \in Stream, NEW k \in Nat, NEW w \in Seq(Thing),
         Item("record", f, k) \in Thing,
         Todo = <<Item("record", f, k)>> \o w, Todo' = w,
         nr' = nr + 1,
         got' = [from |-> f, rec |-> k, nr |-> nr + 1,
                 fnr |-> IF got.from = f /\ got.rec + 1 = k THEN got.fnr + 1 ELSE 1],
         UNCHANGED <<set, spoilt>>, pc # "failed", pc' # "failed"
  PROVE  Source!Deliver
<1> DEFINE r == Item("record", f, k)
<1>1. r.kind = "record" /\ r.from = f /\ r.rec = k
  BY DEF Item
<1>2. Todo # <<>> /\ Head(Todo) = r /\ Todo' = Tail(Todo)
  BY TakeHead
<1> HIDE DEF r
<1>3. got' = [from |-> r.from, rec |-> r.rec, nr |-> nr + 1,
              fnr |-> IF got.from = r.from /\ got.rec + 1 = r.rec THEN got.fnr + 1 ELSE 1]
  BY <1>1
<1> QED
  BY <1>1, <1>2, <1>3 DEF Source!Deliver

\* An argument that is passed over, or set.
LEMMA InitPasses ==
  ASSUME Working, NEW a \in Lets \cup {""}, InitAt(a), argno' = argno + 1,
         UNCHANGED <<argv, slot0, at, pc>>
  PROVE  \E w \in Seq(Thing) : Todo' = w /\ Todo = Items(a) \o w
<1>1. /\ pc = "init" /\ pc' = "init" /\ argno < ARGC /\ getargv(argno) = a /\ a \notin FileArgs
  BY NoArgument DEF InitAt
<1>2. Typed /\ ListOK /\ ArgvOK
  BY DEF Working, Typed, OwedOK
<1>3. Behind(argno)' = Behind(argno) /\ Behind(argno) \in Seq(Thing)
  BY <1>1, <1>2, BehindAt, BehindTyped
<1>4. From(argno)' = From(argno + 1)
  <2>1. argno + 1 \in Nat /\ argno + 1 >= 1
    BY <1>2, ArgumentRange
  <2> QED
    BY <1>2, <2>1, FromAt
<1>5. /\ From(argno) = Items(a) \o From(argno + 1)
      /\ Items(a) \in Seq(Thing) /\ From(argno + 1) \in Seq(Thing)
  <2>1. CASE a # ""
    BY <1>1, <1>2, <2>1, ArgumentAt
  <2>2. CASE a = ""
    <3>1. Items(a) = <<>>
      BY <2>2, NoArgument DEF Items
    <3>2. From(argno + 1) = From(argno) /\ From(argno) \in Seq(Thing)
      BY <1>1, <1>2, <2>2, NoArgumentAt
    <3> QED
      BY <3>1, <3>2, ConcatEmptySeq, EmptySeq
  <2> QED
    BY <2>1, <2>2
<1>6. From(argno + 1) \o Behind(argno) \in Seq(Thing)
  BY <1>3, <1>5, ConcatProperties
<1>7. (Items(a) \o From(argno + 1)) \o Behind(argno)
      = Items(a) \o (From(argno + 1) \o Behind(argno))
  <2>1. Cat(Cat(Items(a), From(argno + 1)), Behind(argno))
        = Cat(Items(a), Cat(From(argno + 1), Behind(argno)))
    BY <1>3, <1>5, Together
  <2> QED
    BY <2>1 DEF Cat
<1>8. Todo = Items(a) \o (From(argno + 1) \o Behind(argno))
  BY <1>1, <1>5, <1>7, TodoInit
<1>9. Todo' = From(argno + 1) \o Behind(argno)
  BY <1>1, <1>3, <1>4, TodoInitNext
<1> QED
  BY <1>6, <1>8, <1>9

LEMMA GetPasses ==
  ASSUME Working, NEW a \in Lets \cup {""}, GetAt(a), argno' = argno + 1,
         UNCHANGED <<argv, infile, at, pc>>
  PROVE  \E w \in Seq(Thing) : Todo' = w /\ Todo = Items(a) \o w
<1>1. /\ pc = "get" /\ pc' = "get" /\ infile = NoInput /\ infile' = NoInput
      /\ getargv(argno) = a
  BY DEF GetAt, Turn
<1>2. Typed /\ ListOK /\ ArgvOK
  BY DEF Working, Typed, OwedOK
<1>4. From(argno)' = From(argno + 1)
  <2>1. argno + 1 \in Nat /\ argno + 1 >= 1
    BY <1>2, ArgumentRange
  <2> QED
    BY <1>2, <2>1, FromAt
<1>5. /\ From(argno) = Items(a) \o From(argno + 1)
      /\ From(argno + 1) \in Seq(Thing)
  <2>1. CASE a # ""
    BY <1>1, <1>2, <2>1, ArgumentAt
  <2>2. CASE a = ""
    <3>1. Items(a) = <<>>
      BY <2>2, NoArgument DEF Items
    <3>2. From(argno + 1) = From(argno) /\ From(argno) \in Seq(Thing)
      BY <1>1, <1>2, <2>2, NoArgumentAt
    <3> QED
      BY <3>1, <3>2, ConcatEmptySeq, EmptySeq
  <2> QED
    BY <2>1, <2>2
<1> QED
  BY <1>1, <1>4, <1>5, TodoAt, TodoNext
-----------------------------------------------------------------------------
Allowed == Source!Next \/ UNCHANGED Source!vars

LEMMA EmptyBefore == \A w \in Seq(Thing) : <<>> \o w = w
BY ConcatEmptySeq

LEMMA ItemsOf ==
  /\ Items("") = <<>> /\ Items("-") = Unread("stdin")
  /\ \A a \in Lets : Items(a) = <<Item("let", a, 0)>>
  /\ \A a \in Files : Items(a) = [k \in 1..Records[a] |-> Item("record", a, k)]
<1>1. Items("") = <<>> /\ Items("-") = Unread("stdin")
  BY NoArgument, Names DEF Items
<1>2. ASSUME NEW a \in Lets PROVE Items(a) = <<Item("let", a, 0)>>
  <2>1. a \notin Files
    BY InputAssumption
  <2> QED
    BY <2>1 DEF Items
<1>3. ASSUME NEW a \in Files PROVE Items(a) = [k \in 1..Records[a] |-> Item("record", a, k)]
  BY DEF Items
<1> QED
  BY <1>1, <1>2, <1>3

\* A file that has just been opened has all its records to come.
LEMMA Opened ==
  ASSUME ReadOK, NEW a \in Files, at' = [at EXCEPT ![a] = 0]
  PROVE  Unread(a)' = Items(a)
<1>1. at'[a] = 0 /\ Records[a] \in Nat
  BY Streams, RecordsTyped DEF ReadOK
<1>2. Unread(a)' = [k \in 1..Records[a] - 0 |-> Item("record", a, 0 + k)]
  BY <1>1 DEF Unread
<1>3. Records[a] - 0 = Records[a] /\ \A k \in 1..Records[a] : 0 + k = k
  BY <1>1
<1>4. Unread(a)' = [k \in 1..Records[a] |-> Item("record", a, k)]
  BY <1>2, <1>3
<1> QED
  BY <1>4, ItemsOf

LEMMA FaultStep ==
  ASSUME Working, NEW f, Fault(f), pc # "init", pc # "failed"
  PROVE  Allowed
<1>1. UNCHANGED <<argv, argno, infile, at, pc, nr, got, set, spoilt>>
  BY DEF Fault, inputs, counts
<1>2. Todo' = Todo
  BY <1>1, SameTodo DEF Working, OwedOK
<1> QED
  BY <1>1, <1>2, Stutters DEF Allowed

LEMMA InitSkipStep == Working /\ InitSkip => Allowed
<1> SUFFICES ASSUME Working, InitSkip PROVE Allowed
  OBVIOUS
<1>1. /\ InitAt("") /\ argno' = argno + 1 /\ pc = "init" /\ pc' = "init"
      /\ UNCHANGED <<argv, slot0, at, pc, nr, got, set, spoilt>>
  BY DEF InitSkip, InitAt, inputs, counts
<1>2. PICK w \in Seq(Thing) : Todo' = w /\ Todo = Items("") \o w
  BY <1>1, InitPasses
<1>3. Todo' = Todo
  BY <1>2, EmptyBefore, ItemsOf
<1> QED
  BY <1>1, <1>3, Stutters DEF Allowed

LEMMA GetSkipStep == Working /\ GetSkip => Allowed
<1> SUFFICES ASSUME Working, GetSkip PROVE Allowed
  OBVIOUS
<1>1. /\ GetAt("") /\ argno' = argno + 1 /\ pc = "get" /\ pc' = "get"
      /\ UNCHANGED <<argv, infile, at, pc, nr, got, set, spoilt>>
  BY DEF GetSkip, GetAt, Turn, inputs, counts
<1>2. PICK w \in Seq(Thing) : Todo' = w /\ Todo = Items("") \o w
  BY <1>1, GetPasses
<1>3. Todo' = Todo
  BY <1>2, EmptyBefore, ItemsOf
<1> QED
  BY <1>1, <1>3, Stutters DEF Allowed

LEMMA InitSetStep == ASSUME NEW a \in Lets, Working, InitSet(a) PROVE Allowed
<1>1. /\ InitAt(a) /\ argno' = argno + 1 /\ pc = "init" /\ pc' = "init"
      /\ set' = Append(set, a)
      /\ UNCHANGED <<argv, slot0, at, pc, nr, got, spoilt>>
  BY DEF InitSet, InitAt, inputs, counts
<1>2. PICK w \in Seq(Thing) : Todo' = w /\ Todo = Items(a) \o w
  BY <1>1, InitPasses
<1>3. Todo = <<Item("let", a, 0)>> \o w
  BY <1>2, ItemsOf
<1>4. Source!Assign
  BY <1>1, <1>2, <1>3, Assigns
<1> QED
  BY <1>4 DEF Allowed, Source!Next

LEMMA GetSetStep == ASSUME NEW a \in Lets, Working, GetSet(a) PROVE Allowed
<1>1. /\ GetAt(a) /\ argno' = argno + 1 /\ pc = "get" /\ pc' = "get"
      /\ set' = Append(set, a)
      /\ UNCHANGED <<argv, infile, at, pc, nr, got, spoilt>>
  BY DEF GetSet, GetAt, Turn, inputs, counts
<1>2. PICK w \in Seq(Thing) : Todo' = w /\ Todo = Items(a) \o w
  BY <1>1, GetPasses
<1>3. Todo = <<Item("let", a, 0)>> \o w
  BY <1>2, ItemsOf
<1>4. Source!Assign
  BY <1>1, <1>2, <1>3, Assigns
<1> QED
  BY <1>4 DEF Allowed, Source!Next

LEMMA InitOpenStep == ASSUME NEW a \in Files, Working, InitOpen(a) PROVE Allowed
<1>1. /\ pc = "init" /\ pc' = "begin" /\ getargv(argno) = a /\ argno < ARGC
      /\ infile' = a /\ at' = [at EXCEPT ![a] = 0]
      /\ UNCHANGED <<argv, argno, nr, got, set, spoilt>>
  BY DEF InitOpen, InitAt, counts
<1>2. Typed /\ ListOK /\ ReadOK /\ ArgvOK
  BY DEF Working, OwedOK, Typed
<1>3. a # "" /\ a \in FileArgs /\ a # "stdin" /\ a # NoInput
  BY NoArgument, Names, Streams DEF FileArgs
<1>4. /\ argno \in DOMAIN argv /\ argv[argno] = a
      /\ From(argno + 1) \in Seq(Thing) /\ Items(a) \in Seq(Thing)
      /\ From(argno) = Items(a) \o From(argno + 1)
  BY <1>1, <1>2, <1>3, ArgumentAt
<1>5. Behind(argno) = <<>>
  <2>1. argno \in argno..Len(argv)
    BY <1>2, <1>4, ArgumentRange
  <2> QED
    BY <1>3, <1>4, <2>1 DEF Behind
<1>6. Todo = Items(a) \o From(argno + 1)
  <2>1. From(argno) \in Seq(Thing)
    BY <1>4, ConcatProperties
  <2>2. From(argno) \o <<>> = From(argno)
    BY <2>1, ConcatEmptySeq
  <2> QED
    BY <1>1, <1>4, <1>5, <2>2, TodoInit
<1>7. at'["stdin"] = at["stdin"]
  BY <1>1, <1>2, <1>3, Streams DEF ReadOK
<1>8. From(argno + 1)' = From(argno + 1)
  BY <1>1, <1>2, <1>7, ArgumentRange, FromPast
<1>9. Unread(infile)' = Items(a)
  BY <1>1, <1>2, Opened, UnreadAt
<1>10. Todo' = Todo
  BY <1>1, <1>3, <1>6, <1>8, <1>9, TodoNext
<1> QED
  BY <1>1, <1>10, Stutters DEF Allowed

LEMMA GetOpenStep == ASSUME NEW a \in Files \cup {"-"}, Working, GetOpen(a) PROVE Allowed
<1>1. /\ pc = "get" /\ pc' = "read" /\ getargv(argno) = a /\ infile = NoInput
      /\ infile' = (IF a = "-" THEN "stdin" ELSE a)
      /\ at' = (IF a = "-" THEN at ELSE [at EXCEPT ![a] = 0])
      /\ UNCHANGED <<argv, argno, nr, got, set, spoilt>>
  BY DEF GetOpen, GetAt, Turn
<1>2. Typed /\ ListOK /\ ReadOK /\ ArgvOK
  BY DEF Working, OwedOK, Typed
<1>3. a # "" /\ a # "stdin" /\ infile' # NoInput
  BY <1>1, NoArgument, Names, Streams
<1>4. /\ From(argno + 1) \in Seq(Thing)
      /\ From(argno) = Items(a) \o From(argno + 1)
  BY <1>1, <1>2, <1>3, ArgumentAt
<1>5. Todo = Items(a) \o From(argno + 1)
  BY <1>1, <1>4, TodoAt
<1>6. at'["stdin"] = at["stdin"]
  BY <1>1, <1>2, <1>3, Streams DEF ReadOK
<1>7. From(argno + 1)' = From(argno + 1)
  BY <1>1, <1>2, <1>6, ArgumentRange, FromPast
<1>8. Unread(infile)' = Items(a)
  <2>1. CASE a = "-"
    BY <1>1, <2>1, UnreadAt, SameUnread, ItemsOf
  <2>2. CASE a # "-"
    BY <1>1, <1>2, <2>2, Opened, UnreadAt
  <2> QED
    BY <2>1, <2>2
<1>9. Todo' = Todo
  BY <1>1, <1>3, <1>5, <1>7, <1>8, TodoNext
<1> QED
  BY <1>1, <1>9, Stutters DEF Allowed

LEMMA InitStdinStep == Working /\ InitStdin => Allowed
<1> SUFFICES ASSUME Working, InitStdin PROVE Allowed
  OBVIOUS
<1>1. /\ pc = "init" /\ pc' = "begin" /\ argno >= ARGC /\ infile' = slot0
      /\ UNCHANGED <<argv, argno, at, nr, got, set, spoilt>>
  BY DEF InitStdin, counts
<1>2. Typed /\ ListOK /\ ReadOK /\ ArgvOK
  BY DEF Working, OwedOK, Typed
<1>3. /\ argno \in Nat /\ argno + 1 \in Nat /\ argno > Len(argv) /\ argno + 1 > Len(argv)
      /\ argno..Len(argv) = {}
  <2>1. Len(argv) \in Nat /\ argno \in Nat
    BY <1>2, ArgumentRange
  <2> QED
    BY <1>1, <2>1 DEF ARGC
<1>4. From(argno) = <<>> /\ From(argno + 1) = <<>>
  BY <1>2, <1>3, FromEnd
<1>5. From(argno)' = <<>> /\ From(argno + 1)' = <<>>
  BY <1>1, <1>2, <1>4, ArgumentRange, FromAt, FromPast
<1>6. Behind(argno) = IF slot0 = NoInput THEN <<>> ELSE Unread(slot0)
  BY <1>3 DEF Behind
<1>7. Behind(argno) \in Seq(Thing)
  BY <1>2, BehindTyped
<1>8. Todo = Behind(argno)
  BY <1>1, <1>4, <1>7, TodoInit, EmptyBefore
<1>9. slot0 # NoInput => Unread(infile)' = Unread(slot0)
  BY <1>1 DEF Unread
<1>10. Todo' = Behind(argno)
  <2>1. CASE slot0 = NoInput
    BY <1>1, <1>5, <1>6, <2>1, TodoNext
  <2>2. CASE slot0 # NoInput
    <3>1. Todo' = Unread(slot0) \o <<>>
      BY <1>1, <1>5, <1>9, <2>2, TodoNext
    <3> QED
      BY <1>6, <1>7, <2>2, <3>1, ConcatEmptySeq
  <2> QED
    BY <2>1, <2>2
<1> QED
  BY <1>1, <1>8, <1>10, Stutters DEF Allowed

LEMMA GetEndStep == Working /\ GetEnd => Allowed
<1> SUFFICES ASSUME Working, GetEnd PROVE Allowed
  OBVIOUS
<1>1. /\ pc = "get" /\ pc' # "init" /\ pc' # "failed" /\ got' = Nothing("end")
      /\ ~(argno < ARGC) /\ infile # slot0
      /\ UNCHANGED <<argv, argno, infile, at, nr, set, spoilt>>
  BY DEF GetEnd, Turn, inputs, counts, Working, Typed, PlaceOK
<1>2. Typed /\ ListOK /\ ArgvOK
  BY DEF Working, OwedOK, Typed
<1>3. infile = NoInput
  BY <1>1 DEF Working, OwedOK, OpenOK, Running
<1>4. argno \in Nat /\ argno > Len(argv)
  <2>1. Len(argv) \in Nat /\ argno \in Nat
    BY <1>2, ArgumentRange
  <2> QED
    BY <1>1, <2>1 DEF ARGC
<1>5. Todo = <<>>
  BY <1>1, <1>2, <1>3, <1>4, FromEnd, TodoAt
<1>6. Todo' = Todo
  BY <1>1, <1>2, SameTodo
<1>7. Source!End
  BY <1>1, <1>5, <1>6 DEF Source!End, Source!Nothing, Nothing
<1> QED
  BY <1>7 DEF Allowed, Source!Next

LEMMA DropFront ==
  ASSUME NEW T, NEW u \in Seq(T), NEW v \in Seq(T), NEW n, n = Len(u)
  PROVE  /\ n \in 0..Len(u \o v)
         /\ \A i \in 1..n : (u \o v)[i] = u[i]
         /\ n < Len(u \o v) => v # <<>> /\ v[1] \in T /\ (u \o v)[n + 1] = v[1]
         /\ SubSeq(u \o v, n + 1, Len(u \o v)) = v
<1>1. n \in Nat /\ Len(v) \in Nat
  BY LenProperties
<1>2. PICK s \in Seq(T) : s = u \o v
  BY ConcatProperties
<1>3. Len(s) = n + Len(v) /\ Len(s) \in Nat
  BY <1>1, <1>2, ConcatProperties
<1>4. \A i \in 1..Len(s) : s[i] = IF i <= n THEN u[i] ELSE v[i - n]
  BY <1>2, <1>3, ConcatProperties
<1>5. n \in 0..Len(s) /\ \A i \in 1..n : s[i] = u[i]
  BY <1>1, <1>3, <1>4
<1>6. n < Len(s) => v # <<>> /\ v[1] \in T /\ s[n + 1] = v[1]
  <2> SUFFICES ASSUME n < Len(s) PROVE v # <<>> /\ v[1] \in T /\ s[n + 1] = v[1]
    OBVIOUS
  <2>1. Len(v) >= 1 /\ n + 1 \in 1..Len(s) /\ ~(n + 1 <= n) /\ (n + 1) - n = 1 /\ 1 \in 1..Len(v)
    BY <1>1, <1>3
  <2>2. v # <<>> /\ v[1] \in T
    BY <2>1, EmptySeq, ElementOfSeq
  <2> QED
    BY <1>4, <2>1, <2>2
<1>7. SubSeq(s, n + 1, Len(s)) = v
  <2> DEFINE w == SubSeq(s, n + 1, Len(s))
  <2>1. w = [i \in 1..Len(s) - (n + 1) + 1 |-> s[i + (n + 1) - 1]]
    OBVIOUS
  <2>2. Len(s) - (n + 1) + 1 = Len(v)
    BY <1>1, <1>3
  <2>3. ASSUME NEW i \in 1..Len(v) PROVE s[i + (n + 1) - 1] = v[i]
    <3>1. i + (n + 1) - 1 \in 1..Len(s) /\ ~(i + (n + 1) - 1 <= n) /\ (i + (n + 1) - 1) - n = i
      BY <1>1, <1>3
    <3> QED
      BY <1>4, <3>1
  <2>4. w = [i \in 1..Len(v) |-> v[i]]
    BY <2>1, <2>2, <2>3
  <2>5. v \in [1..Len(v) -> T]
    BY LenProperties
  <2> QED
    BY <2>4, <2>5
<1> QED
  BY <1>2, <1>5, <1>6, <1>7

\* nextfile leaves what the next argument begins.
LEMMA NextfileTodo ==
  ASSUME Working, pc # "init", pc # "failed", NEW c, nextfile("get", c)
  PROVE  \/ UNCHANGED Source!vars
         \/ Todo' = From(argno + 1) /\ UNCHANGED <<nr, got, set, spoilt>> /\ pc' = "get"
<1>1. Typed /\ ListOK /\ ArgvOK
  BY DEF Working, OwedOK, Typed
<1>2. CASE infile \in shut /\ infile # slot0
  <2>1. Fault("closed")
    BY <1>2 DEF nextfile
  <2>2. UNCHANGED <<argv, argno, infile, at, pc, nr, got, set, spoilt>>
    BY <2>1 DEF Fault, inputs, counts
  <2>3. Todo' = Todo
    BY <1>1, <2>2, SameTodo
  <2> QED
    BY <2>2, <2>3, Stutters
<1>3. CASE ~(infile \in shut /\ infile # slot0)
  <2>1. /\ infile' = NoInput /\ argno' = argno + 1 /\ pc' = "get"
        /\ UNCHANGED <<argv, at, nr, got, set, spoilt>>
    BY <1>3 DEF nextfile, counts
  <2>2. From(argno)' = From(argno + 1)
    BY <1>1, <2>1, ArgumentRange, FromAt
  <2> QED
    BY <2>1, <2>2, TodoNext
<1> QED
  BY <1>2, <1>3

LEMMA GetReadStep == Working /\ GetRead => Allowed
<1> SUFFICES ASSUME Working, GetRead PROVE Allowed
  OBVIOUS
<1>1. /\ pc \in {"get", "read"} /\ pc # "init" /\ pc # "failed" /\ Running /\ infile # NoInput
      /\ infile \in Stream
  BY DEF GetRead, Turn, Running, Working, Typed, InputOK
<1>2. Typed /\ ListOK /\ ReadOK /\ ArgvOK /\ PlaceOK /\ FnrOK /\ GotOK /\ DashOK
  BY DEF Working, OwedOK, Typed
<1>3. Todo = Unread(infile) \o From(argno + 1) /\ From(argno + 1) \in Seq(Thing)
  <2>1. argno \in Nat /\ argno >= 1
    BY <1>2, ArgumentRange
  <2> QED
    BY <1>1, <1>2, <2>1, TodoAt, FromNext
<1>4. CASE infile \in shut
  BY <1>1, <1>4, FaultStep DEF GetRead
<1>5. CASE infile \notin shut /\ at[infile] = Records[infile]
  <2>1. nextfile("get", caller)
    BY <1>5 DEF GetRead
  <2>2. Todo = From(argno + 1)
    <3>1. Unread(infile) = <<>>
      BY <1>1, <1>2, <1>5, UnreadNone
    <3> QED
      BY <1>3, <3>1, EmptyBefore
  <2>3. CASE UNCHANGED Source!vars
    BY <2>3 DEF Allowed
  <2>4. CASE Todo' = From(argno + 1) /\ UNCHANGED <<nr, got, set, spoilt>> /\ pc' = "get"
    BY <1>1, <2>2, <2>4, Stutters DEF Allowed
  <2> QED
    BY <1>1, <2>1, <2>3, <2>4, NextfileTodo
<1>6. CASE infile \notin shut /\ at[infile] # Records[infile]
  <2>1. /\ at' = [at EXCEPT ![infile] = @ + 1]
        /\ nr' = nr + 1 /\ fnr' = fnr + 1
        /\ got' = [from |-> infile, rec |-> at'[infile], nr |-> nr', fnr |-> fnr']
        /\ pc' = (IF caller = "main" THEN "body" ELSE caller)
        /\ UNCHANGED <<argv, argno, infile, set, spoilt>>
    BY <1>6 DEF GetRead
  <2>2. pc' # "init" /\ pc' # "failed"
    BY <1>2, <2>1 DEF PlaceOK
  <2>3. PICK f \in Stream : f = infile
    BY <1>1
  <2>4. /\ Item("record", f, at[f] + 1) \in Thing /\ Unread(f)' \in Seq(Thing)
        /\ Unread(f) = <<Item("record", f, at[f] + 1)>> \o Unread(f)'
    BY <1>2, <1>6, <2>1, <2>3, UnreadNext
  <2>5. at[f] \in Nat /\ at[f] + 1 \in Nat /\ at'[f] = at[f] + 1
    BY <1>2, <2>1, <2>3 DEF ReadOK
  <2>6. From(argno + 1)' = From(argno + 1)
    <3>1. CASE f = "stdin"
      <4>1. NoDash(argno + 1)
        BY <1>1, <1>2, <2>3, <3>1 DEF DashOK, Past
      <4> QED
        BY <1>2, <2>1, <4>1, ArgumentRange, FromPast
    <3>2. CASE f # "stdin"
      <4>1. at'["stdin"] = at["stdin"]
        BY <1>2, <2>1, <2>3, <3>2, Streams DEF ReadOK
      <4> QED
        BY <1>2, <2>1, <4>1, ArgumentRange, FromPast
    <3> QED
      BY <3>1, <3>2
  <2>7. Todo' = Unread(f)' \o From(argno + 1)
    <3>1. Unread(infile)' = Unread(f)'
      BY <2>1, <2>3, UnreadAt
    <3> QED
      BY <1>1, <2>1, <2>2, <2>6, <3>1, TodoNext
  <2>8. Todo' \in Seq(Thing)
    BY <1>3, <2>4, <2>7, ConcatProperties
  <2>9. Todo = <<Item("record", f, at[f] + 1)>> \o Todo'
    <3>1. PICK x \in Seq(Thing) : x = <<Item("record", f, at[f] + 1)>>
      <4>1. PICK r \in Thing : r = Item("record", f, at[f] + 1)
        BY <2>4
      <4>2. <<r>> \in Seq(Thing)
        OBVIOUS
      <4> QED
        BY <4>1, <4>2, Zenon
    <3>2. PICK y \in Seq(Thing) : y = Unread(f)'
      BY <2>4
    <3>3. PICK z \in Seq(Thing) : z = From(argno + 1)
      BY <1>3
    <3>4. Cat(Cat(x, y), z) = Cat(x, Cat(y, z))
      BY Together
    <3>5. (x \o y) \o z = x \o (y \o z)
      BY <3>4 DEF Cat
    <3>6. Todo = (x \o y) \o z
      BY <1>3, <2>3, <2>4, <3>1, <3>2, <3>3
    <3>7. Todo' = y \o z
      BY <2>7, <3>2, <3>3
    <3> QED
      BY <3>1, <3>5, <3>6, <3>7
  <2>10. got' = [from |-> f, rec |-> at[f] + 1, nr |-> nr + 1,
                 fnr |-> IF got.from = f /\ got.rec + 1 = at[f] + 1 THEN got.fnr + 1 ELSE 1]
    <3>1. fnr = IF got.from = f /\ got.rec = at[f] THEN got.fnr ELSE 0
      BY <1>1, <1>2, <2>3 DEF FnrOK
    <3>2. got.from = f => (got.rec + 1 = at[f] + 1 <=> got.rec = at[f])
      <4>1. got.from = f => got.rec \in Nat
        BY <1>2 DEF GotOK
      <4> QED
        BY <2>5, <4>1
    <3>3. fnr + 1 = IF got.from = f /\ got.rec + 1 = at[f] + 1 THEN got.fnr + 1 ELSE 1
      BY <3>1, <3>2
    <3> QED
      BY <2>1, <2>3, <2>5, <3>3
  <2>11. Source!Deliver
    BY <1>1, <2>1, <2>2, <2>4, <2>5, <2>8, <2>9, <2>10, Delivers
  <2> QED
    BY <2>11 DEF Allowed, Source!Next
<1> QED
  BY <1>4, <1>5, <1>6

\* The nextfile statement in a body passes over the rest of the file of the
\* last record, and nothing else.
LEMMA NextfileStep == Working /\ Nextfile => Allowed
<1> SUFFICES ASSUME Working, Nextfile PROVE Allowed
  OBVIOUS
<1>1. Typed /\ ListOK /\ ReadOK /\ ArgvOK /\ BodyOK
  BY DEF Working, OwedOK, Typed
<1>2. CASE pc \in {"begin", "END"} /\ nextfile("failed", caller)
  <2>1. CASE Fault("closed")
    BY <1>2, <2>1, FaultStep
  <2>2. CASE ~Fault("closed")
    <3>1. pc' = "failed"
      BY <1>2, <2>2 DEF nextfile
    <3> QED
      BY <3>1, Spoils DEF Allowed
  <2> QED
    BY <2>1, <2>2
<1>3. CASE pc = "body" /\ nextfile("get", "main")
  <2>1. \/ UNCHANGED Source!vars
        \/ Todo' = From(argno + 1) /\ UNCHANGED <<nr, got, set, spoilt>> /\ pc' = "get"
    BY <1>3, NextfileTodo
  <2>2. CASE UNCHANGED Source!vars
    BY <2>2 DEF Allowed
  <2>3. CASE /\ Todo' = From(argno + 1) /\ UNCHANGED <<nr, got, set, spoilt>> /\ pc' = "get"
             /\ infile = NoInput /\ argno >= ARGC
    <3>1. /\ argno \in Nat /\ argno + 1 \in Nat
          /\ argno > Len(argv) /\ argno + 1 > Len(argv)
      <4>1. Len(argv) \in Nat /\ argno \in Nat
        BY <1>1, ArgumentRange
      <4> QED
        BY <2>3, <4>1 DEF ARGC
    <3>2. Todo = <<>> /\ From(argno + 1) = <<>>
      BY <1>1, <1>3, <2>3, <3>1, FromEnd, TodoAt
    <3> QED
      BY <1>3, <2>3, <3>2, Stutters DEF Allowed
  <2>4. CASE /\ Todo' = From(argno + 1) /\ UNCHANGED <<nr, got, set, spoilt>> /\ pc' = "get"
             /\ infile # NoInput /\ got.from = infile /\ got.rec = at[infile]
    <3>1. PICK f \in Stream : f = infile
      BY <1>1, <2>4 DEF Typed, InputOK
    <3>2. PICK u \in Seq(Thing) : u = Unread(f)
      BY <1>1, UnreadTyped
    <3>3. PICK v \in Seq(Thing) : v = From(argno + 1)
      <4>1. argno \in Nat /\ argno >= 1
        BY <1>1, ArgumentRange
      <4> QED
        BY <1>1, <4>1, FromNext
    <3>4. PICK n : n = Len(u)
      OBVIOUS
    <3>5. Todo = u \o v /\ Todo' = v
      BY <1>3, <2>4, <3>1, <3>2, <3>3, TodoAt
    <3>6. /\ n \in Nat /\ n = Records[f] - at[f] /\ at[f] \in Nat /\ Records[f] \in Nat
          /\ \A k \in 1..n : u[k] = Item("record", f, at[f] + k)
      BY <1>1, <3>2, <3>4, UnreadTyped, RecordsTyped DEF ReadOK
    <3>7. got.from = f /\ got.rec = at[f]
      BY <2>4, <3>1
    <3>8. /\ n \in 0..Len(u \o v)
          /\ \A i \in 1..n : (u \o v)[i] = u[i]
          /\ n < Len(u \o v) => v[1] \in Thing /\ (u \o v)[n + 1] = v[1]
          /\ SubSeq(u \o v, n + 1, Len(u \o v)) = v
      BY <3>4, DropFront
    <3>9. Source!Following(n)
      BY <3>5, <3>6, <3>7, <3>8 DEF Source!Following, Source!Rec, Item
    <3>10. n < Len(Todo) => ~Source!Following(n + 1)
      <4> SUFFICES ASSUME n < Len(Todo), Source!Following(n + 1) PROVE FALSE
        OBVIOUS
      <4>1. v[1] \in Thing /\ Todo[n + 1] = v[1]
        BY <3>5, <3>8
      <4>2. n + 1 \in 1..n + 1
        BY <3>6
      <4>3. v[1] = Item("record", f, at[f] + (n + 1))
        BY <3>7, <4>1, <4>2 DEF Source!Following, Source!Rec, Item
      <4>4. at[f] + (n + 1) <= Records[f]
        BY <4>1, <4>3 DEF Item, Thing
      <4> QED
        BY <3>6, <4>4
    <3>11. n \in 0..Len(Todo) /\ Todo' = SubSeq(Todo, n + 1, Len(Todo))
      BY <3>5, <3>8
    <3>12. (~spoilt' /\ pc' # "failed") = (~spoilt /\ pc # "failed")
      BY <1>3, <2>4
    <3>13. Source!Skip
      BY <2>4, <3>9, <3>10, <3>11, <3>12 DEF Source!Skip
    <3> QED
      BY <3>13 DEF Allowed, Source!Next
  <2> QED
    BY <1>1, <1>3, <2>1, <2>2, <2>3, <2>4 DEF BodyOK
<1> QED
  BY <1>2, <1>3 DEF Nextfile

LEMMA ProgramStep == Working /\ Program => Allowed
<1> SUFFICES ASSUME Working, Program PROVE Allowed
  OBVIOUS
<1>1. CASE Getline \/ MainLoop \/ Exit
  <2>1. /\ UNCHANGED <<argv, argno, infile, at, nr, got, set, spoilt>>
        /\ pc \notin {"init", "failed"} /\ pc' \notin {"init", "failed"}
    BY <1>1 DEF Getline, MainLoop, Exit, Goto, inputs, counts
  <2>2. Todo' = Todo
    BY <2>1, SameTodo DEF Working, OwedOK
  <2> QED
    BY <2>1, <2>2, Stutters DEF Allowed
<1>2. CASE SetArg
  BY <1>2, Spoils DEF SetArg, Allowed
<1>3. CASE CloseInput
  <2>1. CASE slot0 \in shut
    BY <1>3, <2>1, FaultStep DEF CloseInput
  <2>2. CASE slot0 \notin shut
    BY <1>3, <2>2, Spoils DEF CloseInput, Allowed
  <2> QED
    BY <2>1, <2>2
<1>4. CASE Finish
  <2>1. CASE slot0 = NoInput
    BY <1>4, <2>1, FaultStep DEF Finish
  <2>2. CASE slot0 # NoInput
    <3>1. /\ UNCHANGED <<argv, argno, infile, at, nr, got, set, spoilt>>
          /\ pc \notin {"init", "failed"} /\ pc' \notin {"init", "failed"}
      BY <1>4, <2>2 DEF Finish, counts
    <3>2. Todo' = Todo
      BY <3>1, SameTodo DEF Working, OwedOK
    <3> QED
      BY <3>1, <3>2, Stutters DEF Allowed
  <2> QED
    BY <2>1, <2>2
<1> QED
  BY <1>1, <1>2, <1>3, <1>4, NextfileStep DEF Program

LEMMA RunStep == Working /\ Run => Allowed
<1> SUFFICES ASSUME Working, Run PROVE Allowed
  OBVIOUS
<1>1. CASE spoilt'
  BY <1>1, Spoils DEF Allowed
<1>2. CASE ~spoilt'
  <2>1. /\ nr' = 0 /\ got' = Nothing("none") /\ set' = <<>> /\ pc = "idle" /\ pc' = "init"
    BY DEF Run
  <2>2. (~spoilt' /\ pc' # "failed") = (~spoilt /\ pc # "failed")
    BY <1>2, <2>1 DEF Working
  <2>3. Source!Restart
    BY <2>1, <2>2 DEF Source!Restart, Source!Nothing, Nothing
  <2> QED
    BY <2>3 DEF Allowed, Source!Next
<1> QED
  BY <1>1, <1>2

LEMMA InitgetrecStep == Working /\ initgetrec => Allowed
<1> SUFFICES ASSUME Working, initgetrec PROVE Allowed
  OBVIOUS
<1>1. ASSUME NEW a \in Absent \cup {"-"}, InitFail(a) PROVE Allowed
  BY <1>1, Spoils DEF InitFail, Allowed
<1> QED
  BY <1>1, InitSkipStep, InitStdinStep, InitSetStep, InitOpenStep DEF initgetrec

LEMMA GetrecStep == Working /\ getrec => Allowed
<1> SUFFICES ASSUME Working, getrec PROVE Allowed
  OBVIOUS
<1>1. ASSUME NEW a \in Absent, GetFail(a) PROVE Allowed
  BY <1>1, Spoils DEF GetFail, Allowed
<1> QED
  BY <1>1, GetSkipStep, GetReadStep, GetEndStep, GetSetStep, GetOpenStep DEF getrec
-----------------------------------------------------------------------------
(* The invariant is kept.                                                  *)
LEMMA NoStream == "none" \notin Stream /\ "end" \notin Stream /\ NoInput \notin Stream
BY InputAssumption DEF Stream, NoInput

LEMMA SameNoDash == ASSUME UNCHANGED argv, NEW n, NoDash(n) PROVE NoDash(n)'
BY DEF NoDash

LEMMA NoDashLater ==
  ASSUME ArgvOK, argno \in Nat, NoDash(argno)
  PROVE  NoDash(argno + 1)
<1>1. DOMAIN argv \subseteq Nat
  BY LenProperties DEF ArgvOK
<1>2. \A i \in Nat : i >= argno + 1 => i >= argno
  OBVIOUS
<1> QED
  BY <1>1, <1>2 DEF NoDash

\* Whatever "-" there was, there is none behind the next argument.
LEMMA NoDashNext ==
  ASSUME Typed, OwedOK, Running, infile = "stdin" \/ got.from = "stdin"
  PROVE  NoDash(argno + 1)
<1>1. ArgvOK /\ argno \in Nat
  BY DEF Typed, CountOK
<1>2. NoDash(Past)
  BY DEF OwedOK, DashOK
<1> QED
  BY <1>1, <1>2, NoDashLater DEF Past

LEMMA SameList ==
  ASSUME Typed, ListOK, UNCHANGED argv, argno' \in {argno, argno + 1}
  PROVE  ListOK'
<1>1. argno \in Nat /\ argno >= 1 /\ argno + 1 >= 1
  BY ArgumentRange
<1>2. argno' >= 1
  BY <1>1
<1> QED
  BY <1>2 DEF ListOK

LEMMA SameOwed ==
  ASSUME Typed, OwedOK, UNCHANGED <<argv, argno, infile, slot0, at, nr, fnr, got>>,
         pc' = "init" => pc = "init", Running' => Running, pc' = "body" => pc = "body"
  PROVE  OwedOK'
<1>1. ListOK'
  BY SameList DEF OwedOK
<1>2. StartOK' /\ GotOK'
  BY DEF OwedOK, StartOK, GotOK
<1>3. OpenOK' /\ FnrOK' /\ BodyOK'
  BY DEF OwedOK, OpenOK, FnrOK, BodyOK, ARGC
<1>4. DashOK'
  BY DEF OwedOK, DashOK, NoDash, Past
<1> QED
  BY <1>1, <1>2, <1>3, <1>4 DEF OwedOK

LEMMA FaultOwed == ASSUME Working, NEW f, Fault(f) PROVE OwedOK'
<1>1. UNCHANGED <<argv, argno, infile, slot0, at, nr, fnr, got, pc>>
  BY DEF Fault, inputs, counts
<1>2. Running' <=> Running
  BY <1>1 DEF Running
<1> QED
  BY <1>1, <1>2, SameOwed DEF Working

\* A step outside the reading of records.
LEMMA IdleOwed ==
  ASSUME Working, UNCHANGED <<argv, got>>, argno' \in {argno, argno + 1},
         pc' \in {"idle", "failed"} \/ (pc' = "init" /\ pc = "init" /\ UNCHANGED <<nr, fnr>>)
  PROVE  OwedOK'
<1>1. ListOK' /\ GotOK'
  BY SameList DEF Working, OwedOK, GotOK
<1>2. ~Running' /\ pc' # "body"
  BY DEF Running
<1>3. StartOK'
  BY DEF Working, OwedOK, StartOK
<1> QED
  BY <1>1, <1>2, <1>3 DEF OwedOK, OpenOK, DashOK, FnrOK, BodyOK

\* A step to the next argument.
LEMMA NextOwed ==
  ASSUME Working, UNCHANGED <<argv, got>>, argno' = argno + 1, infile' = NoInput,
         Running, pc' = "get"
  PROVE  OwedOK'
<1>1. ListOK' /\ GotOK'
  BY SameList DEF Working, OwedOK, GotOK
<1>2. StartOK' /\ OpenOK' /\ FnrOK' /\ BodyOK'
  BY DEF StartOK, OpenOK, FnrOK, BodyOK
<1>3. DashOK'
  <2> SUFFICES ASSUME infile' = "stdin" \/ got'.from = "stdin" PROVE NoDash(Past)'
    BY DEF DashOK
  <2>1. got.from = "stdin"
    BY Streams, NoStream
  <2>2. NoDash(argno + 1)
    BY <2>1, NoDashNext DEF Working
  <2>3. Past' = argno + 1
    BY DEF Past
  <2> QED
    BY <2>2, <2>3 DEF NoDash
<1> QED
  BY <1>1, <1>2, <1>3 DEF OwedOK

LEMMA NextfileOwed ==
  ASSUME Working, Running, NEW p \in {"get", "failed"}, NEW c, nextfile(p, c)
  PROVE  OwedOK'
<1>1. CASE infile \in shut /\ infile # slot0
  BY <1>1, FaultOwed DEF nextfile
<1>2. CASE ~(infile \in shut /\ infile # slot0)
  <2>1. /\ infile' = NoInput /\ argno' = argno + 1 /\ pc' = p /\ UNCHANGED <<argv, got>>
    BY <1>2 DEF nextfile
  <2> QED
    BY <2>1, NextOwed, IdleOwed
<1> QED
  BY <1>1, <1>2

\* A stream that is opened is one nothing was read of since it was opened.
LEMMA OpenOwed ==
  ASSUME Working, UNCHANGED <<argv, argno, got>>, pc' \in {"begin", "read"}, fnr' = 0,
         infile' # NoInput => infile' \in Stream /\ (argno < ARGC \/ infile' = slot0'),
         infile' # NoInput /\ got.from = infile' => got.rec # at'[infile'],
         infile' = "stdin" \/ got.from = "stdin" => NoDash(Past)'
  PROVE  OwedOK'
<1>1. ListOK' /\ GotOK'
  BY SameList DEF Working, OwedOK, GotOK
<1>2. StartOK' /\ BodyOK' /\ DashOK'
  BY DEF StartOK, BodyOK, DashOK
<1>3. OpenOK' /\ FnrOK'
  BY DEF OpenOK, FnrOK, ARGC
<1> QED
  BY <1>1, <1>2, <1>3 DEF OwedOK

LEMMA InitgetrecOwed == Working /\ initgetrec => OwedOK'
<1> SUFFICES ASSUME Working, initgetrec PROVE OwedOK'
  OBVIOUS
<1>1. CASE InitSkip \/ \E a \in Lets : InitSet(a)
  BY <1>1, IdleOwed DEF InitSkip, InitSet, InitAt, counts
<1>2. CASE \E a \in Absent \cup {"-"} : InitFail(a)
  BY <1>2, IdleOwed DEF InitFail
<1>3. ASSUME NEW a \in Files, InitOpen(a) PROVE OwedOK'
  <2>1. /\ pc = "init" /\ pc' = "begin" /\ argno < ARGC /\ infile' = a
        /\ UNCHANGED <<argv, argno, got, fnr>>
    BY <1>3 DEF InitOpen, InitAt, counts
  <2>2. got.from = "none" /\ fnr = 0
    BY <2>1 DEF Working, OwedOK, StartOK, Nothing
  <2>3. infile' \in Stream /\ infile' # "stdin" /\ got.from # "stdin" /\ got.from # infile'
    BY <2>1, <2>2, Names, Streams, NoStream
  <2> QED
    BY <2>1, <2>2, <2>3, OpenOwed
<1>4. CASE InitStdin
  <2>1. /\ pc = "init" /\ pc' = "begin" /\ argno >= ARGC /\ infile' = slot0
        /\ UNCHANGED <<argv, argno, got, fnr, slot0>>
    BY <1>4 DEF InitStdin, counts
  <2>2. got.from = "none" /\ fnr = 0
    BY <2>1 DEF Working, OwedOK, StartOK, Nothing
  <2>3. infile' # NoInput => infile' \in Stream /\ got.from # infile'
    BY <2>1, <2>2, Streams, NoStream DEF Working, Typed, InputOK
  <2>4. NoDash(Past)'
    <3>1. Len(argv) \in Nat /\ argno \in Nat /\ \A i : i \in DOMAIN argv => i \in 1..Len(argv)
      BY ArgumentRange DEF Working, OwedOK
    <3>2. \A i \in 1..Len(argv) : ~(i >= argno) /\ ~(i >= argno + 1)
      BY <2>1, <3>1 DEF ARGC
    <3>3. Past' \in {argno, argno + 1}
      BY <2>1 DEF Past
    <3> QED
      BY <2>1, <3>1, <3>2, <3>3 DEF NoDash
  <2> QED
    BY <2>1, <2>2, <2>3, <2>4, OpenOwed
<1> QED
  BY <1>1, <1>2, <1>3, <1>4 DEF initgetrec

LEMMA GetReadOwed == Working /\ GetRead => OwedOK'
<1> SUFFICES ASSUME Working, GetRead PROVE OwedOK'
  OBVIOUS
<1>1. infile \in Stream /\ infile # NoInput /\ Running
  BY DEF GetRead, Turn, Running, Working, Typed, InputOK
<1>2. CASE infile \in shut
  BY <1>2, FaultOwed DEF GetRead
<1>3. CASE infile \notin shut /\ at[infile] = Records[infile]
  BY <1>1, <1>3, NextfileOwed DEF GetRead
<1>4. CASE infile \notin shut /\ at[infile] # Records[infile]
  <2>1. /\ at' = [at EXCEPT ![infile] = @ + 1]
        /\ got' = [from |-> infile, rec |-> at'[infile], nr |-> nr', fnr |-> fnr']
        /\ pc' = (IF caller = "main" THEN "body" ELSE caller)
        /\ UNCHANGED <<argv, argno, infile, slot0>>
    BY <1>4 DEF GetRead
  <2>2. pc' # "init"
    BY <2>1 DEF Working, Typed, PlaceOK
  <2>3. at'[infile] \in Nat \ {0}
    <3>1. at[infile] \in Nat /\ at'[infile] = at[infile] + 1
      BY <1>1, <2>1 DEF Working, Typed, ReadOK
    <3> QED
      BY <3>1
  <2>4. got'.from = infile /\ got'.rec = at'[infile] /\ got'.fnr = fnr'
    BY <2>1
  <2>5. ListOK'
    BY <2>1, SameList DEF Working, OwedOK
  <2>6. StartOK' /\ GotOK' /\ FnrOK' /\ BodyOK'
    BY <1>1, <2>1, <2>2, <2>3, <2>4 DEF StartOK, GotOK, FnrOK, BodyOK
  <2>7. OpenOK'
    BY <1>1, <2>1 DEF Working, OwedOK, OpenOK, ARGC
  <2>8. DashOK'
    <3> SUFFICES ASSUME infile = "stdin" PROVE NoDash(Past)'
      BY <2>1, <2>4 DEF DashOK
    <3>1. NoDash(argno + 1) /\ Past' = argno + 1
      BY <1>1, <2>1, NoDashNext DEF Working, Past
    <3> QED
      BY <2>1, <3>1 DEF NoDash
  <2> QED
    BY <2>5, <2>6, <2>7, <2>8 DEF OwedOK
<1> QED
  BY <1>2, <1>3, <1>4

LEMMA GetrecOwed == Working /\ getrec => OwedOK'
<1> SUFFICES ASSUME Working, getrec PROVE OwedOK'
  OBVIOUS
<1>1. CASE GetSkip \/ \E a \in Lets : GetSet(a)
  <2>1. /\ infile' = NoInput /\ argno' = argno + 1 /\ UNCHANGED <<argv, got>>
        /\ Running /\ pc' = "get"
    BY <1>1 DEF GetSkip, GetSet, GetAt, Turn, inputs, Running
  <2> QED
    BY <2>1, NextOwed
<1>2. CASE \E a \in Absent : GetFail(a)
  BY <1>2, IdleOwed DEF GetFail
<1>3. ASSUME NEW a \in Files \cup {"-"}, GetOpen(a) PROVE OwedOK'
  <2>1. /\ pc = "get" /\ pc' = "read" /\ getargv(argno) = a /\ infile = NoInput
        /\ infile' = (IF a = "-" THEN "stdin" ELSE a) /\ fnr' = 0
        /\ at' = (IF a = "-" THEN at ELSE [at EXCEPT ![a] = 0])
        /\ UNCHANGED <<argv, argno, got>>
    BY <1>3 DEF GetOpen, GetAt, Turn
  <2>2. Typed /\ ListOK /\ ReadOK /\ ArgvOK /\ DashOK /\ GotOK /\ Running
    BY <2>1 DEF Working, OwedOK, Typed, Running
  <2>3. a # "" /\ infile' \in Stream /\ infile' # NoInput
    BY <2>1, NoArgument, Streams, NoStream
  <2>4. argno \in DOMAIN argv /\ argno \in 1..Len(argv) /\ argv[argno] = a
    BY <2>1, <2>2, <2>3, ArgumentAt
  <2>5. argno < ARGC
    <3>1. Len(argv) \in Nat
      BY <2>2, ArgumentRange
    <3> QED
      BY <2>4, <3>1 DEF ARGC
  <2>6. got.from = "stdin" => a # "-"
    <3> SUFFICES ASSUME got.from = "stdin" PROVE a # "-"
      OBVIOUS
    <3>1. NoDash(argno)
      BY <2>1, <2>2 DEF DashOK, Past
    <3>2. argno >= argno
      BY <2>2, ArgumentRange
    <3> QED
      BY <2>4, <3>1, <3>2 DEF NoDash
  <2>7. got.from = infile' => got.rec # at'[infile']
    <3> SUFFICES ASSUME got.from = infile' PROVE got.rec # at'[infile']
      OBVIOUS
    <3>1. a # "-"
      BY <2>1, <2>6
    <3>2. infile' = a /\ at'[a] = 0
      BY <2>1, <2>2, <2>3, <3>1 DEF ReadOK
    <3>3. got.rec \in Nat \ {0}
      BY <2>2, <2>3 DEF GotOK
    <3> QED
      BY <3>2, <3>3
  <2>8. infile' = "stdin" \/ got.from = "stdin" => NoDash(Past)'
    <3> SUFFICES ASSUME infile' = "stdin" \/ got.from = "stdin" PROVE NoDash(Past)'
      OBVIOUS
    <3>1. Past' = argno + 1
      BY <2>1, <2>3 DEF Past
    <3>2. NoDash(argno + 1)
      <4>1. CASE got.from = "stdin"
        BY <2>2, <4>1, NoDashNext DEF Working
      <4>2. CASE infile' = "stdin"
        <5>1. a = "-"
          BY <2>1, <4>2, Names
        <5>2. \A i \in DOMAIN argv : argv[i] = "-" => i = argno
          BY <2>2, <2>4, <5>1 DEF ListOK
        <5>3. ~(argno >= argno + 1)
          BY <2>2, ArgumentRange
        <5> QED
          BY <5>2, <5>3 DEF NoDash
      <4> QED
        BY <4>1, <4>2
    <3> QED
      BY <2>1, <3>1, <3>2 DEF NoDash
  <2> QED
    BY <2>1, <2>3, <2>5, <2>7, <2>8, OpenOwed
<1>4. CASE GetEnd
  <2>1. /\ pc = "get" /\ ~Turn /\ got' = Nothing("end")
        /\ pc' = (IF caller = "main" THEN "END" ELSE caller)
        /\ UNCHANGED <<argv, argno, infile, slot0>>
    BY <1>4 DEF GetEnd, inputs
  <2>2. infile = NoInput /\ ~(argno < ARGC)
    BY <2>1 DEF Turn, Running, Working, OwedOK, OpenOK
  <2>3. argno >= ARGC
    <3>1. Len(argv) \in Nat /\ argno \in Nat
      BY ArgumentRange DEF Working, OwedOK
    <3> QED
      BY <2>2, <3>1 DEF ARGC
  <2>4. got'.from = "end"
    BY <2>1 DEF Nothing
  <2>5. pc' # "init"
    BY <2>1 DEF Working, Typed, PlaceOK
  <2>6. ListOK'
    BY <2>1, SameList DEF Working, OwedOK
  <2>7. StartOK' /\ GotOK' /\ FnrOK' /\ OpenOK'
    BY <2>1, <2>2, <2>4, <2>5, NoStream DEF StartOK, GotOK, FnrOK, OpenOK
  <2>8. BodyOK'
    BY <2>1, <2>2, <2>3 DEF BodyOK, ARGC
  <2>9. DashOK'
    BY <2>1, <2>2, <2>4, Streams, NoStream DEF DashOK
  <2> QED
    BY <2>6, <2>7, <2>8, <2>9 DEF OwedOK
<1> QED
  BY <1>1, <1>2, <1>3, <1>4, GetReadOwed DEF getrec

LEMMA ProgramOwed == Working /\ Program => spoilt' \/ OwedOK'
<1> SUFFICES ASSUME Working, Program PROVE spoilt' \/ OwedOK'
  OBVIOUS
<1>1. CASE Getline \/ MainLoop \/ Exit
  <2>1. /\ UNCHANGED <<argv, argno, infile, slot0, at, nr, fnr, got>>
        /\ pc' \in {"get", "END"} /\ Running
    BY <1>1 DEF Getline, MainLoop, Exit, Goto, inputs, counts, Running
  <2> QED
    BY <2>1, SameOwed DEF Working
<1>2. CASE Nextfile
  BY <1>2, NextfileOwed DEF Nextfile, Running
<1>3. CASE SetArg
  BY <1>3 DEF SetArg
<1>4. CASE CloseInput
  <2>1. CASE slot0 \in shut
    BY <1>4, <2>1, FaultOwed DEF CloseInput
  <2>2. CASE slot0 \notin shut
    BY <1>4, <2>2 DEF CloseInput
  <2> QED
    BY <2>1, <2>2
<1>5. CASE Finish
  <2>1. CASE slot0 = NoInput
    BY <1>5, <2>1, FaultOwed DEF Finish
  <2>2. CASE slot0 # NoInput
    BY <1>5, <2>2, IdleOwed DEF Finish
  <2> QED
    BY <2>1, <2>2
<1> QED
  BY <1>1, <1>2, <1>3, <1>4, <1>5 DEF Program

LEMMA RunOwed == Working /\ Run => OwedOK'
<1> SUFFICES ASSUME Working, Run PROVE OwedOK'
  OBVIOUS
<1>1. /\ argno' = 1 /\ pc' = "init" /\ nr' = 0 /\ fnr' = 0 /\ got' = Nothing("none")
      /\ UNCHANGED argv
  BY DEF Run
<1>2. ListOK'
  BY <1>1 DEF ListOK, Working, OwedOK
<1>3. got'.from = "none"
  BY <1>1 DEF Nothing
<1>4. ~Running' /\ pc' # "body"
  BY <1>1 DEF Running
<1> QED
  BY <1>1, <1>2, <1>3, <1>4, NoStream DEF OwedOK, StartOK, OpenOK, DashOK, GotOK, FnrOK, BodyOK

LEMMA NeverMended == Next /\ spoilt => spoilt'
BY DEF Next, Run, initgetrec, InitSkip, InitSet, InitOpen, InitFail, InitStdin, getrec, GetSkip,
       GetSet, GetRead, GetEnd, GetOpen, GetFail, Program, Getline, MainLoop, Exit, Goto,
       Nextfile, nextfile, Fault, SetArg, CloseInput, Finish

\* "-" at most once among the arguments of the host: with two of them, each
\* gets what the other leaves of the standard input.
OneDash == \A l \in ArgLists : \A i, j \in DOMAIN l : l[i] = "-" /\ l[j] = "-" => i = j

\* initgetrec, getrec and nextfile, for any files and arguments: a program
\* that leaves ARGV and its input alone gets every record and every assignment
\* of its arguments once and in order, with NR and FNR that go with them,
\* whatever mixture of main loop, getline, nextfile and exit asks for them,
\* provided that the host names the standard input once at most.
THEOREM InputImplementsRecordSource ==
  ASSUME OneDash
  PROVE  Spec => ImplementsRecordSource
<1>1. Init => SourceOK /\ Source!Init
  <2> SUFFICES ASSUME Init PROVE SourceOK /\ Source!Init
    OBVIOUS
  <2>1. /\ argv \in ArgLists /\ argno = 1 /\ infile = NoInput /\ pc = "idle"
        /\ slot0 \in {"stdin", "redir"} /\ shut = {} /\ fault = "none"
        /\ nr = 0 /\ set = <<>> /\ got = Nothing("none") /\ spoilt = FALSE
    BY DEF Init
  <2>2. got.from = "none"
    BY <2>1 DEF Nothing
  <2>3. ListOK
    BY <2>1 DEF ListOK, OneDash
  <2>4. ~Running /\ pc # "body" /\ pc # "init"
    BY <2>1 DEF Running
  <2>5. OwedOK
    BY <2>2, <2>3, <2>4, NoStream DEF OwedOK, StartOK, OpenOK, DashOK, GotOK, FnrOK, BodyOK
  <2>6. Source!Init
    BY <2>1 DEF Source!Init, Source!Nothing, Nothing
  <2> QED
    BY <2>5, <2>6 DEF SourceOK
<1>2. Typed /\ StreamOK /\ SourceOK /\ [Next]_vars => SourceOK'
  <2> SUFFICES ASSUME Typed, StreamOK, SourceOK, [Next]_vars, ~spoilt' PROVE OwedOK'
    BY DEF SourceOK
  <2>1. CASE UNCHANGED vars
    <3>1. /\ UNCHANGED <<argv, argno, infile, slot0, at, nr, fnr, got, pc>> /\ ~spoilt
      BY <2>1 DEF vars
    <3>2. Running' <=> Running
      BY <3>1 DEF Running
    <3> QED
      BY <3>1, <3>2, SameOwed DEF SourceOK
  <2>2. CASE Next
    <3>1. Working
      BY <2>2, NeverMended DEF Working, SourceOK
    <3> QED
      BY <2>2, <3>1, RunOwed, InitgetrecOwed, GetrecOwed, ProgramOwed DEF Next
  <2> QED
    BY <2>1, <2>2
<1>3. Typed /\ StreamOK /\ SourceOK /\ [Next]_vars => [Source!Next]_(Source!vars)
  <2> SUFFICES ASSUME Typed, StreamOK, SourceOK, [Next]_vars PROVE Allowed
    BY DEF Allowed
  <2>1. CASE UNCHANGED vars
    <3>1. UNCHANGED <<argv, argno, infile, slot0, at, nr, got, set, spoilt, pc>>
      BY <2>1 DEF vars
    <3>2. Todo' = Todo
      BY <3>1 DEF Todo, From, Items, Unread, FileArgs
    <3>3. (~spoilt' /\ pc' # "failed") = (~spoilt /\ pc # "failed")
      BY <3>1
    <3> QED
      BY <3>1, <3>2, <3>3 DEF Allowed, Source!vars
  <2>2. CASE Next /\ spoilt'
    BY <2>2, Spoils DEF Allowed
  <2>3. CASE Next /\ ~spoilt'
    <3>1. Working
      BY <2>3, NeverMended DEF Working, SourceOK
    <3> QED
      BY <2>3, <3>1, RunStep, InitgetrecStep, GetrecStep, ProgramStep DEF Next
  <2> QED
    BY <2>1, <2>2, <2>3
<1> QED
  BY <1>1, <1>2, <1>3, SpecTyped, SpecStream, PTL DEF Spec, ImplementsRecordSource, Source!Spec
=============================================================================
