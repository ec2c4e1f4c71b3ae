# awklib: specifications

TLA+ specifications, model-checking runs and machine-checked proofs for awklib, the AWK interpreter packaged as
a library (`src/`). They state what the parts of the interpreter that keep state owe each other, the AWK program
and the host, and show where the code delivers it, under which conditions, and where it does not.

`PROJECT.json` gives, for every definition, the source lines it stands for, and lists components, runs, mutants
(wrong versions of a definition that a property must notice), findings, hazards and theorems. This file explains
how the pieces fit.

1. [The system](#1-the-system) — components, state, interactions, what is hard, what makes each correct
2. [The modules](#2-the-modules) — which models what, and how state and actions correspond to the code
3. [The runs](#3-the-runs) — what each checks and shows, its bounds
4. [Fairness](#4-fairness)
5. [The proofs](#5-the-proofs) — what is proved, from what, along which argument
6. [Where the code departs from what is said of it](#6-findings)
7. [What is not modelled](#7-what-is-not-modelled)
8. [Plan](#8-plan)

## 1. The system

A host creates interpreters (`awk_init`), gives each a program and arguments, compiles and executes it, sets and
reads its variables, redirects its standard streams and calls back into it from external functions. All
interpreters of the process share one lexer, one parser and one global pointer, `interp`, to the interpreter at
work.

```
 host threads ──> API (libmain.cpp) ──lock──> lexer, parser ──> parse tree
      ^               │  interp                                    │
      │               v                                            v
 external fn <── Interpreter (interp.cpp): run ──────────> execute (run.cpp)
                      │                                            │
        ┌─────────────┼──────────────┬───────────────┐             │
        v             v              v               v             v
   main input    record cache    open files     symbol table <── cells (cell.cpp)
   ARGV, infile  $0, $1.. , NF   files[]        arrays (array.cpp)
```

| Component | State | Operations | Correct when |
|---|---|---|---|
| **Record cache** (interp.cpp 508-716, cell.cpp, run.cpp assign/indirect, b.cpp sub) | `fldtab` ($0 and the fields), NF, flags `donefld` and `donerec`, FS, OFS | getrec, fetching and assigning $n and NF, sub/gsub, host reads and writes | the two forms of a record are never both lost, never disagree while both are marked valid, an assignment to one reaches the other; no cell past the table is touched; rebuilding ends |
| **Field splitting** (interp.cpp 508-671, b.cpp 86-222) | position in the text, table size | one loop per kind of separator | nothing lost or repeated at either end; every loop moves on |
| **API life cycle** (libmain.cpp) | `awk_in_use`, `interp`, per interpreter `status`, `err`, program source | awk_init … awk_end from several threads | one thread inside at a time; `interp` is the caller's; status follows its path; errors land where they belong; every call returns |
| **Associative arrays** (array.cpp, run.cpp 438-526, 1337-1365) | buckets, count, size; the iterator of a `for (k in a)` | refer, in, delete, clear, grow, iterate | behaves as a set of subscripts; the count is right; loops visit what stays, once, and end |
| **Open files** (run.cpp 1506-1700, interp.cpp 164-275) | `files[]`: stream, name, mode; three standard slots | redirected print and getline, close, closeall, awk_redirect, reopening by `run` | a name and mode stand for one open stream until closed; no null or closed stream is used; none is lost |
| **Main input** (interp.cpp 311-398) | ARGV, `argno`, `infile`, NR, FNR, FILENAME | initgetrec, getrec (main loop and getline), nextfile | every record and assignment once, in order, with the right counts; getrec returns |
| **Control flow** (run.cpp 65-176, 1169-1365) | the C++ functions that are active, the jump cell one of them returned | every statement, exit, next, break, continue, return | each jump lands at the statement it is for, through everything nested in between |
| **Function calls** (run.cpp 177-340) | the frame `interp->fn`; for each call its parameters, what was passed, the frame before | call, return, use of parameters as scalars and arrays | a name means the variable or parameter of the function whose text it is in; scalars are copied, arrays shared; no freed cell is used |
| **Expression cache** (interp.cpp 727-779, b.cpp 35-73) | `ratab`: texts, expressions, hits | makedfa, at compile time and in a run | the expression handed out is the one of the text asked for |
| **Lexer, sources, parser** (lex.cpp, awkgram.y, parse.cpp, libmain.cpp 106-211, 510-544) | globals of the process: `sc`, `reg`, `bracecnt`, `parencnt`, `yysbuf`, `paircnt`, `pairstack`; the sources of an interpreter | awk_setprog, awk_addprogfile, awk_compile with yylex and yyparse, range patterns in a run | a program compiles to what its text says whatever was compiled before; a range belongs to one program |
| Built-ins, formatting, numbers (run.cpp, lib.cpp, tran.cpp) | none of their own | printf, substr, index, … | not modelled: values |

What interacts with what: statements reach the record cache through cells whose side effects depend on the type of the
cell (`REC`, `FLD`, `CNF`, `COFS`); getrec replaces the record and drops the fields; an assignment among the arguments
goes through `setclvar` and the same side effects; an external function may call the unlocked part of the API in the
middle of a statement; closing a file and ending a run act on the table that the main input compares its stream with;
all compilations of a process go through the globals of one lexer, and their ranges through one table; an error
anywhere is an exception that unwinds to the API function, which closes the files and leaves those globals; the
programs of all interpreters hold two cells, `literal0` and `literal_null`, of the symbol table of the one made last.

What is hard here, and hardly reached by the tests of the repository (which run one program once, from one
thread): the lazily rebuilt cache with two flags that five functions update in five ways; the pieces of API
functions outside the lock; slots, buckets and cells that are moved, freed or renamed while something still
points at them (an iterator, a print, the next run); the second run of a program over what the first one left;
one input position shared by main loop, getline and nextfile; jumps that are ordinary return values, which every
construct has to hand on; a frame and the cells of arguments that a call has to put back however it is left; lexer
globals that nothing resets. The list with source lines is `hazards` in
`PROJECT.json`.

## 2. The modules

Each component has a specification, a `…Props` module with its properties and the restricted workloads they are
asked for, a `MC…` module that gives the constants values, and, where something is proved, a `…Proofs` module.
Workloads: *Core* (or *Careful*) is the set of statements under which the component keeps its promise in full;
the unrestricted next-state relation has every statement, and its properties say what alone can break the
promise. Definitions marked `(Mutant)` are wrong on purpose; they stand next to the one they replace.
A behaviour the C++ code does not survive (a null or freed pointer, a cell past a table, recursion without end)
sets `fault` and stops: what follows is undefined.

**RecField** (with `FieldTable`, `RecordText`) models the record cache. The C++ functions `recbld`, `fldbld`,
`setlastfld`, `fieldadr`, `growfldtab`, `cleanfld`, `setfval`, `setsval` are operators on a record that holds the
whole cache; a statement (`Fetch`, `AssignField`, `CopyField`, `Substitute`, `AssignNF`, `Getline`, …) or host call
(`HostGet`, `HostSetString`, `HostSetNF`, …) composes them in the order of the code. `getrec` sets both flags before
it looks for a record, so that a read that finds none (`ReadNothing`, `GetlineNothing`) changes them too. `rec` is
`fldtab[0]->sval`, `fld` the other cells, `nfcell` the type of the cell of NF (naming NF in a program turns it into a
plain variable, `celltonode`). Texts are sequences of atoms; `Split` and `Join` are constants, given their meaning by
`RecordText` in the runs and only assumed to be typed in the proofs. `RecordView` is the abstract specification: a
record whose text and fields are always in step. `FieldTable` holds the arithmetic of the growing table; `DEFAULT_FLD`
(2 in the code) is its parameter.

**FieldScan** models the scanning loops of `fldbld`, `refldbld` and `split`, one turn a step (`BlankStep`,
`CharStep`, `SepStep`, `RegexStep`, `RegexLast`), and compares the result with the reference definition that
RecField uses, and the size of the table with `TableAfter`. Regular expressions are character classes, and a class with
a star, which matches the empty text: `StarStep` takes what matches, or nothing, over and over, as the loops of
`refldbld` and `split` do.

**AwkApi** models threads of a host calling the library. `Lock` takes `awk_in_use` and sets `interp` where the code
does; `awk_exec`'s test of the status, `awk_init`'s catch block and return value, `awk_end`, `awk_err` and
`awk_getvar` are steps outside the lock, as in the code. The lexer, parser and run of a program are the steps between
`Lock` and `Release` that read interpreters through `interp` or through the pointer of the caller. `mem` says
which interpreters exist; using one that does not is `fault`. So is the use of a cell of one that does not: `literals`
is the interpreter whose cells `literal0` and `literal_null` are (each constructor sets them to its own), `tree` whose
cells a compiled program holds. A parser may put them into a program, a run may use them, and `~Node` looks at them when
a program is deleted (`Uses`, `MayUse`).

**AwkArray** models the hash table and a `for (k in a)` loop over it. A chain is the set of the keys of a bucket
ordered by `rank`; `insert_sym` puts the new cell at the head and may rehash (or fail to, for want of memory), which
turns the chains round; the iterator is a bucket number and a pointer. `operator++` sets the bucket number only when
it leaves a chain, so after a rehash it goes on from the old one, and may go over buckets again. `KeySet` is the
abstract specification: a set of subscripts.

**FileTable** models `files[]`. `Obtain` is `openfile`: the slot of that name and mode, or else the first slot
without a stream, or a table with `FOPEN_MAX` more. A print is two steps, because its arguments are evaluated
between the look in the table (`PrintTo`, `PrintOut`) and the write (`Put`). `closefile`, `closeall`, `Run` (what
`Interpreter::run` does to the standard slots) and `Redirect` (`std_redirect`) follow the code, including what they
leave behind: `close` of a standard stream leaves a slot without name and stream, `closeall` leaves the pointer to a
freed name (`freed`; whether `strcmp` finds a name there is a nondeterministic choice). `Connections` is the
abstract specification: a set of connections, each a name, a mode and a stream.

**MainInput** models `initgetrec`, `getrec` and `nextfile`, one turn of a loop a step, and around them BEGIN, the
main loop, getline anywhere, nextfile, exit, END, and the next run. `infile` is the stream being read, `slot0` the
stream of `files[0]`, which the loop of `getrec` compares with it; `at` counts the records read of each stream.
`RecordSource` is the abstract specification: a sequence of records and assignments still to come.

**ControlFlow** (with `Contexts`) models `execute`, `program`, `jump` and the functions of the statements. `stack`
is the stack of the C++ functions that are active, each as the construct it works for and the part of it that is
executed (`"while cond"`, `"branch"`, `"arguments"`); `x` is what the last of them returned: a value, a jump cell, or
`"go"`, that the place is about to be executed. There is one action for each function of `run.cpp`, going up (what it
does with what came back) and `Enter`, `CallIn`, `jump` going down. The program is any program: at each place
whatever the grammar allows may come next. `next` stands for `nextfile` too, which `isnext` does not tell apart.
`Structured` is the abstract specification: a jump goes in one step where it is meant to.

**Calls** adds the cells: `calls` has, for each call, its parameters (`args`), what was passed (`callpar`) and the
frame to come back to; `fn` is `interp->fn`. `BeginCall`, `PassPlain` and `PassResult`, `StartBody`, `EndCall` are the
parts of `call` between which other code runs; `Trouble` is what its end does with freed or shared memory.
`awkgetline` is a getline into a name, which makes a scalar of whatever the cell holds, the array of the caller
included. `Environments` is the abstract specification: scopes, scalars by value, arrays by reference, and the array
that a function makes of a parameter. It gives no meaning to a call that leaves an array in an expression it was
passed, or a scalar in an array (`Meaningful`).

**Programs** (with `Regexes`, `Lexer`, `Parser`) models the programs of a process. `yylex` is an operator from the
globals of the lexer and the source to a token and both of them afterwards; it follows `gettok`, `word`, `regexpr`,
`input`, `unput` and `pgetc` character by character, because what is left over depends on it, for a part of the
language: names, BEGIN, braces, parentheses, commas, slashes, blanks, ends of line. `Parser` is the grammar of that
part as what each expected symbol may begin with. `yyparse` is one step per token: the lexer throws, the token is
refused, the table of ranges is full, a constant expression is refused by std::regex, or the parser goes on; each of
them is a disjunct. The order in a token counts: a range that ends at a `/` is counted, and may be refused, before
`startreg` is called for the slash (`Limited`), so the lexer is never left in the middle of an expression by that.
`dopa2` moves a range of the program that runs; `makedfa` is `Hit`, `Miss` or `Unusable`; `requote` turns `\xhh` into
`\ddd`. What the parser refuses a token with (a default reduction may come first) depends on its generator: whether a
range that is complete then is counted is a nondeterministic choice. `RangePatterns` is the abstract specification of
ranges: each program has its own.

How the modules meet: RecField takes the arrival of a record as one action, MainInput says which record arrives;
FileTable is asked for a stream by getline and print, MainInput for the stream in slot 0; AwkApi's `Start` to
`Finish` stand for a whole behaviour of the others: `Programs` for its compilations, `ControlFlow` and `Calls` for the
statements of a run. Calls extends ControlFlow and refines it; Structured and ControlFlow share the definition of what
may be nested in what. They are kept apart because their product is out of reach of
model checking; what one assumes of another is stated as its Core workload or as an input.

## 3. The runs

`tlc -config X.cfg M` with the module and configuration of the row. Each passing run has, for each of its
properties, a mutant in `PROJECT.json`: the definition of the code with a plausible mistake in it, under which the
property fails in the same run.

| Run | Module, cfg | Asks |
|---|---|---|
| rec_core | MCRecField, MCRecCore | can a Core program tell the lazy cache from a record that is always in step (`ImplementsRecordView`), are the cells past NF empty, does a rebuild run away or leave the table (`NoFault`) |
| rec_full | MCRecField, MCRecFull | with every statement and host call: what can leave the table (`OverrunCauses`), lose both forms (`BothLostOnlyBy`) or an assignment that has yet to reach `$0` (`StoreLostOnlyBy`), let them part (`PartOnlyBy`) |
| scan | MCFieldScan, MCFieldScan | do the three scanning functions end for every expression that does not match the empty text, cut as the reference does, and stay in the table (`FieldsAsReference`, `SplitAsFields`, `LoopsEnd`) |
| api_any | MCAwkApi, MCApiAny | whatever two threads call: one at a time inside; what alone can put an error into another interpreter (`ErrorAwayOnlyBy`) or start a program that is not compiled (`UncompiledOnlyShared`) |
| api_careful | MCAwkApi, MCApiCareful | hosts that make interpreters before threads and use each from one thread: right global, none left half way; what alone leads to the use of something deleted (`FaultCauses`); otherwise, under fair threads, every call returns (`CallsReturn`) |
| array | MCAwkArray, MCArray | is the table a set of subscripts; does a loop visit what stays, once, and end |
| files_core | MCFileTable, MCFileCore | is the table a set of connections to programs that leave the standard streams open |
| files_full | MCFileTable, MCFileFull | with any close, redirection and further run: is a stream lost, what can lead to a null or closed one |
| input | MCMainInput, MCMainInput | do records and assignments come once and in order, with NR, FNR, FILENAME; does getrec return |
| exec | MCCalls, MCCalls | do jumps land and names mean what they should in any program (`ImplementsStructured`, `ImplementsEnvironments`, `FrameIsOwn`), and which three things must a program do one of to make a call use memory that is freed or shared (`FaultCauses`) |
| compile | MCPrograms, MCPrograms | what does a compilation take from earlier ones (`CompileByText`), are the ranges of a program its own (`ImplementsRangePatterns`), can the cache of expressions be seen (`CacheTransparent`) |
| api_init_handles | MCAwkApi, MCApi_Init_HandlesDistinct | expected to fail, see [6](#6-findings) |

**Bounds, and why they are enough.**

- *rec_core.* Fields up to 3 (`MaxField`), texts up to 3 atoms (`MaxText`), a record without fields and one that has
  one field or three depending on FS, the table first of 2 cells as in the code. So a record exceeds the table on a
  split and on an assignment, grows and shrinks, contains empty fields, and both directions of rebuilding follow
  each other in every order; statements are not counted, so sequences of any length are covered. One new value and
  one new separator suffice because cells are compared with each other, never inspected. A Core program asks for no
  record past the last while an assignment to a field has yet to reach `$0`: that one loses it (see [6](#6-findings)).
- *rec_full.* Fields up to 2 over a first table of 1 cell: the same growth one size smaller, for twice as many kinds
  of statement. No step reads the outcome of the last, so states that differ only there are one state (`VIEW`); the
  action properties read `out'`, which every explored step has.
- *scan.* All texts of up to 6 atoms out of a letter, comma, blank, newline; separators none (RS empty), blank, one
  character, a class of two, the same with a star; the three functions. Six atoms allow four separators in a row at
  either end, and the table grows from 2 to 4 and to 8.
- *api_…* Two threads and two interpreters are the least that let a thread be between unlock and return, or between
  test and lock, while another takes the lock for another interpreter. Three calls a thread reach
  set program, compile, execute, or run, execute, end; the safety properties are proved for any number.
- *array.* Three keys, all in one bucket of a table of size 1 and spread differently when it has grown (hashes 1, 3,
  5): two rehashes, a failed one, a loop over a chain and over several buckets. Insertion, deletion and the loop
  interleave without limit.
- *files_…* Slots come in fours (the code takes the limit of the platform), so the fourth file makes the table grow;
  two names and "-", every mode, 6 streams (5 in the full run), 2 runs, the second over what the first one left.
- *input.* Every list of up to three arguments out of a file of two records, an empty one, a missing one, an
  assignment, "-" (once), and the empty string; the program may change one argument ahead, the host may redirect the
  input; 2 runs. Three arguments give something before, at, and after the one in question.

- *exec.* Four families of programs, each bounded where the others are not. `Whole`: every statement in a program with
  BEGIN, body and END, five functions deep (a jump out of a loop in a branch in a function in an expression), without
  parameters. `Parts`: the programs that lack a section, four deep. `Wide`: a call of two parameters from two
  variables, so that a variable is passed twice, or a parameter and what it was passed meet. `Deep`: two calls in each
  other or in each other's arguments, with one parameter. Values are two scalars (before and after) and two arrays
  (empty or not): the code only asks whether a cell is an array. Programs of the last two families read records into
  names or do not. The model ends at the first fault.
- *compile.* Four hosts. One compiles any texts of up to two symbols of nine, and fifteen longer ones, in any order and
  number in one interpreter; one compiles programs made of up to two files (`MaxFiles`), a file that cannot be opened
  among them; one has two interpreters with up to two ranges each in a table of four, replaced by others without end;
  one asks for five dynamic expressions, three plain and the two spellings of one, in a cache of two. The counters of
  the lexer drift by one below and above zero (`MaxDrift`; their sign alone is tested, and two more braces drift them
  further within a compilation), the count of ranges goes one past the full table (`MaxLate`), an entry is hit twice
  (`MaxHits`: enough for its slot to be kept or given up). `CompileByText` compares each compilation with `Alone`, the
  same operators begun with a clean lexer.

Deadlock is checked where the system must always be able to go on (rec_core; the API runs, whose `Over` step stands
for a host that makes no more calls; exec, whose `Finished` step is a run that has ended). It is off where the
behaviour really ends: a fault, the end of a text, the bounds on streams, runs and counters.

## 4. Fairness

- *API* (`CarefulLive`): weak fairness of each thread while it is inside a call. A thread between two
  steps is runnable, and `std::mutex` lets one waiting thread in when it is free; each thread makes at most `MaxCalls`
  calls, so nobody is overtaken for ever and weak fairness is enough. No fairness is assumed of the host's calls.
- *Scanning loops* (`FieldScan!Spec`): weak fairness of the next turn; a loop runs until its condition fails.
- *Array loop* (`AwkArrayProps!FairSpec`): weak fairness of the loop's own step, which says that each body ends. Its
  insertions and deletions are free, and they may go on for ever between visits. That the loop ends uses that the
  set of keys is finite; a body that makes ever new subscripts is not claimed to end.
- *getrec* (`MainInputProps!FairSpec`): weak fairness of the turns of its loop; the program around it owes nothing.

## 5. The proofs

`tlapm XProofs.tla`. Every theorem is about the specification the runs check, for all values of its constants.

**RecFieldProofs** (`CoreInvariant`, `CoreTypeOK`, `CoreNoFault`, `CoreEmptyPastNF`, `CoreImplementsRecordView`),
about `CoreSpec`. From `TextAssumption` (a blank is an atom), `FieldTableAssumption` (the table starts with a cell at
least) and the hypothesis `SplitJoinTyped`: splitting a text gives a sequence of texts, joining gives a text, and both
take the empty to the empty. `Split` and `Join` are otherwise arbitrary; `SplitBy` and `JoinBy`, which the runs put in
their place, are two such functions (`TextsAreTyped`), and the scanning loops compute `SplitBy`
(`FieldsAreReference`). The type invariant is not inductive: growing and clearing need `nf <= Len(fld)`, and a rebuild
ends only if the form it starts from is there. `IInv` says: the cache is `Sound` (typed, no fault, FS not an
expression, the table reaches NF and is empty past it); one form at least is valid after the first record and none
before. The lemmas follow the C++ functions from the inside out (extending the table, `cleanfld`, `fldbld`,
`setlastfld`, `recbld`, `setfval`, `setsval`), each stating what it does to a sound cache and to the view of it; each
statement then has a lemma that it keeps `IInv` and is a step of `RecordView`. `FullTypeOK`, `FullOverrunCauses`,
`FullBothLostOnlyBy`, `FullStoreLostOnlyBy` and `FullPartOnlyBy` are about `FullSpec`: every statement and every call
of the host, NF set past the table, regular expressions as FS. Little of `Sound` survives there, so these have lemmas
of their own. `Known` is what is invariant: the cache is typed, and FS and OFS hold values they were given. Each
function of the cache `Keeps` it: it does not shrink the table, takes no fault back, and leaves it by no step as long
as NF is in the table and FS no regular expression (`Calm`). `Matched` says, of the form that is rebuilt, that it is
the split or the join of the other under some separator, `Met` that NF is in the table besides. From these each
statement shows what it may lose (`LosesBoth`), part (`Parts`) or overrun (`Overruns`). An assignment to a field is
`Pending` until `$0` is built from the fields, or its own text replaces it; each statement keeps it (`Kept`) or is one
of those that replace `$0` (`Replaces`). The four properties are the sum over all statements. They rest on
`TextAssumption` and `SplitJoinTyped` alone.

**FieldScanProofs** (`FieldsAreReference`, `SplitsAreFields`), about `FieldScan!Spec`, for every text, FS and first
size of the table, from `FieldTableAssumption` and `ScanAssumption` (texts and separators are sequences of strings,
and "none", which stands for an empty FS, is no character). They are about expressions that do not match the empty
text (`Modelled`); with one that does, a loop that has stored a piece has not moved, and nothing is claimed of what it
stores (`StarInv`). The reference takes all the separators of a text at once: its i-th piece lies between the i-th and
the next of their places (`Nth`, by the number of smaller ones). A loop goes from left to right, so the reference is
first unrolled from the left: the first piece ends at the first separator and the others are those of the text after
it (`PiecesFirst`, which rests on counting the places without the first one, `NthRest`, and moved to the left,
`NthShifted`); the blanks before a word count for nothing (`WordsFrom`, by the first place where they would); a word
is a piece that is not empty (`NonEmptyFirst`, `WordsNext`). `ScanInv` then says that the pieces stored, followed by
what the reference makes of the rest (`Left`), are what it makes of the whole text, that the table has the size
`TableAfter` gives for them, and that it is not too small for them unless refldbld has just stored the last one.
`TableAfter` is the first of the sizes the table goes through (`Sizes`) that is enough (`SizeFor`), so that one more
piece grows it at most once (`TableGrows`). What the whole text gives is `Reference` (`LeftIsReference`), for split if
no newline tells the two apart. `TextsAreTyped` is about any atoms: what the theorems of the record cache assume of
splitting and joining (`SplitJoinTyped`) holds of `SplitBy` and `JoinBy`.

**AwkApiProofs** (`AnyTypeOK`, `AnyExclusion`, `AnyErrorAwayOnlyBy`, `AnyUncompiledOnlyShared`; `CarefulExclusion`,
`CarefulGlobalIsMine`, `CarefulFaultCauses`, `CarefulNeverStuck`, `CarefulStatusPath`, `CarefulErrorGoesHome`), for any
number of threads and interpreters, from `ApiAssumption`. The
first four are about `AnySpec`, whatever hosts do: exclusion is inductive by itself, because each step of a function
moves only the thread that takes it, and into the lock only when nobody is inside. `AllInPlace` adds where each thread
stands to its interpreter: inside the lock `interp` is that one, or null (a failed `awk_init` clears it without the
lock); what `awk_exec` saw of the status still holds, or another thread has the interpreter too, or it is deleted. What
a step of one thread may do to the others is `Effect`. The other theorems are about
`CarefulSpec`, in two layers. `CarefulInv`: exclusion and the global pointer are inductive only together with who owns
what (`Possession`: a thread's interpreters are live and nobody else's; `OnItsOwn`: a call works on one of them) and
`StillFresh`, that an interpreter is still what the host saw when the call gets the lock. All literal cells that
programs hold are then those of one interpreter, so that a fault needs that one to be gone. `Stage` ties status and
error of an interpreter to the place of its owner in a call; the action properties follow from both.

**AwkArrayProofs** (`ArrayTypeOK`, `ArrayCountRight`, `ArrayVisitsAll`, `ArrayImplementsKeySet`), about `Spec`, for
every finite set of keys, hash function and initial size, from `ArrayAssumption`. `Sound` (each key is in the bucket
of its hash) is what makes lookup find it; `CountExact` what makes `~Array` content. `VisitsAll` needs `OnCell` (the
iterator points into its bucket) and `Progress`: without a rehash everything not yet visited lies ahead of the
iterator in the order of buckets and chains, and everything visited behind it, where a key put in again (at the head
of its chain) lands too.

**FileTableProofs** (`FilesTypeOK`, `FilesNoFault`, `FilesImplementConnections`, about `CoreSpec`; `FilesFullTypeOK`,
`FilesNoLeak`, `FilesFaultCauses`, about `FullSpec`), for any set of names, any size of the table, any number of
streams and runs, from `FileAssumption`. That an existing connection is found, and a slot without a stream is free,
rests on `Sound`: a slot with a stream has an open one and a name that is not freed, one without has no name or a
freed one; that no stream is closed twice rests on `Apart`: slots in use differ in stream, and in name or mode. The
standard slots stay as the constructor made them (`StdSlots`), streams are numbered below the next one (`Opened`), a
run has no freed names and a print holds an open stream (`Running`). `FirstIn` is the least-number principle for the
search from the first slot on. Without `Freed = {}` when a run begins the invariant is false: that a run may begin
with freed names is what `FaultCauses` and files_full are about. With any close, redirection and run, what is left is
`FullInv`: the table has its shape, no two slots share a stream that is not one of the process (`Unshared`), streams
are numbered below the next one (`Numbered`), and every open one is in the table (`NoLeak`). `NoLeak` needs the other
three: a step that gives slots other streams leaves none open behind (`Changed`) only because no other slot has the
stream it closes, and the number of a new one is in no slot. `FaultCauses` is then read off the steps that may fault.

**CallsProofs** has first the theorems about jumps (`ControlSafe`, `ControlIsStructured`), about `ControlFlow!Spec`,
for every set of programs and any depth, from `ProgramsAssumption`. A jump on its way up is mapped to the place where
it will land (`LandPlace`), so each step that hands it up must leave that place as it is. This holds because of
`ControlInv`: a place begins with a section and has no other; what stands in an expression is a call (`Nested`), and a
return in a function (`Returns`); a jump is legal where it is, and only exit comes out of an expression. The lemmas
say what becomes of the innermost loop, function or expression of a place when its top phase is removed or exchanged;
each construct has one that its steps are steps of `Structured`.

Then those about calls (`CallsControl`, `CallsStructured`, `FrameAlwaysOwn`, `CallsMemory`, `CallsFaultCauses`,
`CallsImplementEnvironments`), about `CallsSpec`, from `ProgramsAssumption` and `CallsAssumption` (names of programs
are variables, and parameters and calls are no more than the bounds). Each step of Calls is a step of ControlFlow or
leaves it as it is, so that the first two theorems need no more of jumps. `FrameIsOwn` is inductive with `FrameInv`:
the calls lie in the stack in their order (`Placed`), and each remembers the innermost running call below it
(`ComesBack`), through arguments that are being evaluated and bodies that a jump leaves. The cells are the second
layer. `MemoryInv`: up to the first fault every variable has a value, and each parameter of each call has a cell of
its own, with a value, or is the cell of a variable, or of a parameter of a call further out, that holds an array, or
has held one and been read a record into (`Bound`). `Plain` and `PlainArguments` say what a program that passes no
expression cannot have: a call among the arguments of another, a temporary cell as an argument. `CallsFaultCauses`
follows from them at the step that copies arrays back and frees cells; the cell of a caller is freed there only if it
holds no array any more (`OverwrittenMeans`). The map to `Environments` gives a parameter the cell it came from
(`Parameter`, `Scopes`) and a variable its value (`Variables`). The one step that changes many cells at a time is the
end of a call: `CopiedBack` runs over the parameters by recursion, and is solved there explicitly (`CopiedBackIs`): a
cell gets the array made of the first parameter that was passed it (`Made`), if it holds none itself.

**ProgramsProofs** (`CacheIsTransparent`, `RangesAreOwn`, `CompilesByText`), about `Programs!Spec`, for any
interpreters, hosts, programs and sizes, from `ProgramsAssumption`. The proofs of the first two do not open the
definitions of lexer and parser: both results hold whatever they do. An entry of the cache is found by a quoted text
and was made from its own text quoted again: that these are one expression is `RequoteTwice`, that `requote` is
idempotent: no character it writes can be the `\` or the `x` of another `\xhh` (`RequoteShape`). `CacheInv` adds that
each entry is made from its own text. The refinement of `RangePatterns` rests on `RangeInv`: each place of the table
is given to one range of one program (`Apart`) and lies below `paircnt` (`Given`); places never given out are closed,
and so are those of a program that is still compiled (`Closed`); a compilation or a run is of an interpreter in that
status (`Turns`). `TokenStep` sums up what a token can do to the ranges: nothing, one more, or drop the program, with
perhaps one counted too many. That `awk_end` does not give places back is what keeps `Apart` true; uncounting them
(the mutant) would hand a place to two programs. `CompilesByText` is the opposite: it is about what the lexer and the
parser do, for texts of any length, and compares each compilation with the one of its program in a process that has
compiled nothing (`Alone`). It is about compilations that have ended, and becomes inductive as `CompileInv`, which
says what holds while the parser is at work (`Reading`):
- the stack of the parser closes what is open (`Accounts`). `Pays(k, s, a, b)` says that the symbols of s, summed with
  their `Weight`, take a open braces (or parentheses) to b without going below zero on the way. Each rule of the
  grammar conserves it (`Lawful`) and an optional symbol weighs nothing, so the counter of the lexer is at all times
  what it was at the start, plus what the tokens so far opened, less what they closed; a program that compiles ends
  with nothing to close;
- the lexer moves its counters by the token it returns and by nothing else (`Good`: one lemma for each case of `yylex`;
  the `}` that is still owed after its `;` counts as open), and each token uses up text, or a flag that the next one
  clears (`Room`), so that `2 * Len(text) + 2` steps are enough for any program;
- two lexers that differ in their counters alone read the same token and differ by the same afterwards, or are parted
  at a `}` or `)` that one of them has open and the other has not (`OffsetIs`);
- so a compilation that began in a clean lexer, up to counters, follows the one alone (`Follows`): either both are in
  the same state but for the counters (`Twin`), or the one alone has been refused at a `}` that only a left-over count
  let through (`Doomed`), and this one is refused at the same `}`, when it is returned after its `;`;
- one that began with an owed `}` or a put-back 0 has read nothing yet (`Fresh`): its first token decides.

The proof found an error of the model: `yyparse` called `startreg` for a `/` also when the table of ranges was full,
which would have left the next compilation to begin inside an expression. No program of the runs shows it; the code
throws first (`pa2stat`, parse.cpp 265).

**MainInputProofs** (`InputTypeOK`, `RecordsNamed`, `UsedOnlyOpen`, `InputImplementsRecordSource`), about `Spec`, for
any files, arguments and number of runs, from `InputAssumption`. `FileOK` adds to `NamesFile` the same of the open
file (`NamedOK`), which for the first file rests on FILENAME and FNR being untouched while initgetrec looks for it
(`FirstOK`). `ClosedOK` says, for a program that leaves ARGV and its input alone, what each state of slot 0 goes with:
no stream in it only between runs, nothing closed and the other input not open while it has one; an input that was
redirected needs "no `-` in ARGV" for that, since `-` opens the standard input beside it.
`InputImplementsRecordSource` is the refinement: every step delivers the head of the input to come, takes up an
assignment at its head, passes over the rest of a file, or leaves the input to come alone. It has the hypothesis
`OneDash`, that no list of arguments of the host has `-` twice (the lists of the run have it once at most): with two,
each gets what the other leaves of the standard input, and the records to come are not the sum over the arguments. The
view folds over ARGV from the left and is used up there too, so the recursion in `FlattenSeq` is solved first
(`FlattenBy`, by the least length without a solution) and turned round (`FlattenFirst`). `OwedOK` is the invariant:
FNR continues the last record of the open file (`FnrOK`), a body has that record at hand (`BodyOK`), getrec reports
the end only when no file is open or left (`OpenOK`), and once records came from `-` no other `-` is left (`DashOK`),
so that reading them takes nothing from the arguments to come (`SameFrom`).

**Only model-checked.** Every invariant and action property of the passing runs is stated by a theorem (`TypeOK` of FileTable,
and `StatusPath` and `ErrorGoesHome` of a careful host, by theorems alone). What stays with TLC is liveness (`CallsReturn`, both `LoopsEnd`, `GetrecReturns`): the prover has no rule for fairness. It is also
TLC that shows that the cases the theorems speak of occur.

<a id="6-findings"></a>
## 6. Where the code departs from what is said of it

One run states what the documentation says and fails; `findings` in `PROJECT.json` quotes the lines.

*api_init_handles.* `awk_init` returns the global pointer after its lock is gone (libmain.cpp 100): two threads in it at
once may be given the same interpreter, and lose the other.

Other things the models show. They are in the models as the code has them, and the restricted workloads or the
`…OnlyBy` and `…Causes` properties delimit them:

- `OFS=|` given to `awk_init`, as in an example of `api.md`: `setsval` rebuilds the record before there is one, `recbld`
  asks for a field, `fldbld` for the record, until the stack ends (cell.cpp 116, interp.cpp 610, 508).
- A redirection that outlives a run cannot be ended: `closeall` has set the slot to null, which `std_redirect` closes
  (interp.cpp 179).
- `sub` on a field while `$0` is out of date, or a host write to one, marks both forms invalid (cell.cpp 103).
- A read that finds no record marks `$0` valid and the fields out of date all the same (interp.cpp 347): after
  `END{$0="a b";$1="x";getline;print}` the assignment is gone and "a b" is printed. `getline <file` loses one likewise
  when there is no such file.
- `getline` into `$3`, `getline <file` and setting NF in a program that names it leave a flag standing and the two forms
  apart (run.cpp 420, parse.cpp 221).
- `refldbld` stores the piece after the last match past the table when that is full (interp.cpp 655); `split` with an
  expression that is FS loses the last piece (b.cpp 133).
- With an expression that matches the empty text, `refldbld` and `split` store empty pieces without end (interp.cpp 653,
  b.cpp 133), and `gsub` loops likewise (b.cpp 323).
- The catch block of `awk_init` runs outside the lock, and an error thrown before `interp` is set is recorded in the
  interpreter of an earlier call; an error of `awk_getvar` makes a later `awk_compile` report failure.
- `literal0` and `literal_null` are cells of the interpreter made last (interp.cpp 98). When that one is ended first,
  each program that has `$0` in it, said or not, has freed cells in its tree: compiling, running and ending another
  interpreter use them. `FaultCauses` says that nothing else goes wrong for a careful host.
- `awk_exec` returns 0 when it refuses, and the code of the previous run when the program does not exit
  (libmain.cpp 217, 237).
- FILENAME is not set for the first file, and "-" as first argument is taken for a file name (interp.cpp 331).
- `getrec` does not return when slot 0 has no stream (interp.cpp 352). With the input redirected and "-" among the
  arguments, nextfile or the end of the argument closes the process's standard input; so does `closeall` through the
  slot of `getline <"-"`.
- Names freed by `closeall` are compared in the next run (interp.cpp 271).
- When a function makes an array of a parameter that was passed an expression, the end of the call writes the array
  through the pointer to the temporary cell, which is free by then (run.cpp 218, 289); when it was passed a constant, or
  the result of a jump out of a call, the constant or the jump cell becomes an array. When a body ends without return
  in an assignment to a parameter, or in a deletion or use of one, the value of the call is the freed cell of the
  parameter (run.cpp 317).
- `getline` into a parameter that stands for an array of the caller makes that cell a scalar, and the end of the call
  takes it for a local one and deletes it (interp.cpp 443, run.cpp 309): `function f(a) {getline a; return 0} BEGIN
  {x[1]=1; f(x)}`. One into a plain array name loses its table.
- When one variable is passed for two parameters and the function makes arrays of both, the variable gets the first;
  the other is never freed.
- `exit` in a function that is called for its value ends only the expression it is called in: the operators take the
  jump cell for a value (`Structured` says so, since every operator of the code does).
- A compilation that fails leaves its counters, a `}` owed and what was put back to the next one of the process
  (lex.cpp 44-46, 191, 654). Below zero, a counter refuses every `}` or `)` of a later program that is not nested deep
  enough to make up for it, and goes one further down each time; a `}` owed makes any next program an error; a
  put-back 0 compiles the next text as an empty program, with success. `CompileByText` says that nothing else is taken
  over.
- The message of a syntax error at the end of the last program file takes `progs[nprog]` (libmain.cpp 541).
- "Limited to 50 pat,pat statements" (parse.cpp 267) is a limit on all programs a process ever compiles; a range that
  is refused is counted. A range that is open when a run ends is open when the next run of the program begins.
- "Replace least-recently used" (interp.cpp 766) replaces the least often hit, and a new entry has no hits: once the
  cache is full with entries that have been hit, all further expressions share one slot. An expression with `\xhh` is
  filed under a text it is not looked up by, and is compiled each time it is used. `requote` takes the `\x41` of
  `\\x41`, an escaped backslash and three letters, for a character.

## 7. What is not modelled

- *Values*: numbers, the numeric half of a cell, CONVFMT, formatting and built-ins that only compute (tran.cpp, the
  printf and string functions of run.cpp). They keep no state between statements.
- *Characters*: cutting a stream into records by RS (`readrec`) is one step; scanning expressions are classes of
  characters, once or any number of times; the loop of `gsub` is one step.
- *Parsing*: the rest of the language in `Lexer` and `Parser` (numbers, strings, comments, brackets, the other operators
  and keywords, function definitions, `infunc` and `inloop`, which yyinit does reset), the parse tree, and the errors of
  `setfname`, `checkdup` and `adjbuf`. ControlFlow takes statements as the grammar nests them.
- *Expressions*: which value a condition or an operand has; what a regular expression matches (`match`, `pmatch`,
  std::regex).
- *awk_run* as an operation of Programs: it is awk_setprog, awk_compile and awk_exec under one lock; and a second
  awk_setprog before a compilation.
- *API*: `awk_addarg`, `awk_addfunc`, `awk_setvar`, `awk_setdebug` and the input and output functions
  as calls of threads; the effect of `awk_setvar` and `awk_getvar` on fields is in RecField, that of `awk_redirect` in
  FileTable.
- *Calls from a host function into a locked function* of the library: the thread waits for itself; documented use
  does not do it, and no workload here does.
- *Samples, test driver, project files*: clients of the library.

## 8. Plan

What could follow, the most useful first.

1. `ReadRecord` (`readrec`): RS newline, one character, empty; `ungetc` in paragraph mode with an input function;
   refines the one step of MainInput.
2. Function definitions in `Parser`, with the names of parameters (`arglist`) and functions defined twice.
3. Programs composed with AwkApi's `Parse`: threads that compile in turn, each over what the other left in the lexer.
