------------------------------- MODULE AwkApi -------------------------------
(***************************************************************************)
(* The life cycle of interpreters and the calls of the library by several  *)
(* threads: the mutex awk_in_use, the global variable interp that the      *)
(* locked functions point at the interpreter they work for, and the steps  *)
(* some functions take outside the lock.                                   *)
(*                                                                         *)
(* A locked function is two or more steps: Lock takes the mutex (and sets  *)
(* interp), the following steps read the interpreter through interp or     *)
(* through the pointer of the caller, as the code does.  Crash is a step   *)
(* that would use an interpreter that has been deleted, or none, or one of *)
(* its cells: the globals literal0 and literal_null are cells of the       *)
(* interpreter made last, and every parser puts them in its program.       *)
(***************************************************************************)
EXTENDS Naturals

CONSTANTS Thread, Interp,   \* threads of the host; places for interpreters
          NULL,             \* no interpreter, no thread
          MaxCalls          \* bound: calls each thread makes

ASSUME ApiAssumption == NULL \notin Interp /\ NULL \notin Thread /\ MaxCalls \in Nat

VARIABLES mem,      \* an Interpreter: "free" (not made yet), "live" or "deleted"
          status,   \* Interpreter::status
          err,      \* Interpreter::err
          source,   \* program text (lexprog) or program files (nprog)
          tree,     \* whose literal cells the program (prog_root) holds, if any
          interp,   \* the global variable
          literals, \* whose cells literal0 and literal_null are
          mutex,    \* awk_in_use: the thread that holds it
          pc, fn, obj,   \* where a thread is, in which call, for which interpreter
          ret,      \* how the last call of a thread ended, if it has
          own,      \* the interpreters awk_init gave a thread
          calls,    \* calls a thread has made
          fault

object == <<mem, status, err, source, tree>>
thread == <<pc, fn, obj, ret, own, calls>>
vars == <<object, interp, literals, mutex, thread, fault>>

Statuses == {"INIT", "COMPILING", "COMPILED", "RUN", "DONE"}
Errors   == {"BADSTAT", "PROGFILE", "NOPROG", "SYNTAX", "RUNTIME", "NOVAR", "INVVAR"}
Minus    == Errors \cup {"minus"}         \* what is negative; "minus": exit with such a value
Codes    == Minus \cup {"ok", "exit"}     \* "exit": exit with a positive value
Ways     == {"none", "init", "program", "badstat", "noprog", "syntax", "olderror", "compiled",
             "refused", "noexit", "exit", "fatal", "geterr", "getvar", "end"}

Init == /\ mem = [i \in Interp |-> "free"]
        /\ status = [i \in Interp |-> "INIT"]
        /\ err = [i \in Interp |-> "ok"]
        /\ source = [i \in Interp |-> "none"]
        /\ tree = [i \in Interp |-> NULL]
        /\ interp = NULL /\ literals = NULL /\ mutex = NULL
        /\ pc = [t \in Thread |-> "idle"]
        /\ fn = [t \in Thread |-> "none"]
        /\ obj = [t \in Thread |-> NULL]
        /\ ret = [t \in Thread |-> <<"none", "ok">>]
        /\ own = [t \in Thread |-> {}]
        /\ calls = [t \in Thread |-> 0]
        /\ fault = FALSE
-----------------------------------------------------------------------------
(* FATAL and SYNTAX record the error in the interpreter interp points at.  *)
Live(i) == i \in Interp /\ mem[i] = "live"

Goto(t, l) == pc' = [pc EXCEPT ![t] = l]

Record(e) == err' = [err EXCEPT ![interp] = e]

SetStatus(i, s) == status' = [status EXCEPT ![i] = s]

\* The call returns; how tells what happened, code what was returned.
Return(t, how, code) == /\ Goto(t, "idle")
                        /\ ret' = [ret EXCEPT ![t] = <<how, code>>]

\* ... and the lock_guard goes out of scope.
Release(t, how, code) == mutex' = NULL /\ Return(t, how, code)

\* awk_compile returns 0 for any failure, awk_run the error of its interpreter.
NotCompiled(t, how) ==
  Release(t, how, IF fn[t] = "run" THEN err'[obj[t]] ELSE "failed")

Begin(t, f, i) == /\ pc[t] = "idle" /\ calls[t] < MaxCalls
                  /\ calls' = [calls EXCEPT ![t] = @ + 1]
                  /\ fn' = [fn EXCEPT ![t] = f]
                  /\ obj' = [obj EXCEPT ![t] = i]
                  /\ ret' = [ret EXCEPT ![t] = <<"none", "ok">>]

\* The interpreters the next step of a thread uses.
NeedsGlobal(t) == \/ status[obj[t]] # "INIT"
                  \/ fn[t] = "compile" /\ source[obj[t]] # "text"

\* The interpreter whose cells are in the program of i: ~Node looks at every
\* cell of the tree.
Held(i) == IF i \in Interp THEN {tree[i]} \ {NULL} ELSE {}

Uses(t) ==
  CASE pc[t] \in {"initvars", "body", "start", "program", "ending"} -> {interp}
    [] pc[t] = "initcatch" -> ({interp} \ {NULL}) \cup Held(interp)
    [] pc[t] = "check" /\ ~Live(obj[t]) -> {obj[t]}
    [] pc[t] = "check" /\ Live(obj[t]) -> IF NeedsGlobal(t) THEN {interp} ELSE {}
    [] pc[t] = "parse" -> {obj[t], interp}
    [] pc[t] = "end" -> {obj[t]} \cup Held(obj[t])
    [] pc[t] \in {"test", "host", "geterr", "getvar"} -> {obj[t]}
    [] OTHER -> {}

\* ... and those it uses if the program has $0 in it, unsaid or not, or a
\* parameter (rectonode, nullnode), or runs into a function that returns
\* nothing (literal_null).
MayUse(t) ==
  CASE pc[t] = "parse" -> {literals}
    [] pc[t] \in {"program", "ending"} -> {literals} \cup Held(interp)
    [] OTHER -> {}

Safe(t) == \A i \in Uses(t) : Live(i)

Crash(t) == /\ ~Safe(t) \/ \E i \in MayUse(t) : ~Live(i)
            /\ fault' = TRUE
            /\ UNCHANGED <<object, interp, literals, mutex, thread>>

At(t, l) == pc[t] = l /\ Safe(t) /\ UNCHANGED <<fn, obj, calls, literals, fault>>
-----------------------------------------------------------------------------
(* awk_init: the lock is gone before the catch block and the return.       *)
AwkInit(t) ==
  \E i \in Interp :
    /\ Begin(t, "init", NULL)
    /\ mutex = NULL /\ mem[i] = "free"
    /\ mem' = [mem EXCEPT ![i] = "live"]
    /\ interp' = i /\ literals' = i /\ mutex' = t
    /\ Goto(t, "initvars")
    /\ UNCHANGED <<status, err, source, tree, own, fault>>

InitVars(t) ==
  /\ At(t, "initvars")
  /\ mutex' = NULL
  /\ \/ Goto(t, "initret") /\ UNCHANGED err
     \/ Goto(t, "initcatch") /\ Record("INVVAR")
  /\ UNCHANGED <<mem, tree, status, source, interp, ret, own>>

InitCatch(t) ==
  /\ At(t, "initcatch")
  /\ mem' = IF interp = NULL THEN mem ELSE [mem EXCEPT ![interp] = "deleted"]
  /\ interp' = NULL
  /\ Goto(t, "initret")
  /\ UNCHANGED <<status, err, source, tree, mutex, ret, own>>

\* (Mutant) A failed awk_init returns the null pointer as an interpreter.
InitReturnNull(t) ==
  /\ At(t, "initret")
  /\ own' = [own EXCEPT ![t] = @ \cup {interp}]
  /\ Return(t, "init", "ok")
  /\ UNCHANGED <<object, interp, mutex>>

InitReturn(t) ==
  /\ At(t, "initret")
  /\ own' = [own EXCEPT ![t] = @ \cup ({interp} \ {NULL})]
  /\ Return(t, "init", "ok")
  /\ UNCHANGED <<object, interp, mutex>>
-----------------------------------------------------------------------------
(* The functions that lock.  awk_exec looks at the status before it does.  *)
Call(t, f, i) ==
  /\ f \in {"setprog", "addprogfile", "compile", "run", "exec"}
  /\ Begin(t, f, i)
  /\ Goto(t, IF f = "exec" THEN "test" ELSE "lock")
  /\ UNCHANGED <<object, interp, literals, mutex, own, fault>>

\* (Mutant) awk_exec looks at nothing.
ExecTestNone(t) ==
  /\ At(t, "test") /\ Goto(t, "lock")
  /\ UNCHANGED <<object, interp, mutex, ret, own>>

ExecTest(t) ==
  /\ At(t, "test")
  /\ IF status[obj[t]] # "COMPILED"
       THEN /\ err' = [err EXCEPT ![obj[t]] = "NOPROG"]
            /\ Return(t, "refused", "ok")
       ELSE Goto(t, "lock") /\ UNCHANGED <<err, ret>>
  /\ UNCHANGED <<mem, tree, status, source, interp, mutex, own>>

\* Where a function is once it has the lock.
Entry(f) == IF f = "exec" THEN "start"
            ELSE IF f \in {"compile", "run"} THEN "check" ELSE "body"

\* (Mutant) interp is left as it was.
LockOnly(t) ==
  /\ At(t, "lock") /\ mutex = NULL
  /\ mutex' = t
  /\ Goto(t, Entry(fn[t]))
  /\ UNCHANGED <<object, interp, ret, own>>

\* (Mutant) The lock does not wait.
LockAtOnce(t) ==
  /\ At(t, "lock")
  /\ mutex' = t
  /\ interp' = IF fn[t] \in {"compile", "run"} THEN interp ELSE obj[t]
  /\ Goto(t, Entry(fn[t]))
  /\ UNCHANGED <<object, ret, own>>

Lock(t) ==
  /\ At(t, "lock") /\ mutex = NULL
  /\ mutex' = t
  /\ interp' = IF fn[t] \in {"compile", "run"} THEN interp ELSE obj[t]
  /\ Goto(t, Entry(fn[t]))
  /\ UNCHANGED <<object, ret, own>>

\* awk_setprog and awk_addprogfile.
SetProgram(t) ==
  LET kind  == IF fn[t] = "setprog" THEN "text" ELSE "files"
      other == IF fn[t] = "setprog" THEN "files" ELSE "text"
  IN  /\ At(t, "body")
      /\ \/ /\ status[interp] # "INIT"
            /\ Record("BADSTAT") /\ Release(t, "program", "BADSTAT")
            /\ UNCHANGED source
         \/ /\ status[interp] = "INIT" /\ source[interp] = other
            /\ Record("PROGFILE") /\ Release(t, "program", "PROGFILE")
            /\ UNCHANGED source
         \/ /\ status[interp] = "INIT" /\ source[interp] # other
            /\ source' = [source EXCEPT ![interp] = kind]
            /\ Release(t, "program", "ok")
            /\ UNCHANGED err
      /\ UNCHANGED <<mem, tree, status, interp, own>>

NoProgram(t) == /\ fn[t] = "compile" /\ source[obj[t]] # "text"
                /\ source[interp] # "files"

\* (Mutant) interp is not set before the parser runs.
CheckInterpLate(t) ==
  /\ At(t, "check") /\ status[obj[t]] = "INIT" /\ ~NoProgram(t)
  /\ source' = IF fn[t] = "run" THEN [source EXCEPT ![obj[t]] = "text"] ELSE source
  /\ SetStatus(obj[t], "COMPILING")
  /\ Goto(t, "parse")
  /\ UNCHANGED <<mem, tree, err, interp, mutex, ret, own>>

\* awk_compile and awk_run up to yyparse.  A failure is thrown before interp
\* is set: it goes to whatever interpreter that points at.
Check(t) ==
  LET i == obj[t]
  IN  /\ At(t, "check")
      /\ \/ /\ status[i] # "INIT"
            /\ Record("BADSTAT") /\ SetStatus(i, "DONE")
            /\ NotCompiled(t, "badstat")
            /\ UNCHANGED <<source, interp>>
         \/ /\ status[i] = "INIT" /\ NoProgram(t)
            /\ Record("NOPROG") /\ SetStatus(i, "DONE")
            /\ NotCompiled(t, "noprog")
            /\ UNCHANGED <<source, interp>>
         \/ /\ status[i] = "INIT" /\ ~NoProgram(t)
            /\ interp' = i
            /\ source' = IF fn[t] = "run" THEN [source EXCEPT ![i] = "text"] ELSE source
            /\ SetStatus(i, "COMPILING")
            /\ Goto(t, "parse")
            /\ UNCHANGED <<err, mutex, ret>>
      /\ UNCHANGED <<mem, tree, own>>

\* The program gets its tree, with the literal cells of the moment or without.
Grown(i) == \E l \in {literals, NULL} : /\ l # NULL => Live(l)
                                        /\ tree' = [tree EXCEPT ![i] = l]

\* (Mutant) A syntax error leaves the status as it was.
ParseUncaught(t) ==
  /\ At(t, "parse")
  /\ \/ Record("SYNTAX") /\ NotCompiled(t, "syntax") /\ UNCHANGED status
     \/ /\ fn[t] = "compile" /\ SetStatus(obj[t], "COMPILED")
        /\ Release(t, "compiled", "ok") /\ UNCHANGED err
     \/ /\ fn[t] = "run" /\ Goto(t, "start")
        /\ UNCHANGED <<err, mutex, ret, status>>
  /\ UNCHANGED <<mem, tree, source, interp, own>>

\* (Mutant) A syntax error returns with the lock.
ParseNoUnlock(t) ==
  /\ At(t, "parse")
  /\ \/ /\ Record("SYNTAX") /\ SetStatus(obj[t], "DONE")
        /\ Return(t, "syntax", "failed") /\ UNCHANGED mutex
     \/ /\ fn[t] = "compile" /\ SetStatus(obj[t], "COMPILED")
        /\ Release(t, "compiled", "ok") /\ UNCHANGED err
     \/ /\ fn[t] = "run" /\ Goto(t, "start")
        /\ UNCHANGED <<err, mutex, ret, status>>
  /\ UNCHANGED <<mem, tree, source, interp, own>>

\* yyparse, and the test of err after it: an error of an earlier call makes
\* a good program one that does not compile.
Parse(t) ==
  LET i == obj[t]
  IN  /\ At(t, "parse")
      /\ \/ /\ Record("SYNTAX") /\ SetStatus(i, "DONE")
            /\ NotCompiled(t, "syntax")
            /\ UNCHANGED tree
         \/ /\ err[i] # "ok"
            /\ UNCHANGED <<err, status, tree>>
            /\ NotCompiled(t, "olderror")
         \/ /\ err[i] = "ok" /\ fn[t] = "compile"
            /\ Grown(i)
            /\ SetStatus(i, "COMPILED")
            /\ Release(t, "compiled", "ok")
            /\ UNCHANGED err
         \/ /\ err[i] = "ok" /\ fn[t] = "run"
            /\ Grown(i)
            /\ Goto(t, "start")
            /\ UNCHANGED <<err, status, mutex, ret>>
      /\ UNCHANGED <<mem, source, interp, own>>
-----------------------------------------------------------------------------
(* Interpreter::run and the end of awk_exec and awk_run.                   *)
Start(t) ==
  /\ At(t, "start")
  /\ SetStatus(interp, "RUN")
  /\ Goto(t, "program")
  /\ UNCHANGED <<mem, tree, err, source, interp, mutex, ret, own>>

\* The program calls an external function, which may look at a variable that
\* does not exist (once per run: a bound).
Callback(t) ==
  /\ At(t, "program")
  /\ Goto(t, "host")
  /\ UNCHANGED <<object, interp, mutex, ret, own>>

HostReturns(t) ==
  /\ At(t, "host")
  /\ Goto(t, "ending")
  /\ UNCHANGED <<object, interp, mutex, ret, own>>

HostGetvarFails(t) ==
  /\ At(t, "host")
  /\ err' = [err EXCEPT ![obj[t]] = "NOVAR"]
  /\ Goto(t, "ending")
  /\ UNCHANGED <<mem, tree, status, source, interp, mutex, ret, own>>

\* The end of the program: no exit statement, exit with a code, a FATAL.
Ends(t, how, e) ==
  /\ err' = [err EXCEPT ![interp] = e]
  /\ SetStatus(interp, IF e \in Minus THEN "DONE" ELSE "COMPILED")
  /\ Release(t, how, e)

Finish(t) ==
  /\ At(t, pc[t]) /\ pc[t] \in {"program", "ending"}
  /\ \/ Ends(t, "noexit", err[interp])
     \/ Ends(t, "exit", "ok")
     \/ Ends(t, "exit", "exit")
     \/ Ends(t, "exit", "minus")
     \/ Ends(t, "fatal", "RUNTIME")
  /\ UNCHANGED <<mem, tree, source, interp, own>>
-----------------------------------------------------------------------------
(* The functions that do not lock.                                         *)
Unlocked(t, f, i) ==
  /\ f \in {"geterr", "getvar", "end"}
  /\ Begin(t, f, i)
  /\ Goto(t, f)
  /\ UNCHANGED <<object, interp, literals, mutex, own, fault>>

AwkErr(t) ==
  /\ At(t, "geterr")
  /\ Return(t, "geterr", err[obj[t]])
  /\ UNCHANGED <<object, interp, mutex, own>>

\* awk_getvar of a name the interpreter does not have.
AwkGetvar(t) ==
  /\ At(t, "getvar")
  /\ err' = [err EXCEPT ![obj[t]] = "NOVAR"]
  /\ Return(t, "getvar", "NOVAR")
  /\ UNCHANGED <<mem, tree, status, source, interp, mutex, own>>

AwkEnd(t) ==
  /\ At(t, "end")
  /\ mem' = [mem EXCEPT ![obj[t]] = "deleted"]
  /\ own' = [own EXCEPT ![t] = @ \ {obj[t]}]
  /\ Return(t, "end", "ok")
  /\ UNCHANGED <<status, err, source, tree, interp, mutex>>

\* What a thread in a call does next.
Inside(t) ==
  /\ pc[t] # "idle"
  /\ \/ InitVars(t) \/ InitCatch(t) \/ InitReturn(t)
     \/ ExecTest(t) \/ Lock(t) \/ SetProgram(t) \/ Check(t) \/ Parse(t)
     \/ Start(t) \/ Callback(t) \/ HostReturns(t) \/ Finish(t)
     \/ AwkErr(t) \/ AwkGetvar(t) \/ AwkEnd(t) \/ Crash(t)
=============================================================================
