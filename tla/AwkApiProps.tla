---------------------------- MODULE AwkApiProps ----------------------------
(***************************************************************************)
(* What the library owes its hosts, and the hosts for which it is asked.   *)
(***************************************************************************)
EXTENDS AwkApi

Locked == {"initvars", "body", "check", "parse", "start", "program", "host", "ending"}
Working == {"body", "parse", "start", "program", "host", "ending"}
Waiting == {"idle", "initcatch", "initret", "test", "lock", "geterr", "getvar", "end"}

\* Type invariant.
TypeOK ==
  /\ mem \in [Interp -> {"free", "live", "deleted"}]
  /\ status \in [Interp -> Statuses]
  /\ err \in [Interp -> Codes]
  /\ source \in [Interp -> {"none", "text", "files"}]
  /\ tree \in [Interp -> Interp \cup {NULL}]
  /\ interp \in Interp \cup {NULL} /\ literals \in Interp \cup {NULL}
  /\ mutex \in Thread \cup {NULL}
  /\ pc \in [Thread -> Locked \cup Waiting]
  /\ fn \in [Thread -> {"none", "init", "setprog", "addprogfile", "compile", "run",
                        "exec", "geterr", "getvar", "end"}]
  /\ obj \in [Thread -> Interp \cup {NULL}]
  /\ ret \in [Thread -> Ways \X (Codes \cup {"failed"})]
  /\ own \in [Thread -> SUBSET Interp]
  /\ calls \in [Thread -> Nat]
  /\ fault \in BOOLEAN

\* At most one thread is between the lock and the unlock of a function, in
\* every host: the lexer, the parser and the program run use globals.
Exclusion == \A t \in Thread : pc[t] \in Locked => mutex = t

\* From the moment a function has set interp until it unlocks, interp is the
\* interpreter it works for: no other thread takes it away under it.
GlobalIsMine == \A t \in Thread : pc[t] \in Working => interp = obj[t]

\* No function uses an interpreter that is deleted, or none, unless the host
\* has ended the interpreter it made last and goes on with another: the cells
\* behind literal0 and literal_null went with it, and the parser, the run and
\* the deletion of a program use them.
FaultCauses == fault => /\ ~Live(literals)
                        /\ \E i \in Interp : Live(i)

\* No function leaves an interpreter half way: compiling or running.
NeverStuck == \A t \in Thread : pc[t] = "idle" =>
                \A i \in own[t] : status[i] \notin {"COMPILING", "RUN"}

\* An interpreter moves along its life cycle only: it runs only once compiled,
\* and one that is done stays so.
Steps == {<<"INIT", "COMPILING">>, <<"COMPILING", "COMPILED">>, <<"COMPILING", "RUN">>,
          <<"COMPILED", "RUN">>, <<"RUN", "COMPILED">>} \cup (Statuses \X {"DONE"})
StatusPath ==
  [][\A i \in Interp : status'[i] # status[i] /\ mem[i] = "live"
                         => <<status[i], status'[i]>> \in Steps]_vars

\* A call that fails records the error in the interpreter it was given
\* (awk_err: "Return last error code and message"), and changes no other's.
ErrorGoesHome ==
  [][\A i \in Interp : err'[i] # err[i]
       => \E t \in Thread : pc'[t] # pc[t] /\ (obj[t] = i \/ fn[t] = "init")]_vars

\* Whatever the host calls, an error is put into an interpreter that is not the
\* caller's only by the tests awk_compile and awk_run make before they set
\* interp, where it lands in the interpreter of an earlier call; the global
\* cannot slip to another interpreter at any later place.
ErrorAwayOnlyBy ==
  [][\A i \in Interp : err'[i] # err[i]
       => \E t \in Thread : /\ pc'[t] # pc[t]
                            /\ obj[t] = i \/ fn[t] = "init"
                                 \/ (pc[t] = "check" /\ status'[obj[t]] = "DONE")]_vars

\* Whatever the host calls, a program starts in an interpreter that is not
\* compiled (awk_exec looks at the status before it has the lock) only if two
\* threads use that interpreter.
UncompiledOnlyShared ==
  [][\A i \in Interp : status'[i] = "RUN" /\ status[i] \notin {"RUN", "COMPILING", "COMPILED"}
       => \E t, u \in Thread : t # u /\ i \in own[t] \cap own[u]]_vars

\* Two threads never get the same interpreter from awk_init.
HandlesDistinct ==
  \A t, u \in Thread : t # u => own[t] \cap own[u] = {}

\* Every call returns, or falls into the cells that are gone.
CallsReturn == \A t \in Thread : pc[t] # "idle" ~> pc[t] = "idle" \/ fault
-----------------------------------------------------------------------------
(* A careful host makes its interpreters before it starts its threads, one *)
(* thread uses an interpreter, and it calls what the status allows.  It    *)
(* ends its interpreters in any order, the one made last as well.          *)
PooledInit ==
  /\ mem = [i \in Interp |-> "live"]
  /\ status = [i \in Interp |-> "INIT"]
  /\ err = [i \in Interp |-> "ok"]
  /\ source = [i \in Interp |-> "none"]
  /\ tree = [i \in Interp |-> NULL]
  /\ interp \in Interp /\ literals = interp /\ mutex = NULL
  /\ pc = [t \in Thread |-> "idle"]
  /\ fn = [t \in Thread |-> "none"]
  /\ obj = [t \in Thread |-> NULL]
  /\ ret = [t \in Thread |-> <<"none", "ok">>]
  /\ \E owner \in [Interp -> Thread] :
       own = [t \in Thread |-> {i \in Interp : owner[i] = t}]
  /\ calls = [t \in Thread |-> 0]
  /\ fault = FALSE

CarefulCall(t) ==
  \E i \in own[t] :
    \/ status[i] = "INIT" /\ source[i] = "none" /\ Call(t, "setprog", i)
    \/ status[i] = "INIT" /\ source[i] = "text" /\ Call(t, "compile", i)
    \/ status[i] = "INIT" /\ source[i] = "none" /\ Call(t, "run", i)
    \/ status[i] # "INIT" /\ Call(t, "exec", i)
    \/ Unlocked(t, "geterr", i)
    \/ Unlocked(t, "end", i)

\* The host makes no more calls, or is no more.
Over == (fault \/ \A t \in Thread : pc[t] = "idle") /\ UNCHANGED vars

CarefulNext == \/ ~fault /\ \E t \in Thread : CarefulCall(t) \/ Inside(t)
               \/ Over

CarefulSpec == PooledInit /\ [][CarefulNext]_vars
CarefulLive == CarefulSpec /\ \A t \in Thread : WF_vars(~fault /\ Inside(t))

\* Any host: every thread calls everything for every interpreter it has.
AnyCall(t, have) ==
  \/ AwkInit(t)
  \/ \E i \in have : \/ \E f \in {"setprog", "addprogfile", "compile", "run", "exec"} :
                          Call(t, f, i)
                     \/ \E f \in {"geterr", "getvar", "end"} : Unlocked(t, f, i)

AnyNext == \/ ~fault /\ \E t \in Thread : AnyCall(t, own[t]) \/ Inside(t)
                                           \/ HostGetvarFails(t)
           \/ Over
AnySpec == Init /\ [][AnyNext]_vars

\* A careful host that also makes the calls More(t).
Also(More(_)) == \/ ~fault /\ \E t \in Thread : More(t) \/ CarefulCall(t) \/ Inside(t)
                 \/ Over

WithInit == Init /\ [][Also(AwkInit)]_vars
=============================================================================
