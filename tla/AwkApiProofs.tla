---------------------------- MODULE AwkApiProofs ----------------------------
(***************************************************************************)
(* For every number of threads and of interpreters: the functions of the   *)
(* library exclude each other in any host (AnySpec), and there an error goes *)
(* astray, and a program starts uncompiled, only in the ways the source has. *)
(* Under a careful host (CarefulSpec) each function has interp to itself   *)
(* while it works, and none uses an interpreter that is deleted unless the *)
(* literal cells are, although the tests of awk_exec, awk_end and awk_err are *)
(* made outside the lock and those of awk_compile before interp is set.    *)
(***************************************************************************)
EXTENDS AwkApiProps, TLAPS

(* Any host (AnySpec): types and exclusion.                                *)

\* What a step uses is there, whatever the other threads did.
LEMMA SafeObject ==
  ASSUME NEW t \in Thread, Safe(t), pc[t] \in {"check", "parse", "test", "end", "geterr", "getvar"}
  PROVE  Live(obj[t])
BY DEF Safe, Uses

LEMMA SafeGlobal ==
  ASSUME NEW t \in Thread, Safe(t), pc[t] \in {"initvars", "body", "start", "program", "ending"}
  PROVE  Live(interp)
BY DEF Safe, Uses

LEMMA ReturnTyped ==
  ASSUME TypeOK, NEW t \in Thread, NEW how \in Ways, NEW code \in Codes \cup {"failed"},
         Return(t, how, code)
  PROVE  /\ pc' \in [Thread -> Locked \cup Waiting]
         /\ ret' \in [Thread -> Ways \X (Codes \cup {"failed"})]
<1>1. <<how, code>> \in Ways \X (Codes \cup {"failed"})
  OBVIOUS
<1>2. "idle" \in Locked \cup Waiting
  BY DEF Waiting
<1> HIDE DEF Ways, Codes, Locked, Waiting
<1> QED
  BY <1>1, <1>2 DEF Return, Goto, TypeOK

LEMMA RecordTyped ==
  ASSUME TypeOK, NEW i, NEW e \in Codes, err' = [err EXCEPT ![i] = e]
  PROVE  err' \in [Interp -> Codes]
BY DEF TypeOK

LEMMA StatusTyped ==
  ASSUME TypeOK, NEW i, NEW x \in Statuses, SetStatus(i, x)
  PROVE  status' \in [Interp -> Statuses]
BY DEF TypeOK, SetStatus

LEMMA GotoTyped ==
  ASSUME TypeOK, NEW t \in Thread, NEW l \in Locked \cup Waiting, Goto(t, l)
  PROVE  pc' \in [Thread -> Locked \cup Waiting]
BY DEF TypeOK, Goto

LEMMA CallTyped ==
  ASSUME TypeOK, NEW t \in Thread, AnyCall(t, own[t])
  PROVE  TypeOK'
<1>1. PICK f \in {"init", "setprog", "addprogfile", "compile", "run", "exec", "geterr",
                  "getvar", "end"}, i \in Interp \cup {NULL},
           l \in {"initvars", "test", "lock", "geterr", "getvar", "end"} :
        Begin(t, f, i) /\ Goto(t, l)
  BY DEF AnyCall, AwkInit, Call, Unlocked, TypeOK
<1>2. l \in Locked \cup Waiting
  BY DEF Locked, Waiting
<1>3. pc' \in [Thread -> Locked \cup Waiting]
  BY <1>1, <1>2, GotoTyped
<1>4. /\ mem' \in [Interp -> {"free", "live", "deleted"}]
      /\ interp' \in Interp \cup {NULL} /\ mutex' \in Thread \cup {NULL}
      /\ literals' \in Interp \cup {NULL}
      /\ UNCHANGED <<status, err, source, tree, own, fault>>
  BY DEF AnyCall, AwkInit, Call, Unlocked, TypeOK, object
<1>5. /\ fn' = [fn EXCEPT ![t] = f] /\ obj' = [obj EXCEPT ![t] = i]
      /\ ret' = [ret EXCEPT ![t] = <<"none", "ok">>]
      /\ calls' = [calls EXCEPT ![t] = @ + 1]
  BY <1>1 DEF Begin
<1>6. obj' \in [Thread -> Interp \cup {NULL}]
  BY <1>5 DEF TypeOK
<1>7. calls' \in [Thread -> Nat]
  BY <1>5 DEF TypeOK
<1>8. fn' \in [Thread -> {"none", "init", "setprog", "addprogfile", "compile", "run",
                        "exec", "geterr", "getvar", "end"}]
  BY <1>5 DEF TypeOK
<1>9. ret' \in [Thread -> Ways \X (Codes \cup {"failed"})]
  <2>1. <<"none", "ok">> \in Ways \X (Codes \cup {"failed"})
    BY DEF Ways, Codes
  <2> QED
    BY <1>5, <2>1 DEF TypeOK
<1> QED
  BY <1>3, <1>4, <1>6, <1>7, <1>8, <1>9 DEF TypeOK

LEMMA InitTyped ==
  ASSUME TypeOK, NEW t \in Thread, InitVars(t) \/ InitCatch(t) \/ InitReturn(t)
  PROVE  TypeOK'
<1>1. UNCHANGED <<fn, obj, calls, literals, fault, tree, status, source>>
  BY DEF InitVars, InitCatch, InitReturn, At, object
<1>2. CASE InitVars(t)
  <2>1. "INVVAR" \in Codes /\ {"initret", "initcatch"} \subseteq Locked \cup Waiting
    BY DEF Codes, Minus, Errors, Waiting
  <2>2. err' \in [Interp -> Codes]
    BY <1>2, <2>1, RecordTyped DEF InitVars, Record, TypeOK
  <2>3. pc' \in [Thread -> Locked \cup Waiting]
    BY <1>2, <2>1, GotoTyped DEF InitVars
  <2>4. UNCHANGED <<mem, interp, ret, own>> /\ mutex' = NULL
    BY <1>2 DEF InitVars
  <2> QED
    BY <1>1, <2>2, <2>3, <2>4 DEF TypeOK
<1>3. CASE InitCatch(t)
  <2>1. "initret" \in Locked \cup Waiting
    BY DEF Waiting
  <2>2. pc' \in [Thread -> Locked \cup Waiting]
    BY <1>3, <2>1, GotoTyped DEF InitCatch
  <2>3. mem' \in [Interp -> {"free", "live", "deleted"}]
    BY <1>3 DEF InitCatch, TypeOK
  <2>4. UNCHANGED <<err, mutex, ret, own>> /\ interp' = NULL
    BY <1>3 DEF InitCatch
  <2> QED
    BY <1>1, <2>2, <2>3, <2>4 DEF TypeOK
<1>4. CASE InitReturn(t)
  <2>1. "init" \in Ways /\ "ok" \in Codes
    BY DEF Ways, Codes
  <2>2. own' \in [Thread -> SUBSET Interp]
    BY <1>4 DEF InitReturn, TypeOK
  <2>3. UNCHANGED <<mem, err, interp, mutex>> /\ Return(t, "init", "ok")
    BY <1>4 DEF InitReturn, object
  <2> QED
    BY <1>1, <2>1, <2>2, <2>3, ReturnTyped DEF TypeOK
<1> QED
  BY <1>2, <1>3, <1>4

LEMMA ExecTestTyped ==
  ASSUME TypeOK, NEW t \in Thread, ExecTest(t)
  PROVE  TypeOK'
<1>1. UNCHANGED <<fn, obj, calls, literals, fault, tree, mem, status, source, interp, mutex, own>>
  BY DEF ExecTest, At
<1>2. CASE status[obj[t]] # "COMPILED"
  <2>1. err' = [err EXCEPT ![obj[t]] = "NOPROG"] /\ Return(t, "refused", "ok")
    BY <1>2 DEF ExecTest
  <2>2. "NOPROG" \in Codes /\ "ok" \in Codes /\ "refused" \in Ways
    BY DEF Codes, Minus, Errors, Ways
  <2> QED
    BY <1>1, <2>1, <2>2, ReturnTyped, RecordTyped DEF TypeOK
<1>3. CASE status[obj[t]] = "COMPILED"
  <2>1. Goto(t, "lock") /\ UNCHANGED <<err, ret>> /\ "lock" \in Locked \cup Waiting
    BY <1>3 DEF ExecTest, Waiting
  <2> QED
    BY <1>1, <2>1, GotoTyped DEF TypeOK
<1> QED
  BY <1>2, <1>3

LEMMA LockTyped ==
  ASSUME TypeOK, NEW t \in Thread, Lock(t)
  PROVE  TypeOK'
<1>1. Entry(fn[t]) \in Locked \cup Waiting
  BY DEF Entry, Locked
<1>2. pc' \in [Thread -> Locked \cup Waiting]
  BY <1>1, GotoTyped DEF Lock
<1>3. interp' \in Interp \cup {NULL} /\ mutex' = t
  BY DEF TypeOK, Lock
<1>4. UNCHANGED <<fn, obj, calls, literals, fault, tree, mem, status, err, source, ret, own>>
  BY DEF Lock, At, object
<1> QED
  BY <1>2, <1>3, <1>4 DEF TypeOK

LEMMA SetProgramTyped ==
  ASSUME TypeOK, NEW t \in Thread, SetProgram(t)
  PROVE  TypeOK'
<1>1. UNCHANGED <<fn, obj, calls, literals, fault, tree, mem, status, interp, own>> /\ mutex' = NULL
  BY DEF SetProgram, At, Release
<1>2. \E e \in {"BADSTAT", "PROGFILE", "ok"} :
         /\ Return(t, "program", e)
         /\ err' = [err EXCEPT ![interp] = e] \/ err' = err
  BY DEF SetProgram, Release, Record
<1>3. source' \in [Interp -> {"none", "text", "files"}]
  BY DEF SetProgram, TypeOK
<1>4. {"BADSTAT", "PROGFILE", "ok"} \subseteq Codes /\ "program" \in Ways
  BY DEF Codes, Minus, Errors, Ways
<1> QED
  BY <1>1, <1>2, <1>3, <1>4, ReturnTyped, RecordTyped DEF TypeOK

LEMMA CheckTyped ==
  ASSUME TypeOK, NEW t \in Thread, Check(t)
  PROVE  TypeOK'
<1>1. UNCHANGED <<fn, obj, calls, literals, fault, tree, mem, own>>
  BY DEF Check, At
<1>2. status' \in [Interp -> Statuses]
  BY StatusTyped DEF Check, Statuses
<1>3. source' \in [Interp -> {"none", "text", "files"}]
  BY DEF Check, TypeOK
<1>4. err' \in [Interp -> Codes]
  BY RecordTyped DEF Check, TypeOK, Record, Codes, Minus, Errors
<1>5. obj[t] \in Interp /\ err'[obj[t]] \in Codes
  BY <1>4, SafeObject DEF Check, At, Live
<1>6. interp' \in Interp \cup {NULL} /\ mutex' \in Thread \cup {NULL}
  BY <1>5 DEF Check, TypeOK, NotCompiled, Release
<1>7. \/ Goto(t, "parse") /\ ret' = ret
      \/ \E how \in {"badstat", "noprog"}, code \in Codes \cup {"failed"} :
           Return(t, how, code)
  BY <1>5 DEF Check, NotCompiled, Release
<1>8. "parse" \in Locked \cup Waiting /\ {"badstat", "noprog"} \subseteq Ways
  BY DEF Locked, Ways
<1>9. /\ pc' \in [Thread -> Locked \cup Waiting]
      /\ ret' \in [Thread -> Ways \X (Codes \cup {"failed"})]
  BY <1>7, <1>8, GotoTyped, ReturnTyped DEF TypeOK
<1> QED
  BY <1>1, <1>2, <1>3, <1>4, <1>6, <1>9 DEF TypeOK

LEMMA ParseTyped ==
  ASSUME TypeOK, NEW t \in Thread, Parse(t)
  PROVE  TypeOK'
<1>1. UNCHANGED <<fn, obj, calls, literals, fault, mem, own, source, interp>>
  BY DEF Parse, At
<1>9. tree' \in [Interp -> Interp \cup {NULL}]
  BY DEF Parse, Grown, TypeOK
<1>2. status' \in [Interp -> Statuses]
  BY StatusTyped DEF Parse, TypeOK, Statuses
<1>3. err' \in [Interp -> Codes]
  BY RecordTyped DEF Parse, TypeOK, Record, Codes, Minus, Errors
<1>4. mutex' \in Thread \cup {NULL}
  BY DEF Parse, TypeOK, NotCompiled, Release
<1>5. obj[t] \in Interp /\ err'[obj[t]] \in Codes
  BY <1>3, SafeObject DEF Parse, At, Live
<1>6. \/ Goto(t, "start") /\ ret' = ret
      \/ \E how \in {"syntax", "olderror", "compiled"}, code \in Codes \cup {"failed"} :
           Return(t, how, code)
  BY <1>5 DEF Parse, NotCompiled, Release, Codes
<1>7. "start" \in Locked \cup Waiting /\ {"syntax", "olderror", "compiled"} \subseteq Ways
  BY DEF Locked, Ways
<1>8. /\ pc' \in [Thread -> Locked \cup Waiting]
      /\ ret' \in [Thread -> Ways \X (Codes \cup {"failed"})]
  BY <1>6, <1>7, GotoTyped, ReturnTyped DEF TypeOK
<1> QED
  BY <1>1, <1>2, <1>3, <1>4, <1>8, <1>9 DEF TypeOK

LEMMA ProgramTyped ==
  ASSUME TypeOK, NEW t \in Thread,
         Start(t) \/ Callback(t) \/ HostReturns(t) \/ HostGetvarFails(t)
  PROVE  TypeOK'
<1>1. UNCHANGED <<fn, obj, calls, literals, fault, tree, mem, source, interp, mutex, ret, own>>
  BY DEF Start, Callback, HostReturns, HostGetvarFails, At, object
<1>2. "RUN" \in Statuses /\ "NOVAR" \in Codes
      /\ {"program", "host", "ending"} \subseteq Locked \cup Waiting
  BY DEF Statuses, Codes, Minus, Errors, Locked
<1>3. pc' \in [Thread -> Locked \cup Waiting]
  BY <1>2, GotoTyped DEF Start, Callback, HostReturns, HostGetvarFails
<1>4. status' \in [Interp -> Statuses]
  BY <1>2, StatusTyped DEF Start, Callback, HostReturns, HostGetvarFails, object, TypeOK
<1>5. err' \in [Interp -> Codes]
  BY <1>2, RecordTyped DEF Start, Callback, HostReturns, HostGetvarFails, object, TypeOK
<1> QED
  BY <1>1, <1>3, <1>4, <1>5 DEF TypeOK

LEMMA FinishTyped ==
  ASSUME TypeOK, NEW t \in Thread, Finish(t)
  PROVE  TypeOK'
<1>1. UNCHANGED <<fn, obj, calls, literals, fault, tree, mem, own, source, interp>>
  BY DEF Finish, At
<1>2. interp \in Interp
  BY SafeGlobal DEF Finish, At, Live
<1>3. PICK how \in {"noexit", "exit", "fatal"}, e \in {err[interp], "ok", "exit", "minus", "RUNTIME"} :
        Ends(t, how, e)
  BY DEF Finish
<1>4. how \in Ways /\ e \in Codes
  BY <1>2 DEF Ways, Codes, Minus, Errors, TypeOK
<1>5. status' \in [Interp -> Statuses]
  BY <1>3, StatusTyped DEF Ends, Statuses
<1> QED
  BY <1>1, <1>3, <1>4, <1>5, ReturnTyped, RecordTyped DEF Ends, Release, TypeOK

LEMMA UnlockedTyped ==
  ASSUME TypeOK, NEW t \in Thread, AwkErr(t) \/ AwkGetvar(t) \/ AwkEnd(t)
  PROVE  TypeOK'
<1>1. UNCHANGED <<fn, obj, calls, literals, fault, tree, status, source, interp, mutex>>
  BY DEF AwkErr, AwkGetvar, AwkEnd, At, object
<1>2. err[obj[t]] \in Codes
  BY SafeObject DEF AwkErr, AwkGetvar, AwkEnd, At, Live, TypeOK
<1>3. "NOVAR" \in Codes /\ "ok" \in Codes /\ {"geterr", "getvar", "end"} \subseteq Ways
  BY DEF Codes, Minus, Errors, Ways
<1>4. /\ pc' \in [Thread -> Locked \cup Waiting]
      /\ ret' \in [Thread -> Ways \X (Codes \cup {"failed"})]
  BY <1>2, <1>3, ReturnTyped DEF AwkErr, AwkGetvar, AwkEnd
<1>5. err' \in [Interp -> Codes]
  BY <1>3, RecordTyped DEF AwkErr, AwkGetvar, AwkEnd, object, TypeOK
<1>6. mem' \in [Interp -> {"free", "live", "deleted"}]
  BY DEF AwkErr, AwkGetvar, AwkEnd, object, TypeOK
<1>7. own' \in [Thread -> SUBSET Interp]
  BY DEF AwkErr, AwkGetvar, AwkEnd, object, TypeOK
<1> QED
  BY <1>1, <1>4, <1>5, <1>6, <1>7 DEF TypeOK

\* Any step inside a call.
LEMMA InsideTyped ==
  ASSUME TypeOK, NEW t \in Thread, Inside(t) \/ HostGetvarFails(t)
  PROVE  TypeOK'
<1>1. CASE Crash(t)
  BY <1>1 DEF Crash, TypeOK, object, thread
<1> QED
  BY <1>1, InitTyped, ExecTestTyped, LockTyped, SetProgramTyped, CheckTyped, ParseTyped,
     ProgramTyped, FinishTyped, UnlockedTyped DEF Inside

\* A thread that is not inside stays outside, goes in when nobody holds the
\* lock and takes it, or lets it go when it comes out.
Move(t, l) ==
  /\ Goto(t, l)
  /\ \/ UNCHANGED mutex /\ (l \in Locked => pc[t] \in Locked)
     \/ mutex' = NULL /\ pc[t] \in Locked /\ l \notin Locked
     \/ mutex = NULL /\ mutex' = t

LEMMA MoveExcludes ==
  ASSUME TypeOK, Exclusion, NEW t \in Thread, NEW l, Move(t, l)
  PROVE  Exclusion'
<1> SUFFICES ASSUME NEW u \in Thread, pc'[u] \in Locked PROVE mutex' = u
  BY DEF Exclusion
<1>1. pc' = [pc EXCEPT ![t] = l] /\ pc \in [Thread -> Locked \cup Waiting]
  BY DEF Move, Goto, TypeOK
<1>2. \A v \in Thread : pc[v] \in Locked => mutex = v
  BY DEF Exclusion
<1> HIDE DEF Locked, Waiting
<1>3. CASE u = t
  BY <1>1, <1>2, <1>3 DEF Move
<1>4. CASE u # t
  BY <1>1, <1>2, <1>4, ApiAssumption DEF Move
<1> QED
  BY <1>3, <1>4

LEMMA CallExcludes ==
  ASSUME TypeOK, Exclusion, NEW t \in Thread, AnyCall(t, own[t])
  PROVE  Exclusion'
<1>1. \E l \in {"initvars", "test", "lock", "geterr", "getvar", "end"} : Move(t, l)
  BY DEF AnyCall, AwkInit, Call, Unlocked, Move, Locked
<1> QED
  BY <1>1, MoveExcludes

LEMMA InsideMoves ==
  ASSUME NEW t \in Thread, Inside(t) \/ HostGetvarFails(t)
  PROVE  Crash(t) \/ \E l : Move(t, l)
<1> USE DEF Locked, Move, At
<1>1. CASE InitVars(t) \/ InitCatch(t) \/ InitReturn(t)
  BY <1>1 DEF InitVars, InitCatch, InitReturn, Return
<1>2. CASE ExecTest(t) \/ AwkErr(t) \/ AwkGetvar(t) \/ AwkEnd(t)
  BY <1>2 DEF ExecTest, AwkErr, AwkGetvar, AwkEnd, Return
<1>3. CASE Lock(t)
  BY <1>3 DEF Lock
<1>4. CASE SetProgram(t)
  BY <1>4 DEF SetProgram, Release, Return
<1>5. CASE Check(t)
  BY <1>5 DEF Check, NotCompiled, Release, Return
<1>6. CASE Parse(t)
  BY <1>6 DEF Parse, NotCompiled, Release, Return
<1>7. CASE Start(t) \/ Callback(t) \/ HostReturns(t) \/ HostGetvarFails(t)
  BY <1>7 DEF Start, Callback, HostReturns, HostGetvarFails
<1>8. CASE Finish(t)
  BY <1>8 DEF Finish, Ends, Release, Return
<1> QED
  BY <1>1, <1>2, <1>3, <1>4, <1>5, <1>6, <1>7, <1>8 DEF Inside

LEMMA InsideExcludes ==
  ASSUME TypeOK, Exclusion, NEW t \in Thread, Inside(t) \/ HostGetvarFails(t)
  PROVE  Exclusion'
<1>1. CASE Crash(t)
  BY <1>1 DEF Crash, Exclusion, thread
<1> QED
  BY <1>1, InsideMoves, MoveExcludes

LEMMA AnyInvariant == AnySpec => [](TypeOK /\ Exclusion)
<1>1. Init => TypeOK /\ Exclusion
  <2> SUFFICES ASSUME Init PROVE TypeOK /\ Exclusion
    OBVIOUS
  <2>1. {"INIT"} \subseteq Statuses /\ "ok" \in Codes /\ "none" \in Ways
        /\ "idle" \in Waiting /\ "idle" \notin Locked
    BY DEF Statuses, Codes, Ways, Waiting, Locked
  <2>2. Exclusion
    BY <2>1 DEF Init, Exclusion
  <2>3. TypeOK
    BY <2>1 DEF Init, TypeOK
  <2> QED
    BY <2>2, <2>3
<1>2. TypeOK /\ Exclusion /\ [AnyNext]_vars => (TypeOK /\ Exclusion)'
  <2> SUFFICES ASSUME TypeOK, Exclusion, [AnyNext]_vars PROVE TypeOK' /\ Exclusion'
    OBVIOUS
  <2>1. CASE UNCHANGED vars
    BY <2>1 DEF TypeOK, Exclusion, vars, object, thread
  <2> QED
    BY <2>1, CallTyped, InsideTyped, CallExcludes, InsideExcludes DEF AnyNext, Over
<1> QED
  BY <1>1, <1>2, PTL DEF AnySpec

\* The life cycle is typed in every host; no step of a function works on an
\* interpreter it did not find.
THEOREM AnyTypeOK == AnySpec => []TypeOK
BY AnyInvariant, PTL

\* awk_in_use: in every host, however many threads make whatever calls for
\* whatever interpreters, at most one is between the lock and the unlock.
THEOREM AnyExclusion == AnySpec => []Exclusion
BY AnyInvariant, PTL
------------------------------------------------------------------------------
(* Any host: whose interpreter a step works for.                           *)

Shared(o, i) == \E t, u \in Thread : t # u /\ i \in o[t] \cap o[u]

\* awk_exec has found its interpreter compiled and has not begun to run it.
Tested(t) == (pc[t] = "lock" \/ pc[t] = "start") /\ fn[t] = "exec"
Compiling(t) == pc[t] = "parse" \/ (pc[t] = "start" /\ fn[t] # "exec")

InPlace(t) ==
  /\ pc[t] = "initvars" => fn[t] = "init"
  /\ pc[t] \in Working => interp \in {obj[t], NULL}
  /\ pc[t] \notin {"idle", "initvars", "initcatch", "initret"} => obj[t] \in own[t]
  /\ Tested(t) => \/ status[obj[t]] = "COMPILED" \/ Shared(own, obj[t])
                  \/ mem[obj[t]] = "deleted"
  /\ Compiling(t) => status[obj[t]] = "COMPILING"

AllInPlace == \A t \in Thread : InPlace(t)

\* What a step of a thread may do to the others: it moves interp and a status
\* only under the lock, or clears interp; and it gives an interpreter up by
\* deleting it.
Effect(t) ==
  /\ \E l, f, i : /\ pc' = [pc EXCEPT ![t] = l] /\ fn' = [fn EXCEPT ![t] = f]
                  /\ obj' = [obj EXCEPT ![t] = i]
  /\ interp' \in {interp, NULL} \/ mutex = NULL \/ pc[t] \in Locked
  /\ \/ status' = status
     \/ /\ pc[t] \in Locked /\ obj[t] \in own[t]
        /\ \E s : status' = [status EXCEPT ![obj[t]] = s]
  /\ \/ \E o : own' = [own EXCEPT ![t] = @ \cup o]
     \/ /\ own' = [own EXCEPT ![t] = @ \ {obj[t]}]
        /\ mem'[obj[t]] = "deleted"
  /\ \A i \in Interp : mem[i] = "deleted" => mem'[i] = "deleted"

LEMMA CallEffect ==
  ASSUME TypeOK, NEW t \in Thread, AnyCall(t, own[t])
  PROVE  Effect(t)
<1>1. /\ \E l, f, i : /\ pc' = [pc EXCEPT ![t] = l] /\ fn' = [fn EXCEPT ![t] = f]
                      /\ obj' = [obj EXCEPT ![t] = i]
      /\ interp' = interp \/ mutex = NULL
  BY DEF AnyCall, AwkInit, Call, Unlocked, Begin, Goto
<1>2. status' = status /\ own' = own
  BY DEF AnyCall, AwkInit, Call, Unlocked, object
<1>3. \A i \in Interp : mem[i] = "deleted" => mem'[i] = "deleted"
  BY DEF AnyCall, AwkInit, Call, Unlocked, object, TypeOK
<1>4. own' = [own EXCEPT ![t] = @ \cup {}]
  BY <1>2 DEF TypeOK
<1> QED
  BY <1>1, <1>2, <1>3, <1>4 DEF Effect

LEMMA InsideEffect ==
  ASSUME TypeOK, AllInPlace, NEW t \in Thread, Inside(t) \/ HostGetvarFails(t), ~Crash(t)
  PROVE  Effect(t)
<1>1. \E l, f, i : /\ pc' = [pc EXCEPT ![t] = l] /\ fn' = [fn EXCEPT ![t] = f]
                   /\ obj' = [obj EXCEPT ![t] = i]
  <2>1. UNCHANGED <<fn, obj>> /\ \E l : Goto(t, l)
    BY DEF Inside, HostGetvarFails, InitVars, InitCatch, InitReturn, ExecTest, Lock, SetProgram,
           Check, Parse, Start, Callback, HostReturns, Finish, Ends, AwkErr, AwkGetvar, AwkEnd,
           NotCompiled, Release, Return, At
  <2>2. fn' = [fn EXCEPT ![t] = fn[t]] /\ obj' = [obj EXCEPT ![t] = obj[t]]
    BY <2>1 DEF TypeOK
  <2>3. PICK l : pc' = [pc EXCEPT ![t] = l]
    BY <2>1 DEF Goto
  <2> QED
    BY <2>2, <2>3
<1>2. interp' \in {interp, NULL} \/ mutex = NULL \/ pc[t] \in Locked
  BY DEF Inside, HostGetvarFails, InitVars, InitCatch, InitReturn, ExecTest, Lock, SetProgram,
         Check, Parse, Start, Callback, HostReturns, Finish, AwkErr, AwkGetvar, AwkEnd, At, Locked
<1>3. \/ status' = status
      \/ /\ pc[t] \in Locked /\ obj[t] \in own[t]
         /\ \E s : status' = [status EXCEPT ![obj[t]] = s]
  <2>1. CASE Check(t) \/ Parse(t)
    BY <2>1 DEF Check, Parse, At, SetStatus, Locked, AllInPlace, InPlace
  <2>2. CASE Start(t) \/ Finish(t)
    <3>1. pc[t] \in {"start", "program", "ending"}
      BY <2>2 DEF Start, Finish, At
    <3>2. Live(interp)
      BY <2>2, <3>1, SafeGlobal DEF Start, Finish, At
    <3>3. interp = obj[t] /\ obj[t] \in own[t]
      BY <3>1, <3>2, ApiAssumption DEF AllInPlace, InPlace, Working, Live
    <3> QED
      BY <2>2, <3>1, <3>3 DEF Start, Finish, Ends, SetStatus, Locked
  <2>3. CASE ~(Check(t) \/ Parse(t) \/ Start(t) \/ Finish(t))
    BY <2>3 DEF Inside, HostGetvarFails, InitVars, InitCatch, InitReturn, ExecTest, Lock,
                SetProgram, Callback, HostReturns, AwkErr, AwkGetvar, AwkEnd, object
  <2> QED
    BY <2>1, <2>2, <2>3
<1>4. \/ \E o : own' = [own EXCEPT ![t] = @ \cup o]
      \/ own' = [own EXCEPT ![t] = @ \ {obj[t]}] /\ mem'[obj[t]] = "deleted"
  <2>1. CASE AwkEnd(t)
    <3>1. obj[t] \in Interp
      BY <2>1, SafeObject DEF AwkEnd, At, Live
    <3> QED
      BY <2>1, <3>1 DEF AwkEnd, TypeOK
  <2>2. CASE InitReturn(t)
    BY <2>2 DEF InitReturn
  <2>3. CASE ~AwkEnd(t) /\ ~InitReturn(t)
    <3>1. own' = own
      BY <2>3 DEF Inside, HostGetvarFails, InitVars, InitCatch, ExecTest, Lock, SetProgram, Check,
                  Parse, Start, Callback, HostReturns, Finish, AwkErr, AwkGetvar
    <3>2. own' = [own EXCEPT ![t] = @ \cup {}]
      BY <3>1 DEF TypeOK
    <3> QED
      BY <3>2
  <2> QED
    BY <2>1, <2>2, <2>3
<1>5. \A i \in Interp : mem[i] = "deleted" => mem'[i] = "deleted"
  BY DEF Inside, HostGetvarFails, InitVars, InitCatch, InitReturn, ExecTest, Lock, SetProgram,
         Check, Parse, Start, Callback, HostReturns, Finish, AwkErr, AwkGetvar, AwkEnd, object,
         TypeOK
<1> QED
  BY <1>1, <1>2, <1>3, <1>4, <1>5 DEF Effect

\* Two threads that have an interpreter keep it in common, or it is deleted.
LEMMA SharedStays ==
  ASSUME TypeOK, NEW t \in Thread, Effect(t), NEW i \in Interp, Shared(own, i)
  PROVE  Shared(own', i) \/ mem'[i] = "deleted"
<1>1. PICK u, v \in Thread : u # v /\ i \in own[u] \cap own[v]
  BY DEF Shared
<1>2. CASE \E o : own' = [own EXCEPT ![t] = @ \cup o]
  <2>1. i \in own'[u] /\ i \in own'[v]
    BY <1>1, <1>2 DEF TypeOK
  <2> QED
    BY <1>1, <2>1 DEF Shared
<1>3. CASE own' = [own EXCEPT ![t] = @ \ {obj[t]}] /\ mem'[obj[t]] = "deleted" /\ i # obj[t]
  <2>1. i \in own'[u] /\ i \in own'[v]
    BY <1>1, <1>3 DEF TypeOK
  <2> QED
    BY <1>1, <2>1 DEF Shared
<1> QED
  BY <1>2, <1>3 DEF Effect

\* The steps of a thread leave the others in their places.
LEMMA OthersInPlace ==
  ASSUME TypeOK, Exclusion, AllInPlace, NEW t \in Thread, Effect(t),
         NEW u \in Thread, u # t
  PROVE  InPlace(u)'
<1>1. InPlace(u) /\ InPlace(t)
  BY DEF AllInPlace
<1>2. /\ pc'[u] = pc[u] /\ fn'[u] = fn[u] /\ obj'[u] = obj[u]
      /\ own'[u] = own[u]
  BY DEF Effect, TypeOK
<1>3. pc[u] \in Locked => ~(pc[t] \in Locked) /\ mutex # NULL
  BY ApiAssumption DEF Exclusion
<1>4. pc[u] \in Working => pc[u] \in Locked
  BY DEF Working, Locked
<1>5. pc[u] \in Working => interp' \in {obj[u], NULL}
  BY <1>1, <1>3, <1>4 DEF Effect, InPlace
<1> DEFINE j == obj[u]
<1> HIDE DEF j
<1>6. ASSUME Tested(u)
      PROVE  status'[j] = "COMPILED" \/ Shared(own', j) \/ mem'[j] = "deleted"
  <2>1. j \in own[u] /\ j \in Interp
    BY <1>1, <1>6 DEF InPlace, Tested, TypeOK, j
  <2>2. CASE Shared(own, j)
    BY <2>1, <2>2, SharedStays
  <2>3. CASE mem[j] = "deleted"
    BY <2>1, <2>3 DEF Effect
  <2>4. CASE status[j] = "COMPILED"
    <3>1. CASE status'[j] = status[j]
      BY <2>4, <3>1
    <3>2. CASE status'[j] # status[j]
      <4>1. obj[t] \in own[t] /\ obj[t] = j
        BY <2>1, <3>2 DEF Effect, TypeOK
      <4>2. Shared(own, j)
        BY <2>1, <4>1 DEF Shared
      <4> QED
        BY <2>1, <4>2, SharedStays
    <3> QED
      BY <3>1, <3>2
  <2> QED
    BY <1>1, <1>6, <2>2, <2>3, <2>4 DEF InPlace, j
<1>7. Compiling(u) => status'[j] = "COMPILING"
  <2>1. Compiling(u) => pc[u] \in Locked
    BY DEF Compiling, Locked
  <2> QED
    BY <1>1, <1>3, <2>1 DEF Effect, InPlace, j
<1>8. obj'[u] = j
  BY <1>2 DEF j
<1> QED
  BY <1>1, <1>2, <1>5, <1>6, <1>7, <1>8 DEF InPlace, Tested, Compiling, j

\* ... and the thread in its own.
LEMMA CallInPlace ==
  ASSUME TypeOK, NEW t \in Thread, AnyCall(t, own[t])
  PROVE  InPlace(t)'
<1>1. \/ pc'[t] = "initvars" /\ fn'[t] = "init"
      \/ pc'[t] \in {"test", "geterr", "getvar", "end"} /\ obj'[t] \in own'[t]
      \/ pc'[t] = "lock" /\ fn'[t] # "exec" /\ obj'[t] \in own'[t]
  BY DEF AnyCall, AwkInit, Call, Unlocked, Begin, Goto, TypeOK
<1> QED
  BY <1>1 DEF InPlace, Tested, Compiling, Working

LEMMA InsideInPlace ==
  ASSUME TypeOK, AllInPlace, NEW t \in Thread, Inside(t) \/ HostGetvarFails(t), ~Crash(t)
  PROVE  InPlace(t)'
<1>1. InPlace(t) /\ pc \in [Thread -> Locked \cup Waiting]
  BY DEF AllInPlace, TypeOK
<1>2. UNCHANGED <<fn, obj>>
  BY DEF Inside, HostGetvarFails, InitVars, InitCatch, InitReturn, ExecTest, Lock, SetProgram,
         Check, Parse, Start, Callback, HostReturns, Finish, AwkErr, AwkGetvar, AwkEnd, At
<1>3. CASE pc'[t] \in {"idle", "initcatch", "initret"}
  BY <1>3 DEF InPlace, Tested, Compiling, Working
<1>4. CASE ExecTest(t) /\ pc'[t] # "idle"
  <2>1. /\ status[obj[t]] = "COMPILED" /\ pc'[t] = "lock" /\ UNCHANGED <<status, own>>
        /\ pc[t] = "test"
    BY <1>1, <1>4 DEF ExecTest, Return, Goto, At
  <2> QED
    BY <1>1, <1>2, <2>1 DEF InPlace, Tested, Compiling, Working
<1>5. CASE Lock(t)
  <2>1. pc[t] = "lock" /\ pc'[t] = Entry(fn[t]) /\ UNCHANGED <<status, own, mem>>
        /\ interp' = IF fn[t] \in {"compile", "run"} THEN interp ELSE obj[t]
    BY <1>1, <1>5 DEF Lock, Goto, At, object
  <2>2. \/ pc'[t] = "start" /\ fn[t] = "exec" /\ interp' = obj[t]
        \/ pc'[t] = "check"
        \/ pc'[t] = "body" /\ interp' = obj[t]
    BY <2>1 DEF Entry
  <2> QED
    BY <1>1, <1>2, <2>1, <2>2 DEF InPlace, Tested, Compiling, Working
<1>6. CASE Check(t) /\ pc'[t] # "idle"
  <2>1. pc[t] = "check" /\ obj[t] \in Interp
    BY <1>6, SafeObject DEF Check, At, Live
  <2>2. /\ pc'[t] = "parse" /\ status' = [status EXCEPT ![obj[t]] = "COMPILING"]
        /\ interp' = obj[t] /\ own' = own
    BY <1>1, <1>6 DEF Check, NotCompiled, Release, Return, Goto, SetStatus
  <2> QED
    BY <1>1, <1>2, <2>1, <2>2 DEF InPlace, Tested, Compiling, Working, TypeOK
<1>7. CASE Parse(t) /\ pc'[t] # "idle"
  <2>1. /\ pc[t] = "parse" /\ pc'[t] = "start" /\ fn[t] = "run"
        /\ UNCHANGED <<status, interp, own>>
    BY <1>1, <1>7 DEF Parse, NotCompiled, Release, Return, Goto, At
  <2> QED
    BY <1>1, <1>2, <2>1 DEF InPlace, Tested, Compiling, Working
<1>8. CASE Start(t) \/ Callback(t) \/ HostReturns(t) \/ HostGetvarFails(t)
  <2>1. /\ pc[t] \in {"start", "program", "host"} /\ pc'[t] \in {"program", "host", "ending"}
        /\ UNCHANGED <<interp, own>>
    BY <1>1, <1>8 DEF Start, Callback, HostReturns, HostGetvarFails, Goto, At
  <2> QED
    BY <1>1, <1>2, <2>1 DEF InPlace, Tested, Compiling, Working
<1>9. \/ InitVars(t) \/ InitCatch(t) \/ InitReturn(t) \/ SetProgram(t) \/ Finish(t)
      \/ AwkErr(t) \/ AwkGetvar(t) \/ AwkEnd(t)
      => pc'[t] \in {"idle", "initcatch", "initret"}
  BY <1>1 DEF InitVars, InitCatch, InitReturn, SetProgram, Finish, Ends, AwkErr, AwkGetvar, AwkEnd,
              Release, Return, Goto
<1>10. \/ ExecTest(t) \/ Lock(t) \/ Check(t) \/ Parse(t)
       \/ Start(t) \/ Callback(t) \/ HostReturns(t) \/ HostGetvarFails(t)
       \/ InitVars(t) \/ InitCatch(t) \/ InitReturn(t) \/ SetProgram(t) \/ Finish(t)
       \/ AwkErr(t) \/ AwkGetvar(t) \/ AwkEnd(t)
  BY DEF Inside
<1> QED
  BY <1>3, <1>4, <1>5, <1>6, <1>7, <1>8, <1>9, <1>10

LEMMA PlaceInvariant == AnySpec => [](TypeOK /\ Exclusion /\ AllInPlace)
<1>1. Init => AllInPlace
  BY DEF Init, AllInPlace, InPlace, Tested, Compiling, Working
<1>2. TypeOK /\ Exclusion /\ AllInPlace /\ [AnyNext]_vars => AllInPlace'
  <2> SUFFICES ASSUME TypeOK, Exclusion, AllInPlace, [AnyNext]_vars
               PROVE  AllInPlace'
    OBVIOUS
  <2>1. CASE UNCHANGED vars
    BY <2>1 DEF AllInPlace, InPlace, Tested, Compiling, Shared, vars, object, thread
  <2>2. ASSUME NEW t \in Thread, Crash(t) PROVE AllInPlace'
    BY <2>2 DEF Crash, AllInPlace, InPlace, Tested, Compiling, Shared, object, thread
  <2>3. ASSUME NEW t \in Thread, ~Crash(t),
               AnyCall(t, own[t]) \/ Inside(t) \/ HostGetvarFails(t)
        PROVE  AllInPlace'
    <3>1. Effect(t) /\ InPlace(t)'
      BY <2>3, CallEffect, InsideEffect, CallInPlace, InsideInPlace
    <3>2. \A u \in Thread : u # t => InPlace(u)'
      BY <3>1, OthersInPlace
    <3> QED
      BY <3>1, <3>2 DEF AllInPlace
  <2> QED
    BY <2>1, <2>2, <2>3 DEF AnyNext, Over
<1> QED
  BY <1>1, <1>2, AnyInvariant, PTL DEF AnySpec

\* libmain.cpp: in any host an error lands in an interpreter the caller did not
\* name only where awk_compile and awk_run test before they set interp.
THEOREM AnyErrorAwayOnlyBy == AnySpec => ErrorAwayOnlyBy
<1> DEFINE Away == \A i \in Interp : err'[i] # err[i]
              => \E t \in Thread :
                   /\ pc'[t] # pc[t]
                   /\ obj[t] = i \/ fn[t] = "init"
                        \/ (pc[t] = "check" /\ status'[obj[t]] = "DONE")
<1>1. ASSUME TypeOK, AllInPlace, [AnyNext]_vars PROVE [Away]_vars
  <2> SUFFICES ASSUME NEW i \in Interp, err'[i] # err[i]
               PROVE  \E t \in Thread :
                        /\ pc'[t] # pc[t]
                        /\ obj[t] = i \/ fn[t] = "init"
                             \/ (pc[t] = "check" /\ status'[obj[t]] = "DONE")
    OBVIOUS
  <2>1. PICK t \in Thread : Inside(t) \/ HostGetvarFails(t)
    BY <1>1 DEF AnyNext, AnyCall, AwkInit, Call, Unlocked, Over, vars, object
  <2>2. pc \in [Thread -> Locked \cup Waiting] /\ InPlace(t)
        /\ status \in [Interp -> Statuses] /\ err \in [Interp -> Codes]
    BY <1>1 DEF TypeOK, AllInPlace
  <2>3. \/ InitVars(t) \/ ExecTest(t) \/ SetProgram(t) \/ Check(t) \/ Parse(t) \/ Finish(t)
        \/ AwkGetvar(t) \/ HostGetvarFails(t)
    BY <2>1 DEF Inside, InitCatch, InitReturn, Lock, Start, Callback, HostReturns, AwkErr, AwkEnd,
                Crash, object
  <2>4. CASE InitVars(t)
    BY <2>2, <2>4 DEF InitVars, Goto, At, InPlace
  <2>5. CASE ExecTest(t) \/ AwkGetvar(t) \/ HostGetvarFails(t)
    BY <2>2, <2>5 DEF ExecTest, AwkGetvar, HostGetvarFails, Return, Goto, At
  <2>6. CASE SetProgram(t) \/ Parse(t) \/ Finish(t)
    <3>1. pc[t] \in {"body", "parse", "program", "ending"} /\ Safe(t)
      BY <2>6 DEF SetProgram, Parse, Finish, At
    <3>2. Live(interp)
      BY <3>1 DEF Safe, Uses
    <3>3. interp = obj[t]
      BY <2>2, <3>1, <3>2, ApiAssumption DEF InPlace, Working, Live
    <3> QED
      BY <2>2, <2>6, <3>1, <3>3 DEF SetProgram, Parse, Finish, Ends, NotCompiled, Release,
                                    Return, Goto, Record
  <2>7. CASE Check(t)
    <3>1. pc[t] = "check" /\ obj[t] \in Interp
      BY <2>7, SafeObject DEF Check, At, Live
    <3>2. pc'[t] # pc[t] /\ status' = [status EXCEPT ![obj[t]] = "DONE"]
      BY <2>2, <2>7, <3>1 DEF Check, NotCompiled, Release, Return, Goto, SetStatus
    <3> QED
      BY <2>2, <3>1, <3>2
  <2> QED
    BY <2>3, <2>4, <2>5, <2>6, <2>7
<1> QED
  BY <1>1, PlaceInvariant, PTL DEF AnySpec, ErrorAwayOnlyBy

\* libmain.cpp 217: in any host, what awk_exec saw of the status is still so
\* when it has the lock, or another thread has the interpreter too.
THEOREM AnyUncompiledOnlyShared == AnySpec => UncompiledOnlyShared
<1> DEFINE Common == \A i \in Interp :
              status'[i] = "RUN" /\ status[i] \notin {"RUN", "COMPILING", "COMPILED"}
                => \E t, u \in Thread : t # u /\ i \in own[t] \cap own[u]
<1>1. ASSUME TypeOK, AllInPlace, [AnyNext]_vars PROVE [Common]_vars
  <2> SUFFICES ASSUME NEW i \in Interp, status'[i] = "RUN",
                      status[i] \notin {"RUN", "COMPILING", "COMPILED"}
               PROVE  \E t, u \in Thread : t # u /\ i \in own[t] \cap own[u]
    OBVIOUS
  <2>1. PICK t \in Thread : Inside(t) \/ HostGetvarFails(t)
    BY <1>1 DEF AnyNext, AnyCall, AwkInit, Call, Unlocked, Over, vars, object
  <2>2. Check(t) \/ Parse(t) \/ Start(t) \/ Finish(t)
    BY <2>1 DEF Inside, HostGetvarFails, InitVars, InitCatch, InitReturn, ExecTest, Lock,
                SetProgram, Callback, HostReturns, AwkErr, AwkGetvar, AwkEnd, Crash, object
  <2>3. status \in [Interp -> Statuses] /\ InPlace(t)
    BY <1>1 DEF TypeOK, AllInPlace
  <2>4. Start(t)
    <3>1. ~Check(t) /\ ~Parse(t)
      BY <2>3 DEF Check, Parse, SetStatus
    <3>2. ~Finish(t)
      BY <2>3 DEF Finish, Ends, SetStatus
    <3> QED
      BY <2>2, <3>1, <3>2
  <2>5. pc[t] = "start" /\ Live(interp)
    BY <2>4, SafeGlobal DEF Start, At
  <2>6. interp = obj[t] /\ i = obj[t]
    <3>1. interp = obj[t]
      BY <2>3, <2>5, ApiAssumption DEF InPlace, Working, Live
    <3> QED
      BY <2>3, <2>4, <3>1 DEF Start, SetStatus
  <2>7. Tested(t)
    BY <2>3, <2>5, <2>6 DEF InPlace, Compiling, Tested
  <2>8. Shared(own, i)
    BY <2>3, <2>5, <2>6, <2>7 DEF InPlace, Live
  <2> QED
    BY <2>8 DEF Shared
<1> QED
  BY <1>1, PlaceInvariant, PTL DEF AnySpec, UncompiledOnlyShared
-----------------------------------------------------------------------------
(* A careful host (CarefulSpec).                                           *)
CarefulCalls == {"setprog", "compile", "run", "exec", "geterr", "end"}

\* A thread that is in a call works for one of its own interpreters.
OnItsOwn ==
  \A t \in Thread : pc[t] # "idle" =>
    /\ obj[t] \in own[t]
    /\ fn[t] \in CarefulCalls
    /\ pc[t] \notin {"initvars", "initcatch", "initret", "getvar"}

\* What a host owns is alive, and nobody else's.
Possession ==
  /\ \A t \in Thread : \A i \in own[t] : mem[i] = "live"
  /\ \A t, u \in Thread : t # u => own[t] \cap own[u] = {}

\* Between the call and the checks of awk_compile and awk_run the interpreter
\* stays as it was when the host looked.
StillFresh ==
  \A t \in Thread : /\ pc[t] = "test" => fn[t] = "exec"
                    /\ pc[t] = "check" => fn[t] \in {"compile", "run"}
                    /\ pc[t] \in {"lock", "check"} /\ fn[t] \in {"compile", "run"}
                         => /\ status[obj[t]] = "INIT"
                            /\ fn[t] = "compile" => source[obj[t]] = "text"

\* literal0 and literal_null are those of the interpreter made last, and so are
\* the cells in every program.
Cells == /\ literals \in Interp
         /\ \A i \in Interp : tree[i] \in {literals, NULL}

CarefulInv == /\ TypeOK /\ Cells /\ Exclusion /\ GlobalIsMine
              /\ OnItsOwn /\ Possession /\ StillFresh

LEMMA CarefulInitInv == PooledInit => CarefulInv
<1> SUFFICES ASSUME PooledInit PROVE CarefulInv
  OBVIOUS
<1>1. PICK owner \in [Interp -> Thread] :
         own = [t \in Thread |-> {i \in Interp : owner[i] = t}]
  BY DEF PooledInit
<1>2. TypeOK
  BY <1>1, ApiAssumption DEF PooledInit, TypeOK, Statuses, Codes, Locked, Waiting, Ways
<1>3. Cells /\ Exclusion /\ GlobalIsMine /\ OnItsOwn /\ StillFresh
  BY DEF PooledInit, Cells, Exclusion, GlobalIsMine, OnItsOwn, StillFresh, Locked, Working
<1>4. Possession
  BY <1>1 DEF PooledInit, Possession
<1> QED
  BY <1>2, <1>3, <1>4 DEF CarefulInv

(* While the literal cells are there no step of a thread that is in a call *)
(* falls off an interpreter.                                               *)
LEMMA CarefulSafe ==
  ASSUME CarefulInv, NEW t \in Thread, pc[t] # "idle"
  PROVE  Live(obj[t]) /\ (Live(literals) => ~Crash(t))
<1>1. Live(obj[t]) /\ obj[t] \in Interp
  BY DEF CarefulInv, OnItsOwn, Possession, Live, TypeOK
<1>2. pc[t] \in Working => Uses(t) \subseteq {obj[t]}
  BY DEF CarefulInv, GlobalIsMine, Working, Uses
<1>3. pc[t] = "check" => Uses(t) = {}
  BY <1>1 DEF CarefulInv, StillFresh, Uses, NeedsGlobal
<1>4. pc[t] \in {"test", "geterr"} => Uses(t) = {obj[t]}
  BY DEF Uses
<1>5. pc[t] = "lock" => Uses(t) = {}
  BY DEF Uses
<1>6. pc[t] \in Working \cup {"check", "test", "end", "geterr", "lock"}
  BY DEF CarefulInv, TypeOK, OnItsOwn, Working, Locked, Waiting
<1>7. \A i : Held(i) \subseteq {literals}
  BY DEF Held, CarefulInv, Cells
<1>8. pc[t] = "end" => Uses(t) \subseteq {obj[t], literals}
  BY <1>7 DEF Uses
<1>9. MayUse(t) \subseteq {literals}
  BY <1>7 DEF MayUse
<1>10. Uses(t) \subseteq {obj[t], literals}
  BY <1>2, <1>3, <1>4, <1>5, <1>6, <1>8
<1> QED
  BY <1>1, <1>9, <1>10 DEF Crash, Safe

(* A call begins: the thread was idle, the interpreter is one of its own.  *)
LEMMA CallKeeps ==
  ASSUME CarefulInv, NEW t \in Thread, CarefulCall(t)
  PROVE  CarefulInv'
<1>1. PICK i \in own[t], f \in CarefulCalls, l \in {"lock", "test", "geterr", "end"} :
        /\ Begin(t, f, i) /\ Goto(t, l)
        /\ l = "test" <=> f = "exec"
        /\ f \in {"compile", "run"} => l = "lock" /\ status[i] = "INIT"
        /\ f = "compile" => source[i] = "text"
        /\ UNCHANGED <<object, interp, literals, mutex, own, fault>>
  BY DEF CarefulCall, Call, Unlocked, CarefulCalls
<1>2. TypeOK'
  <2>1. AnyCall(t, own[t])
    BY DEF CarefulCall, AnyCall
  <2> QED
    BY <2>1, CallTyped DEF CarefulInv
<1> USE <1>1 DEF Begin, Goto, object
<1>3. Cells' /\ Exclusion' /\ GlobalIsMine'
  BY DEF CarefulInv, TypeOK, Cells, Exclusion, GlobalIsMine, Locked, Working
<1>4. OnItsOwn'
  BY DEF CarefulInv, TypeOK, OnItsOwn
<1>5. Possession'
  BY DEF CarefulInv, Possession
<1>6. StillFresh'
  BY DEF CarefulInv, TypeOK, StillFresh
<1> QED
  BY <1>2, <1>3, <1>4, <1>5, <1>6 DEF CarefulInv

(* The steps inside a call.  The thread keeps fn and obj; the interpreters   *)
(* of the others are not touched, since what is owned is owned once.         *)

LEMMA ExecTestKeeps ==
  ASSUME CarefulInv, NEW t \in Thread, pc[t] # "idle", ExecTest(t)
  PROVE  CarefulInv'
<1>1. TypeOK'
  BY ExecTestTyped DEF CarefulInv
<1> USE DEF ExecTest, At, Goto, Return, object, SetStatus
<1>2. Cells' /\ Exclusion'
  BY DEF CarefulInv, TypeOK, Cells, Exclusion, Locked
<1>3. GlobalIsMine'
  BY DEF CarefulInv, TypeOK, Exclusion, GlobalIsMine, Locked, Working
<1>4. OnItsOwn'
  BY DEF CarefulInv, TypeOK, OnItsOwn, Possession
<1>5. Possession'
  BY DEF CarefulInv, TypeOK, OnItsOwn, Possession
<1>6. StillFresh'
  BY DEF CarefulInv, TypeOK, StillFresh, OnItsOwn, Possession, GlobalIsMine, Working, CarefulCalls
<1> QED
  BY <1>1, <1>2, <1>3, <1>4, <1>5, <1>6 DEF CarefulInv

LEMMA LockKeeps ==
  ASSUME CarefulInv, NEW t \in Thread, pc[t] # "idle", Lock(t)
  PROVE  CarefulInv'
<1>1. TypeOK'
  BY LockTyped DEF CarefulInv
<1> USE ApiAssumption DEF Lock, Entry, At, Goto, Return, object
<1>2. Cells' /\ Exclusion'
  BY DEF CarefulInv, TypeOK, Cells, Exclusion, Locked
<1>3. GlobalIsMine'
  BY DEF CarefulInv, TypeOK, Exclusion, GlobalIsMine, Locked, Working
<1>4. OnItsOwn'
  BY DEF CarefulInv, TypeOK, OnItsOwn, Possession
<1>5. Possession'
  BY DEF CarefulInv, TypeOK, OnItsOwn, Possession
<1>6. StillFresh'
  BY DEF CarefulInv, TypeOK, StillFresh, OnItsOwn, Possession, GlobalIsMine, Working, CarefulCalls
<1> QED
  BY <1>1, <1>2, <1>3, <1>4, <1>5, <1>6 DEF CarefulInv

LEMMA SetProgramKeeps ==
  ASSUME CarefulInv, NEW t \in Thread, pc[t] # "idle", SetProgram(t)
  PROVE  CarefulInv'
<1>1. TypeOK'
  BY SetProgramTyped DEF CarefulInv
<1> USE DEF SetProgram, At, Goto, Return, object, Record, Release
<1>2. Cells' /\ Exclusion'
  BY DEF CarefulInv, TypeOK, Cells, Exclusion, Locked
<1>3. GlobalIsMine'
  BY DEF CarefulInv, TypeOK, Exclusion, GlobalIsMine, Locked, Working
<1>4. OnItsOwn'
  BY DEF CarefulInv, TypeOK, OnItsOwn, Possession
<1>5. Possession'
  BY DEF CarefulInv, TypeOK, OnItsOwn, Possession
<1>6. StillFresh'
  BY DEF CarefulInv, TypeOK, StillFresh, OnItsOwn, Possession, GlobalIsMine, Working, CarefulCalls
<1> QED
  BY <1>1, <1>2, <1>3, <1>4, <1>5, <1>6 DEF CarefulInv

LEMMA CheckKeeps ==
  ASSUME CarefulInv, NEW t \in Thread, pc[t] # "idle", Check(t)
  PROVE  CarefulInv'
<1>1. TypeOK'
  BY CheckTyped DEF CarefulInv
<1> USE DEF Check, At, Goto, Return, object, Record, SetStatus, Release, NotCompiled, NoProgram
<1>2. Cells' /\ Exclusion'
  BY DEF CarefulInv, TypeOK, Cells, Exclusion, Locked
<1>3. GlobalIsMine'
  BY DEF CarefulInv, TypeOK, Exclusion, GlobalIsMine, Locked, Working
<1>4. OnItsOwn'
  BY DEF CarefulInv, TypeOK, OnItsOwn, Possession
<1>5. Possession'
  BY DEF CarefulInv, TypeOK, OnItsOwn, Possession
<1>6. StillFresh'
  BY DEF CarefulInv, TypeOK, StillFresh, OnItsOwn, Possession, GlobalIsMine, Working, CarefulCalls
<1> QED
  BY <1>1, <1>2, <1>3, <1>4, <1>5, <1>6 DEF CarefulInv

LEMMA ParseKeeps ==
  ASSUME CarefulInv, NEW t \in Thread, pc[t] # "idle", Parse(t)
  PROVE  CarefulInv'
<1>1. TypeOK'
  BY ParseTyped DEF CarefulInv
<1> USE DEF Parse, At, Goto, Return, object, Record, SetStatus, Release, NotCompiled
<1>7. Cells'
  BY DEF CarefulInv, TypeOK, Cells, Grown
<1>8. Exclusion'
  BY DEF CarefulInv, TypeOK, Exclusion, Locked
<1>3. GlobalIsMine'
  BY DEF CarefulInv, TypeOK, Exclusion, GlobalIsMine, Locked, Working
<1>4. OnItsOwn'
  BY DEF CarefulInv, TypeOK, OnItsOwn, Possession
<1>5. Possession'
  BY DEF CarefulInv, TypeOK, OnItsOwn, Possession
<1>6. StillFresh'
  BY DEF CarefulInv, TypeOK, StillFresh, OnItsOwn, Possession, GlobalIsMine, Working, CarefulCalls
<1> QED
  BY <1>1, <1>3, <1>4, <1>5, <1>6, <1>7, <1>8 DEF CarefulInv

LEMMA StartKeeps ==
  ASSUME CarefulInv, NEW t \in Thread, pc[t] # "idle", Start(t)
  PROVE  CarefulInv'
<1> USE DEF Start, At, Goto, Return, object, SetStatus
<1>1. TypeOK'
  BY ProgramTyped DEF CarefulInv
<1>2. Cells' /\ Exclusion'
  BY DEF CarefulInv, TypeOK, Cells, Exclusion, Locked
<1>3. GlobalIsMine'
  BY DEF CarefulInv, TypeOK, Exclusion, GlobalIsMine, Locked, Working
<1>4. OnItsOwn'
  BY DEF CarefulInv, TypeOK, OnItsOwn, Possession
<1>5. Possession'
  BY DEF CarefulInv, TypeOK, OnItsOwn, Possession
<1>6. StillFresh'
  BY DEF CarefulInv, TypeOK, StillFresh, OnItsOwn, Possession, GlobalIsMine, Working, CarefulCalls
<1> QED
  BY <1>1, <1>2, <1>3, <1>4, <1>5, <1>6 DEF CarefulInv

LEMMA CallbackKeeps ==
  ASSUME CarefulInv, NEW t \in Thread, pc[t] # "idle", Callback(t)
  PROVE  CarefulInv'
<1> USE DEF Callback, At, Goto, Return, object
<1>1. TypeOK'
  BY ProgramTyped DEF CarefulInv
<1>2. Cells' /\ Exclusion'
  BY DEF CarefulInv, TypeOK, Cells, Exclusion, Locked
<1>3. GlobalIsMine'
  BY DEF CarefulInv, TypeOK, Exclusion, GlobalIsMine, Locked, Working
<1>4. OnItsOwn'
  BY DEF CarefulInv, TypeOK, OnItsOwn, Possession
<1>5. Possession'
  BY DEF CarefulInv, TypeOK, OnItsOwn, Possession
<1>6. StillFresh'
  BY DEF CarefulInv, TypeOK, StillFresh, OnItsOwn, Possession, GlobalIsMine, Working, CarefulCalls
<1> QED
  BY <1>1, <1>2, <1>3, <1>4, <1>5, <1>6 DEF CarefulInv

LEMMA HostReturnsKeeps ==
  ASSUME CarefulInv, NEW t \in Thread, pc[t] # "idle", HostReturns(t)
  PROVE  CarefulInv'
<1> USE DEF HostReturns, At, Goto, Return, object
<1>1. TypeOK'
  BY ProgramTyped DEF CarefulInv
<1>2. Cells' /\ Exclusion'
  BY DEF CarefulInv, TypeOK, Cells, Exclusion, Locked
<1>3. GlobalIsMine'
  BY DEF CarefulInv, TypeOK, Exclusion, GlobalIsMine, Locked, Working
<1>4. OnItsOwn'
  BY DEF CarefulInv, TypeOK, OnItsOwn, Possession
<1>5. Possession'
  BY DEF CarefulInv, TypeOK, OnItsOwn, Possession
<1>6. StillFresh'
  BY DEF CarefulInv, TypeOK, StillFresh, OnItsOwn, Possession, GlobalIsMine, Working, CarefulCalls
<1> QED
  BY <1>1, <1>2, <1>3, <1>4, <1>5, <1>6 DEF CarefulInv

LEMMA FinishKeeps ==
  ASSUME CarefulInv, NEW t \in Thread, pc[t] # "idle", Finish(t)
  PROVE  CarefulInv'
<1>1. TypeOK'
  BY FinishTyped DEF CarefulInv
<1> USE DEF Finish, At, Goto, Return, object, Ends, SetStatus, Release
<1>2. Cells' /\ Exclusion'
  BY DEF CarefulInv, TypeOK, Cells, Exclusion, Locked
<1>3. GlobalIsMine'
  BY DEF CarefulInv, TypeOK, Exclusion, GlobalIsMine, Locked, Working
<1>4. OnItsOwn'
  BY DEF CarefulInv, TypeOK, OnItsOwn, Possession
<1>5. Possession'
  BY DEF CarefulInv, TypeOK, OnItsOwn, Possession
<1>6. StillFresh'
  BY DEF CarefulInv, TypeOK, StillFresh, OnItsOwn, Possession, GlobalIsMine, Working, CarefulCalls
<1> QED
  BY <1>1, <1>2, <1>3, <1>4, <1>5, <1>6 DEF CarefulInv

LEMMA AwkErrKeeps ==
  ASSUME CarefulInv, NEW t \in Thread, pc[t] # "idle", AwkErr(t)
  PROVE  CarefulInv'
<1>1. TypeOK'
  BY UnlockedTyped DEF CarefulInv
<1> USE DEF AwkErr, At, Goto, Return, object
<1>2. Cells' /\ Exclusion'
  BY DEF CarefulInv, TypeOK, Cells, Exclusion, Locked
<1>3. GlobalIsMine'
  BY DEF CarefulInv, TypeOK, Exclusion, GlobalIsMine, Locked, Working
<1>4. OnItsOwn'
  BY DEF CarefulInv, TypeOK, OnItsOwn, Possession
<1>5. Possession'
  BY DEF CarefulInv, TypeOK, OnItsOwn, Possession
<1>6. StillFresh'
  BY DEF CarefulInv, TypeOK, StillFresh, OnItsOwn, Possession, GlobalIsMine, Working, CarefulCalls
<1> QED
  BY <1>1, <1>2, <1>3, <1>4, <1>5, <1>6 DEF CarefulInv

LEMMA AwkEndKeeps ==
  ASSUME CarefulInv, NEW t \in Thread, pc[t] # "idle", AwkEnd(t)
  PROVE  CarefulInv'
<1> USE DEF AwkEnd, At, Goto, Return, object
<1>1. TypeOK'
  BY UnlockedTyped DEF CarefulInv
<1>2. Cells' /\ Exclusion'
  BY DEF CarefulInv, TypeOK, Cells, Exclusion, Locked
<1>3. GlobalIsMine'
  BY DEF CarefulInv, TypeOK, Exclusion, GlobalIsMine, Locked, Working
<1>4. OnItsOwn'
  BY DEF CarefulInv, TypeOK, OnItsOwn, Possession
<1>5. Possession'
  BY DEF CarefulInv, TypeOK, OnItsOwn, Possession
<1>6. StillFresh'
  BY DEF CarefulInv, TypeOK, StillFresh, OnItsOwn, Possession, GlobalIsMine, Working, CarefulCalls
<1> QED
  BY <1>1, <1>2, <1>3, <1>4, <1>5, <1>6 DEF CarefulInv

LEMMA CarefulInductive == CarefulInv /\ [CarefulNext]_vars => CarefulInv'
<1> SUFFICES ASSUME CarefulInv, [CarefulNext]_vars PROVE CarefulInv'
  OBVIOUS
<1>1. CASE UNCHANGED vars
  BY <1>1 DEF CarefulInv, TypeOK, Cells, Exclusion, GlobalIsMine, OnItsOwn, Possession,
              StillFresh, vars, object, thread
<1>2. CASE Over
  BY <1>1, <1>2 DEF Over
<1>3. ASSUME NEW t \in Thread, CarefulCall(t) PROVE CarefulInv'
  BY <1>3, CallKeeps
<1>4. ASSUME NEW t \in Thread, Inside(t) PROVE CarefulInv'
  <2>1. pc[t] # "idle"
    BY <1>4 DEF Inside
  <2>2. ~InitVars(t) /\ ~InitCatch(t) /\ ~InitReturn(t) /\ ~AwkGetvar(t)
    BY <2>1 DEF CarefulInv, OnItsOwn, InitVars, InitCatch, InitReturn, AwkGetvar, At
  <2>3. CASE Crash(t)
    BY <2>3 DEF CarefulInv, TypeOK, Cells, Exclusion, GlobalIsMine, OnItsOwn, Possession,
                StillFresh, Crash, object, thread
  <2> QED
    BY <1>4, <2>1, <2>2, <2>3, ExecTestKeeps, LockKeeps, SetProgramKeeps, CheckKeeps,
       ParseKeeps, StartKeeps, CallbackKeeps, HostReturnsKeeps, FinishKeeps, AwkErrKeeps,
       AwkEndKeeps DEF Inside
<1> QED
  BY <1>1, <1>2, <1>3, <1>4 DEF CarefulNext

\* A step that uses what is gone is one on the literal cells, by a thread that
\* has an interpreter of its own.
LEMMA CausesInductive == CarefulInv /\ FaultCauses /\ [CarefulNext]_vars => FaultCauses'
<1> SUFFICES ASSUME CarefulInv, FaultCauses, [CarefulNext]_vars PROVE FaultCauses'
  OBVIOUS
<1>1. CASE UNCHANGED vars
  BY <1>1 DEF FaultCauses, Live, vars, object
<1>2. CASE Over
  BY <1>1, <1>2 DEF Over
<1>3. ASSUME ~fault, NEW t \in Thread, CarefulCall(t) \/ Inside(t) PROVE FaultCauses'
  <2>1. CASE Crash(t)
    <3>1. pc[t] # "idle"
      BY <2>1 DEF Crash, Safe, Uses, MayUse
    <3>2. Live(obj[t]) /\ obj[t] \in Interp /\ ~Live(literals)
      BY <2>1, <3>1, CarefulSafe DEF Live
    <3> QED
      BY <2>1, <3>2 DEF Crash, FaultCauses, Live, object
  <2>2. CASE ~Crash(t)
    <3>1. fault' = fault
      BY <1>3, <2>2 DEF CarefulCall, Call, Unlocked, Inside, InitVars, InitCatch, InitReturn,
         ExecTest, Lock, SetProgram, Check, Parse, Start, Callback, HostReturns, Finish,
         AwkErr, AwkGetvar, AwkEnd, At
    <3> QED
      BY <1>3, <3>1 DEF FaultCauses
  <2> QED
    BY <2>1, <2>2
<1> QED
  BY <1>1, <1>2, <1>3 DEF CarefulNext

LEMMA CarefulInvariant == CarefulSpec => [](CarefulInv /\ FaultCauses)
<1>1. PooledInit => CarefulInv /\ FaultCauses
  BY CarefulInitInv DEF PooledInit, FaultCauses
<1>2. CarefulInv /\ FaultCauses /\ [CarefulNext]_vars => CarefulInv' /\ FaultCauses'
  BY CarefulInductive, CausesInductive
<1> QED
  BY <1>1, <1>2, PTL DEF CarefulSpec
-----------------------------------------------------------------------------
(* From the lock to the unlock of a function of the library no other thread *)
(* is between its own (std::lock_guard<std::mutex> l (awk_in_use)).          *)
THEOREM CarefulExclusion == CarefulSpec => []Exclusion
<1>1. CarefulInv => Exclusion
  BY DEF CarefulInv
<1> QED
  BY <1>1, CarefulInvariant, PTL

(* The global interp is the interpreter of the working function until that  *)
(* unlocks: nothing the other threads do takes it away.                     *)
THEOREM CarefulGlobalIsMine == CarefulSpec => []GlobalIsMine
<1>1. CarefulInv => GlobalIsMine
  BY DEF CarefulInv
<1> QED
  BY <1>1, CarefulInvariant, PTL

(* No function reads or writes a deleted interpreter, through interp,       *)
(* through its argument or through the literal cells, inside the lock or    *)
(* outside of it, unless the host has ended the interpreter it made last    *)
(* and goes on with another.                                                *)
THEOREM CarefulFaultCauses == CarefulSpec => []FaultCauses
BY CarefulInvariant, PTL
-----------------------------------------------------------------------------
(* The status of an interpreter and the place of the thread that owns it:  *)
(* what awk_exec saw outside the lock is still so inside.                  *)
Compiles(t) == pc[t] = "parse" \/ (pc[t] = "start" /\ fn[t] = "run")
Runs(t) == pc[t] \in {"program", "host", "ending"}

InStep == \A t \in Thread :
  /\ pc[t] = "parse" => fn[t] \in {"compile", "run"}
  /\ pc[t] = "start" => fn[t] \in {"exec", "run"}
  /\ Compiles(t) => status[obj[t]] = "COMPILING"
  /\ Runs(t) => status[obj[t]] = "RUN"
  /\ pc[t] = "test" => status[obj[t]] # "INIT"
  /\ pc[t] = "lock" => fn[t] \in {"setprog", "compile", "run", "exec"}
  /\ pc[t] = "body" => fn[t] = "setprog"
  /\ pc[t] \in {"lock", "body"} /\ fn[t] = "setprog"
       => status[obj[t]] = "INIT" /\ source[obj[t]] = "none"
  /\ pc[t] \in {"lock", "start"} /\ fn[t] = "exec" => status[obj[t]] = "COMPILED"

OnlyInStep == \A t \in Thread : \A i \in own[t] :
  /\ status[i] \in {"INIT", "COMPILING"} => err[i] = "ok"
  /\ status[i] = "COMPILING" => obj[t] = i /\ Compiles(t)
  /\ status[i] = "RUN" => obj[t] = i /\ Runs(t)

Stage == InStep /\ OnlyInStep

LEMMA StageInit == PooledInit => Stage
<1> SUFFICES ASSUME PooledInit PROVE Stage
  OBVIOUS
<1>1. PICK owner \in [Interp -> Thread] :
         own = [t \in Thread |-> {i \in Interp : owner[i] = t}]
  BY DEF PooledInit
<1> QED
  BY <1>1 DEF PooledInit, Stage, InStep, OnlyInStep, Compiles, Runs

LEMMA StageCall ==
  ASSUME CarefulInv, Stage, NEW t \in Thread, CarefulCall(t)
  PROVE  Stage'
<1>1. PICK i \in own[t], f \in CarefulCalls, l \in {"lock", "test", "geterr", "end"} :
        /\ Begin(t, f, i) /\ Goto(t, l)
        /\ l = "lock" => f \in {"setprog", "compile", "run"}
        /\ l = "test" => status[i] # "INIT"
        /\ f = "setprog" => status[i] = "INIT" /\ source[i] = "none"
        /\ UNCHANGED <<object, interp, literals, mutex, own, fault>>
  BY DEF CarefulCall, Call, Unlocked, CarefulCalls
<1> QED
  BY <1>1 DEF CarefulInv, TypeOK, Stage, InStep, OnlyInStep, Compiles, Runs, Begin, Goto, object

LEMMA StageExecTest ==
  ASSUME CarefulInv, Stage, NEW t \in Thread, pc[t] # "idle", ExecTest(t)
  PROVE  Stage'
<1> USE DEF CarefulInv, TypeOK, OnItsOwn, Possession, StillFresh, GlobalIsMine, Working,
            ExecTest, At, Goto, Return, object, SetStatus
<1>1. InStep'
  BY DEF Stage, InStep, OnlyInStep, Compiles, Runs, CarefulCalls
<1>2. OnlyInStep'
  <2>1. status[obj[t]] \notin {"INIT", "COMPILING"} \/ err' = err
    BY DEF Stage, InStep, OnlyInStep, Compiles
  <2>2. \A j \in Interp : j # obj[t] => err'[j] = err[j]
    BY DEF Errors
  <2>3. status' = status /\ own' = own /\ obj' = obj /\ fn' = fn
    OBVIOUS
  <2>4. \A u \in Thread : u # t => pc'[u] = pc[u]
    OBVIOUS
  <2>5. pc[t] = "test"
    OBVIOUS
  <2> QED
    BY ONLY <2>1, <2>2, <2>3, <2>4, <2>5, t \in Thread, Stage, CarefulInv
    DEF CarefulInv, TypeOK, Stage, OnlyInStep, Compiles, Runs
<1> QED
  BY <1>1, <1>2 DEF Stage

LEMMA StageLock ==
  ASSUME CarefulInv, Stage, NEW t \in Thread, pc[t] # "idle", Lock(t)
  PROVE  Stage'
<1> USE DEF CarefulInv, TypeOK, OnItsOwn, Possession, StillFresh, GlobalIsMine, Working,
            Lock, At, Goto, Return, object, Entry
<1>1. InStep'
  BY DEF Stage, InStep, OnlyInStep, Compiles, Runs, CarefulCalls
<1>2. OnlyInStep'
  BY DEF Stage, InStep, OnlyInStep, Compiles, Runs, Errors, Minus, Codes
<1> QED
  BY <1>1, <1>2 DEF Stage

LEMMA StageSetProgram ==
  ASSUME CarefulInv, Stage, NEW t \in Thread, pc[t] # "idle", SetProgram(t)
  PROVE  Stage'
<1> USE DEF CarefulInv, TypeOK, OnItsOwn, Possession, StillFresh, GlobalIsMine, Working,
            SetProgram, At, Goto, Return, object, Record, Release
<1>1. InStep'
  BY DEF Stage, InStep, OnlyInStep, Compiles, Runs, CarefulCalls
<1>2. OnlyInStep'
  <2>1. status[obj[t]] \notin {"INIT", "COMPILING"} \/ err' = err
    BY DEF Stage, InStep, OnlyInStep, Compiles
  <2>2. \A j \in Interp : j # obj[t] => err'[j] = err[j]
    BY DEF Errors
  <2>3. status' = status /\ own' = own /\ obj' = obj /\ fn' = fn
    OBVIOUS
  <2>4. \A u \in Thread : u # t => pc'[u] = pc[u]
    OBVIOUS
  <2>5. pc[t] = "body"
    OBVIOUS
  <2> QED
    BY ONLY <2>1, <2>2, <2>3, <2>4, <2>5, t \in Thread, Stage, CarefulInv
    DEF CarefulInv, TypeOK, Stage, OnlyInStep, Compiles, Runs
<1> QED
  BY <1>1, <1>2 DEF Stage

LEMMA StageCheck ==
  ASSUME CarefulInv, Stage, NEW t \in Thread, pc[t] # "idle", Check(t)
  PROVE  Stage'
<1> USE DEF CarefulInv, TypeOK, OnItsOwn, Possession, StillFresh, GlobalIsMine, Working,
            Check, At, Goto, Return, object, Record, SetStatus, Release, NotCompiled,
            NoProgram
<1>1. InStep'
  <2>1. /\ status' = [status EXCEPT ![obj[t]] = "COMPILING"]
        /\ pc' = [pc EXCEPT ![t] = "parse"]
        /\ fn' = fn /\ obj' = obj
        /\ \A j \in Interp : j # obj[t] => source'[j] = source[j]
    OBVIOUS
  <2>2. \A u \in Thread : u # t /\ pc[u] # "idle" => obj[u] # obj[t] /\ obj[u] \in Interp
    OBVIOUS
  <2>3. fn[t] \in {"compile", "run"} /\ obj[t] \in Interp
    OBVIOUS
  <2> QED
    BY ONLY <2>1, <2>2, <2>3, Stage, t \in Thread, CarefulInv
    DEF CarefulInv, TypeOK, Stage, InStep, Compiles, Runs
<1>2. OnlyInStep'
  BY DEF Stage, InStep, OnlyInStep, Compiles, Runs, Errors, Minus, Codes
<1> QED
  BY <1>1, <1>2 DEF Stage

LEMMA StageParse ==
  ASSUME CarefulInv, Stage, NEW t \in Thread, pc[t] # "idle", Parse(t)
  PROVE  Stage'
<1> USE DEF CarefulInv, TypeOK, OnItsOwn, Possession, StillFresh, GlobalIsMine, Working,
            Parse, At, Goto, Return, object, Record, SetStatus, Release, NotCompiled
<1>1. InStep'
  BY DEF Stage, InStep, OnlyInStep, Compiles, Runs, CarefulCalls
<1>2. OnlyInStep'
  <2>1. err[obj[t]] = "ok"
    BY DEF Stage, InStep, OnlyInStep, Compiles
  <2>2. /\ \/ /\ \E x \in {"DONE", "COMPILED"} : status' = [status EXCEPT ![obj[t]] = x]
              /\ pc' = [pc EXCEPT ![t] = "idle"]
           \/ /\ status' = status /\ err' = err
              /\ pc' = [pc EXCEPT ![t] = "start"] /\ fn[t] = "run"
        /\ \A j \in Interp : j # obj[t] => err'[j] = err[j]
        /\ own' = own /\ obj' = obj /\ fn' = fn
    BY <2>1
  <2>3. pc[t] = "parse" /\ obj[t] \in own[t] /\ status[obj[t]] = "COMPILING"
    BY DEF Stage, InStep, Compiles
  <2>4. \A u \in Thread : u # t => obj[t] \notin own[u]
    BY <2>3
  <2> QED
    BY ONLY <2>1, <2>2, <2>3, <2>4, Stage, t \in Thread, CarefulInv
    DEF CarefulInv, TypeOK, Stage, OnlyInStep, Compiles, Runs
<1> QED
  BY <1>1, <1>2 DEF Stage

LEMMA StageStart ==
  ASSUME CarefulInv, Stage, NEW t \in Thread, pc[t] # "idle", Start(t)
  PROVE  Stage'
<1> USE DEF CarefulInv, TypeOK, OnItsOwn, Possession, StillFresh, GlobalIsMine, Working,
            Start, At, Goto, Return, object, SetStatus
<1>1. InStep'
  BY DEF Stage, InStep, OnlyInStep, Compiles, Runs, CarefulCalls
<1>2. OnlyInStep'
  BY DEF Stage, InStep, OnlyInStep, Compiles, Runs, Errors, Minus, Codes
<1> QED
  BY <1>1, <1>2 DEF Stage

LEMMA StageCallback ==
  ASSUME CarefulInv, Stage, NEW t \in Thread, pc[t] # "idle", Callback(t)
  PROVE  Stage'
<1> USE DEF CarefulInv, TypeOK, OnItsOwn, Possession, StillFresh, GlobalIsMine, Working,
            Callback, At, Goto, Return, object
<1>1. InStep'
  BY DEF Stage, InStep, OnlyInStep, Compiles, Runs, CarefulCalls
<1>2. OnlyInStep'
  BY DEF Stage, InStep, OnlyInStep, Compiles, Runs, Errors, Minus, Codes
<1> QED
  BY <1>1, <1>2 DEF Stage

LEMMA StageHostReturns ==
  ASSUME CarefulInv, Stage, NEW t \in Thread, pc[t] # "idle", HostReturns(t)
  PROVE  Stage'
<1> USE DEF CarefulInv, TypeOK, OnItsOwn, Possession, StillFresh, GlobalIsMine, Working,
            HostReturns, At, Goto, Return, object
<1>1. InStep'
  BY DEF Stage, InStep, OnlyInStep, Compiles, Runs, CarefulCalls
<1>2. OnlyInStep'
  BY DEF Stage, InStep, OnlyInStep, Compiles, Runs, Errors, Minus, Codes
<1> QED
  BY <1>1, <1>2 DEF Stage

LEMMA StageFinish ==
  ASSUME CarefulInv, Stage, NEW t \in Thread, pc[t] # "idle", Finish(t)
  PROVE  Stage'
<1> USE DEF CarefulInv, TypeOK, OnItsOwn, Possession, StillFresh, GlobalIsMine, Working,
            Finish, At, Goto, Return, object, Ends, SetStatus, Release
<1>1. InStep'
  BY DEF Stage, InStep, OnlyInStep, Compiles, Runs, CarefulCalls
<1>2. OnlyInStep'
  BY DEF Stage, InStep, OnlyInStep, Compiles, Runs, Errors, Minus, Codes
<1> QED
  BY <1>1, <1>2 DEF Stage

LEMMA StageAwkErr ==
  ASSUME CarefulInv, Stage, NEW t \in Thread, pc[t] # "idle", AwkErr(t)
  PROVE  Stage'
<1> USE DEF CarefulInv, TypeOK, OnItsOwn, Possession, StillFresh, GlobalIsMine, Working,
            AwkErr, At, Goto, Return, object
<1>1. InStep'
  BY DEF Stage, InStep, OnlyInStep, Compiles, Runs, CarefulCalls
<1>2. OnlyInStep'
  BY DEF Stage, InStep, OnlyInStep, Compiles, Runs, Errors, Minus, Codes
<1> QED
  BY <1>1, <1>2 DEF Stage

LEMMA StageAwkEnd ==
  ASSUME CarefulInv, Stage, NEW t \in Thread, pc[t] # "idle", AwkEnd(t)
  PROVE  Stage'
<1> USE DEF CarefulInv, TypeOK, OnItsOwn, Possession, StillFresh, GlobalIsMine, Working,
            AwkEnd, At, Goto, Return, object
<1>1. InStep'
  BY DEF Stage, InStep, OnlyInStep, Compiles, Runs, CarefulCalls
<1>2. OnlyInStep'
  BY DEF Stage, InStep, OnlyInStep, Compiles, Runs, Errors, Minus, Codes
<1> QED
  BY <1>1, <1>2 DEF Stage

Inv == CarefulInv /\ Stage

LEMMA StageInductive == Inv /\ [CarefulNext]_vars => Inv'
<1> SUFFICES ASSUME CarefulInv, Stage, [CarefulNext]_vars PROVE Stage'
  BY CarefulInductive DEF Inv
<1>1. CASE UNCHANGED vars
  BY <1>1 DEF Stage, InStep, OnlyInStep, Compiles, Runs, vars, object, thread
<1>2. CASE Over
  BY <1>1, <1>2 DEF Over
<1>3. ASSUME NEW t \in Thread, CarefulCall(t) PROVE Stage'
  BY <1>3, StageCall
<1>4. ASSUME NEW t \in Thread, Inside(t) PROVE Stage'
  <2>1. pc[t] # "idle"
    BY <1>4 DEF Inside
  <2>2. ~InitVars(t) /\ ~InitCatch(t) /\ ~InitReturn(t) /\ ~AwkGetvar(t)
    BY <2>1 DEF CarefulInv, OnItsOwn, InitVars, InitCatch, InitReturn, AwkGetvar, At
  <2>3. CASE Crash(t)
    BY <2>3 DEF Stage, InStep, OnlyInStep, Compiles, Runs, Crash, object, thread
  <2> QED
    BY <1>4, <2>1, <2>2, <2>3, StageExecTest, StageLock, StageSetProgram, StageCheck,
       StageParse, StageStart, StageCallback, StageHostReturns, StageFinish, StageAwkErr,
       StageAwkEnd DEF Inside
<1> QED
  BY <1>1, <1>2, <1>3, <1>4 DEF CarefulNext

LEMMA StageInvariant == CarefulSpec => []Inv
<1>1. PooledInit => Inv
  BY CarefulInitInv, StageInit DEF Inv
<1>2. Inv /\ [CarefulNext]_vars => Inv'
  BY StageInductive
<1> QED
  BY <1>1, <1>2, PTL DEF CarefulSpec

(* A thread that is back from its call leaves no interpreter compiling or   *)
(* running, whichever way the call ended.                                   *)
THEOREM CarefulNeverStuck == CarefulSpec => []NeverStuck
<1>1. Inv => NeverStuck
  BY DEF Inv, Stage, OnlyInStep, Compiles, Runs, NeverStuck
<1> QED
  BY <1>1, StageInvariant, PTL

(* An interpreter moves along its life cycle only: awk_exec runs it only    *)
(* once compiled although it looks at the status before it has the lock.    *)
THEOREM CarefulStatusPath == CarefulSpec => StatusPath
<1> DEFINE Legal == \A i \in Interp : status'[i] # status[i] /\ mem[i] = "live"
                                       => <<status[i], status'[i]>> \in Steps
<1>1. ASSUME Inv, [CarefulNext]_vars PROVE [Legal]_vars
  <2> SUFFICES ASSUME NEW i \in Interp, status'[i] # status[i]
               PROVE  <<status[i], status'[i]>> \in Steps
    OBVIOUS
  <2>1. PICK t \in Thread : Inside(t)
    BY <1>1 DEF CarefulNext, CarefulCall, Call, Unlocked, Over, vars, object
  <2>2. pc[t] # "idle"
    BY <2>1 DEF Inside
  <2>3. \/ Check(t) \/ Parse(t) \/ Start(t) \/ Finish(t)
    BY <2>1 DEF Inside, InitVars, InitCatch, InitReturn, ExecTest, Lock, SetProgram, Callback,
                HostReturns, AwkErr, AwkGetvar, AwkEnd, Crash, object
  <2>4. status[i] \in Statuses /\ status'[i] \in Statuses
    BY <1>1, StageInductive DEF Inv, CarefulInv, TypeOK
  <2>5. pc[t] \in {"parse", "start", "program", "ending"} => interp = obj[t]
    BY <1>1 DEF Inv, CarefulInv, GlobalIsMine, Working
  <2>6. obj[t] \in Interp
    BY <1>1, <2>2 DEF Inv, CarefulInv, TypeOK, OnItsOwn
  <2>7. CASE Check(t)
    <3>1. \E x \in {"DONE", "COMPILING"} : status' = [status EXCEPT ![obj[t]] = x]
      BY <2>7 DEF Check, SetStatus
    <3>2. status[obj[t]] = "INIT"
      BY <1>1, <2>7 DEF Check, At, Inv, CarefulInv, StillFresh
    <3> QED
      BY <1>1, <2>4, <3>1, <3>2 DEF Inv, CarefulInv, TypeOK, Steps
  <2>8. CASE Parse(t)
    <3>1. \E x \in {"DONE", "COMPILED"} : status' = [status EXCEPT ![obj[t]] = x]
      BY <2>8 DEF Parse, SetStatus
    <3>2. status[obj[t]] = "COMPILING"
      BY <1>1, <2>8 DEF Parse, At, Inv, Stage, InStep, Compiles
    <3> QED
      BY <1>1, <2>4, <3>1, <3>2 DEF Inv, CarefulInv, TypeOK, Steps
  <2>9. CASE Start(t)
    <3>1. status' = [status EXCEPT ![obj[t]] = "RUN"]
      BY <2>5, <2>9 DEF Start, At, SetStatus
    <3>2. status[obj[t]] \in {"COMPILING", "COMPILED"}
      BY <1>1, <2>9 DEF Start, At, Inv, Stage, InStep, Compiles
    <3> QED
      BY <1>1, <2>4, <3>1, <3>2 DEF Inv, CarefulInv, TypeOK, Steps
  <2>10. CASE Finish(t)
    <3>1. \E x \in {"DONE", "COMPILED"} : status' = [status EXCEPT ![obj[t]] = x]
      BY <2>5, <2>10 DEF Finish, Ends, SetStatus
    <3>2. status[obj[t]] = "RUN"
      BY <1>1, <2>10 DEF Finish, At, Inv, Stage, InStep, Runs
    <3> QED
      BY <1>1, <2>4, <3>1, <3>2 DEF Inv, CarefulInv, TypeOK, Steps
  <2> QED
    BY <2>3, <2>7, <2>8, <2>9, <2>10
<1> QED
  BY <1>1, StageInvariant, PTL DEF CarefulSpec, StatusPath

(* An error is recorded in the interpreter of the call that failed and in   *)
(* no other, although FATAL only knows the global interp.                   *)
THEOREM CarefulErrorGoesHome == CarefulSpec => ErrorGoesHome
<1> DEFINE Home == \A i \in Interp : err'[i] # err[i]
              => \E t \in Thread : pc'[t] # pc[t] /\ (obj[t] = i \/ fn[t] = "init")
<1>1. ASSUME Inv, [CarefulNext]_vars PROVE [Home]_vars
  <2> SUFFICES ASSUME NEW i \in Interp, err'[i] # err[i]
               PROVE  \E t \in Thread : pc'[t] # pc[t] /\ obj[t] = i
    OBVIOUS
  <2>1. PICK t \in Thread : Inside(t)
    BY <1>1 DEF CarefulNext, CarefulCall, Call, Unlocked, Over, vars, object
  <2>2. pc[t] # "idle"
    BY <2>1 DEF Inside
  <2>3. ~InitVars(t) /\ ~AwkGetvar(t)
    BY <1>1, <2>2 DEF Inv, CarefulInv, OnItsOwn, InitVars, AwkGetvar, At
  <2>4. ExecTest(t) \/ SetProgram(t) \/ Check(t) \/ Parse(t) \/ Finish(t)
    BY <2>1, <2>3 DEF Inside, InitCatch, InitReturn, Lock, Start, Callback,
                      HostReturns, AwkErr, AwkEnd, Crash, object
  <2>5. pc \in [Thread -> Locked \cup Waiting] /\ err \in [Interp -> Codes]
    BY <1>1 DEF Inv, CarefulInv, TypeOK
  <2>6. pc[t] \in Working => interp = obj[t]
    BY <1>1 DEF Inv, CarefulInv, GlobalIsMine
  <2>7. CASE ExecTest(t)
    BY <2>5, <2>7 DEF ExecTest, Return, Goto, At
  <2>8. CASE SetProgram(t)
    BY <2>5, <2>6, <2>8 DEF SetProgram, Release, Return, Goto, At, Record, Working
  <2>9. CASE Check(t)
    <3>1. status[obj[t]] = "INIT" /\ ~NoProgram(t)
      BY <1>1, <2>9 DEF Check, At, Inv, CarefulInv, StillFresh, NoProgram
    <3> QED
      BY <2>9, <3>1 DEF Check
  <2>10. CASE Parse(t)
    BY <2>5, <2>6, <2>10
    DEF Parse, NotCompiled, Release, Return, Goto, At, Record, Working
  <2>11. CASE Finish(t)
    BY <2>2, <2>5, <2>6, <2>11 DEF Finish, Ends, Release, Return, Goto, At, Working
  <2> QED
    BY <2>4, <2>7, <2>8, <2>9, <2>10, <2>11
<1> QED
  BY <1>1, StageInvariant, PTL DEF CarefulSpec, ErrorGoesHome
=============================================================================
