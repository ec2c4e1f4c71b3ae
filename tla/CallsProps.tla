----------------------------- MODULE CallsProps -----------------------------
(***************************************************************************)
(* What statements, jumps and calls promise.                               *)
(***************************************************************************)
EXTENDS Calls

\* interp->fn is the frame of the function whose text is executed, through
\* calls in arguments, recursion and every jump out of a body (run.cpp:237,
\* 288); the arguments of a call are evaluated in the frame of the caller.
\* An exception leaves fn behind, in an interpreter that cannot run again.
FrameIsOwn == (x # "error" /\ fault = "none") => fn = Function

\* What a program must do to have a call touch memory that is freed or shared
\* (run.cpp:218, 290, 309, 317): an array is made of a parameter that was passed
\* an expression, a record is read into a name (which may stand for the array of
\* a caller), or a function ends without return.  No other program does, whatever
\* it calls and however the calls are left.
FaultCauses ==
  /\ fault \in {"argument was freed", "constant is array"} => text.expressions
  /\ fault = "variable was freed" => text.getlines
  /\ fault = "result was freed" => ~text.returns

\* Jumps go where they should: execute and the statements pass each to the
\* statement it is for, through whatever is nested in between (run.cpp:107).
\* A jump on its way up is already where it will land.
Ideal == INSTANCE Structured WITH
       place <- IF x \in Jumps THEN LandPlace(stack, x) ELSE stack,
       doing <- IF x \in Jumps THEN LandDoing(stack, x) ELSE x
ImplementsStructured == Ideal!Spec

\* The calls as scopes of names: what each parameter was passed, and its value
\* unless it is another's.
Parameter(k, n) ==
  LET c == calls[k].callpar[n]
  IN [home  |-> IF c \in {Freed, Constant} THEN Freed ELSE c,
      value |-> IF calls[k].args[n] = Own(k, n) THEN cell[Own(k, n)] ELSE "shared"]
Scope(k) == [running |-> Runs(k),
             params  |-> [n \in DOMAIN calls[k].args |-> Parameter(k, n)]]
Scopes == [k \in DOMAIN calls |-> Scope(k)]
Variables == [g \in Globals |-> cell[Global(g)]]
Defined   == fault \notin {"argument was freed", "constant is array", "variable was freed"}

\* Names mean what they should: scalars are passed by value, arrays by
\* reference, and an array that a function makes of a parameter comes back to
\* the variable passed (run.cpp:208-231, 289-315).
Env == INSTANCE Environments WITH
         Initial <- "scalar", variable <- Variables, scopes <- Scopes, defined <- Defined
ImplementsEnvironments == Env!Spec
=============================================================================
