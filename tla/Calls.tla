------------------------------- MODULE Calls -------------------------------
(***************************************************************************)
(* Function calls: ControlFlow with the cells the variables and parameters *)
(* are kept in.  A call has a frame (the parameters) and the local         *)
(* variables of the C++ function call: callpar, what the arguments were    *)
(* evaluated to, and prev, the frame to come back to.  The frame that the  *)
(* parse tree takes parameters from is the global interp->fn.              *)
(*                                                                         *)
(* Values are two scalars and two arrays.  A run is followed up to the     *)
(* first fault: a freed cell used, the cell of a variable freed, a         *)
(* constant changed.                                                       *)
(***************************************************************************)
EXTENDS ControlFlow

CONSTANTS Globals, MaxParams, MaxCalls

Scalars == {"scalar", "changed"}
Arrays  == {"empty array", "array"}
NoValue == "none"

\* A cell: a global variable, a constant of the program (or a cell such as
\* jexit or literal_null, which are shared in the same way), or the one that
\* a call allocates for its n-th parameter.
Constant == <<0, 0>>
Global(g) == <<0, g>>
Own(a, n) == <<a, n>>
Cells == {Constant} \cup {Global(g) : g \in Globals}
           \cup {Own(a, n) : a \in 1..MaxCalls, n \in 1..MaxParams}

ASSUME CallsAssumption ==
  /\ 0 \notin Globals /\ MaxParams \in Nat /\ MaxCalls \in Nat
  /\ \A p \in Programs : /\ p.names \subseteq Globals
                         /\ p.params \in 0..MaxParams /\ p.calls \in 0..MaxCalls

Null  == <<>>          \* callpar of a parameter without an argument
Freed == <<0>>         \* callpar of an argument in a temporary cell

VARIABLES calls,  \* the calls, each [at, ndef, args, callpar, prev]
          fn,     \* interp->fn: the frame of which call; 0 is none
          cell,   \* the value of each cell
          value,  \* the cell that the last statement is the value of
          fault

store == <<calls, fn, cell, value, fault>>
all   == <<control, store>>

isarr(c) == cell[c] \in Arrays

CallsInit == /\ Init
             /\ calls = <<>> /\ fn = 0 /\ value = Null /\ fault = "none"
             /\ cell = [c \in Cells |-> IF c[1] = 0 THEN "scalar" ELSE NoValue]
-----------------------------------------------------------------------------
(* Names.  The text knows how many parameters its function has; their      *)
(* cells are looked up in interp->fn.                                      *)
Runs(k)    == stack[calls[k].at] = "function"
Function   == IF \E k \in DOMAIN calls : Runs(k)
              THEN CHOOSE k \in DOMAIN calls :
                     Runs(k) /\ \A m \in DOMAIN calls : m > k => ~Runs(m)
              ELSE 0
Parameters == IF Function = 0 THEN 0 ELSE calls[Function].ndef
arg(n)     == calls[fn].args[n]
Named      == {Global(g) : g \in text.names} \cup {arg(n) : n \in 1..Parameters}

\* What runs next is a statement of a list; its value is the cell c.
Statement(c) == /\ x = "go" /\ At(Lists)
                /\ x' = "done" /\ value' = c /\ UNCHANGED stack

Set(c, v) == cell' = [cell EXCEPT ![c] = v]

\* assign; setsval of an array is an error.
assign(c) == /\ ~isarr(c) /\ Statement(c)
             /\ \E v \in Scalars : Set(c, v)
             /\ UNCHANGED <<calls, fn, fault>>

\* getline into a name: readrec empties the cell and marks it as text, an array
\* too (its table is lost).
awkgetline(c) == /\ text.getlines /\ Statement(c)
                 /\ \E v \in Scalars : Set(c, v)
                 /\ UNCHANGED <<calls, fn, fault>>

\* array: any use with a subscript makes an array; its value is an element.
array(c) == /\ Statement(c) /\ Set(c, "array")
            /\ UNCHANGED <<calls, fn, fault>>

awkdelete(c) == /\ isarr(c) /\ Statement(Null) /\ Set(c, "empty array")
                /\ UNCHANGED <<calls, fn, fault>>
-----------------------------------------------------------------------------
(* A call, from its first argument to its result.                          *)
Last == Len(calls)

BeginCall == /\ \/ "arguments" \in text.constructs /\ Enter("arguments")
                \/ (At({"arguments"}) => text.expressions) /\ CallIn
             /\ Last < text.calls
             /\ \E ndef \in 0..text.params :
                  calls' = Append(calls, [at |-> Len(stack) + 1, ndef |-> ndef,
                                          args |-> <<>>, callpar |-> <<>>, prev |-> 0])
             /\ UNCHANGED <<fn, cell, value, fault>>

\* The next argument is the cell y, or a temporary one with the value v.
Pass(y, v) ==
  LET n == Len(calls[Last].args) + 1
      t == IF v \in Arrays THEN y ELSE Own(Last, n)
  IN /\ n <= calls[Last].ndef
     /\ calls' = [calls EXCEPT ![Last].args = Append(@, t), ![Last].callpar = Append(@, y)]
     /\ cell' = IF v \in Arrays THEN cell ELSE [cell EXCEPT ![t] = v]

\* An argument without a call in it.
PassPlain == /\ x = "go" /\ At({"arguments"}) /\ UNCHANGED <<control, fn, value, fault>>
             /\ \/ \E y \in Named : Pass(y, cell[y])
                \/ text.expressions /\ Pass(Constant, cell[Constant])
                \/ text.expressions /\ \E v \in Scalars : Pass(Freed, v)

\* The result of a call, or the jump cell that came out of it; arguments
\* the function has no parameters for are dropped.
PassResult == /\ Argument /\ UNCHANGED <<fn, value, fault>>
              /\ IF Len(calls[Last].args) = calls[Last].ndef THEN UNCHANGED <<calls, cell>>
                 ELSE \/ x \in Jumps /\ Pass(Constant, "scalar")
                      \/ x = "done" /\ Pass(Constant, "scalar")
                      \/ x = "done" /\ \E v \in Scalars : Pass(Freed, v)

\* Local variables are parameters without arguments.  The body sees the new
\* frame, and nothing before it does.
UnsetMalloc == Freed    \* (Mutant) callpar is not cleared
Unset == Null
StartBody ==
  /\ Body /\ UNCHANGED <<value, fault>>
  /\ LET call  == calls[Last]
         given == Len(call.args)
     IN /\ calls' = [calls EXCEPT ![Last] = [call EXCEPT
             !.args = [n \in 1..call.ndef |-> IF n <= given THEN @[n] ELSE Own(Last, n)],
             !.callpar = [n \in 1..call.ndef |-> IF n <= given THEN @[n] ELSE Unset],
             !.prev = fn]]
        /\ cell' = [c \in Cells |-> IF c[1] = Last /\ c[2] \in (given + 1)..call.ndef
                                    THEN "scalar" ELSE cell[c]]
  /\ fn' = Last

\* The end of the call: the values of all cells after each of its parameters
\* is done with.  An array that was made of a scalar moves to the argument.
\* (Mutant) whatever the argument is by now.
ComesOutAlways(values, call, n) ==
  /\ call.callpar[n] \notin {Null, Freed}
  /\ values[call.args[n]] \in Arrays
ComesOut(values, call, n) ==
  /\ call.callpar[n] \notin {Null, Freed}
  /\ values[call.args[n]] \in Arrays
  /\ values[call.callpar[n]] \notin Arrays
CopiedBack(call) ==
  LET after[n \in 0..call.ndef] ==
        IF n = 0 THEN cell
        ELSE IF ComesOut(after[n - 1], call, n)
             THEN [after[n - 1] EXCEPT ![call.callpar[n]] = after[n - 1][call.args[n]]]
             ELSE after[n - 1]
  IN after

\* What the end of a call does with memory that is not its own.  A cell is
\* taken for the call's own when its value is no array by then.
FreesArgument(call, n) ==
  /\ call.args[n] = call.callpar[n]
  /\ CopiedBack(call)[n - 1][call.args[n]] \notin Arrays
Trouble(call) ==
  IF \E n \in 1..call.ndef : call.callpar[n] = Freed /\ isarr(call.args[n])
  THEN "argument was freed"
  ELSE IF \E n \in 1..call.ndef : call.callpar[n] = Constant /\ isarr(call.args[n])
  THEN "constant is array"
  ELSE IF \E n \in 1..call.ndef : FreesArgument(call, n)
  THEN "variable was freed"
  ELSE IF x = "done" /\ \E n \in 1..call.ndef :
            /\ value = call.args[n] /\ value = Own(Last, n)
            /\ isarr(value) => call.callpar[n] = Null
  THEN "result was freed"
  ELSE "none"

\* The frame to come back to.
restoredNone(call) == 0    \* (Mutant) the frame is cleared
restored(call) == call.prev

EndCall ==
  /\ Result
  /\ text.returns => x # "done"
  /\ LET call == calls[Last] IN
       /\ fn' = restored(call)
       /\ cell' = [c \in Cells |-> IF c[1] = Last THEN NoValue
                               ELSE CopiedBack(call)[call.ndef][c]]
       /\ fault' = Trouble(call)
  /\ calls' = SubSeq(calls, 1, Last - 1)
  /\ value' = Null
-----------------------------------------------------------------------------
\* The rest of the statements; a branch has the value of its last one.
Keeps == At({"branch", "action"}) /\ x = "done"

Other == /\ \/ \E p \in text.constructs \ {"arguments"} : Enter(p)
            \/ \E j \in Jumps : jump(j)
            \/ Value \/ NextStatement
            \/ Returned /\ \/ ifstat \/ whilestat \/ dostat \/ forstat \/ instat \/ dopa2
                           \/ operator \/ jumpWith \/ program
         /\ value' = IF Keeps THEN value ELSE Null
         /\ UNCHANGED <<calls, fn, cell, fault>>

\* An exception leaves fn as it is.
Abandon == /\ Error
           /\ calls' = <<>> /\ value' = Null
           /\ cell' = [c \in Cells |-> IF c[1] = 0 THEN cell[c] ELSE NoValue]
           /\ UNCHANGED <<fn, fault>>

CallsNext ==
  /\ fault = "none" /\ UNCHANGED text
  /\ \/ \E c \in Named : assign(c) \/ awkgetline(c) \/ array(c) \/ awkdelete(c)
     \/ BeginCall \/ PassPlain \/ PassResult \/ StartBody \/ EndCall
     \/ Other \/ Abandon

Finished == /\ stack = <<>> \/ fault # "none"
            /\ UNCHANGED all

CallsSpec == CallsInit /\ [][CallsNext \/ Finished]_all
=============================================================================
