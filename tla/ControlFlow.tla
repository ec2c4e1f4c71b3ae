---------------------------- MODULE ControlFlow ----------------------------
(***************************************************************************)
(* How execute and the functions of the parse tree run the statements of a *)
(* program and pass jumps up: exit, next, break, continue and return are   *)
(* cells a function returns to the one that called it, and each construct  *)
(* decides by itself what it does with them.                               *)
(*                                                                         *)
(* The program is any program: at a statement, every statement the grammar *)
(* allows there may come, and a condition may hold or not.  next stands    *)
(* for nextfile too, isnext() is true of both.                             *)
(***************************************************************************)
EXTENDS Contexts

CONSTANT Programs    \* the programs: what each is made of, with its bounds

ASSUME ProgramsAssumption ==
  \A p \in Programs : p.constructs \subseteq Starts /\ p.sections \subseteq Sections

VARIABLES text,    \* the one that runs
          stack,   \* the place: one phase for each active function
          x        \* what the function called last returned, or where to go on:
                   \*   "go": execute what stands at the place
                   \*   "done": a value, or True and False of loops
                   \*   a jump cell; "over", "error": awk_exec is done

control == <<text, stack, x>>

Jumps  == {"exit", "next", "break", "continue", "return"}
Events == Jumps \cup {"go", "done", "over", "error"}

Init == /\ text \in Programs /\ x = "go"
        /\ stack \in {<<s>> : s \in Starting(text)}

At(phases) == stack # <<>> /\ Top(stack) \in phases

\* The construct on top goes on with phase p, or returns r to the one below.
GoTo(p)   == stack' = Turn(stack, p) /\ x' = "go"
Return(r) == stack' = Below(stack) /\ x' = r
Over      == stack' = <<>> /\ x' = "over"
FATAL     == stack' = <<>> /\ x' = "error"
-----------------------------------------------------------------------------
(* Going down.                                                             *)
Enter(p) == /\ x = "go" /\ At(Lists)
            /\ Len(stack) < text.depth
            /\ LegalStart(stack, p)
            /\ stack' = Append(stack, p) /\ x' = "go"

\* A call inside an expression.
CallIn == /\ x = "go" /\ At(Operands)
          /\ Len(stack) < text.depth
          /\ stack' = Append(stack, "arguments") /\ x' = "go"

\* break, continue, next, exit and return without an expression.
jump(j) == /\ x = "go" /\ At(Lists)
           /\ Legal(stack, j)
           /\ x' = j /\ UNCHANGED stack

\* The last statement of the list, or an expression, without a jump.
Value == /\ x = "go" /\ At(Phases \ {"arguments"})
         /\ x' = "done" /\ UNCHANGED stack

\* execute: on to the next statement unless the last one was a jump.
NextStatement == /\ x = "done" /\ At(Lists)
                 /\ x' = "go" /\ UNCHANGED stack

\* The FATAL of any expression.
Error == x = "go" /\ stack # <<>> /\ FATAL
-----------------------------------------------------------------------------
(* Going up: x is what the phase on top of the stack has returned.         *)
Returned == stack # <<>> /\ x # "go"
isleave  == x \in {"next", "exit", "return"}

ifstat ==     \* condexpr and pastat as well
  \/ At({"if cond"}) /\ (GoTo("branch") \/ Return("done"))
  \/ At({"branch"}) /\ Return(x)

\* (Mutant) continue ends the loop as break does.
whilestatContinue ==
  \/ At({"while cond"}) /\ (GoTo("while body") \/ Return("done"))
  \/ At({"while body"}) /\ \/ x \in {"break", "continue"} /\ Return("done")
                           \/ isleave /\ Return(x)
                           \/ x = "done" /\ GoTo("while cond")

whilestat ==
  \/ At({"while cond"}) /\ (GoTo("while body") \/ Return("done"))
  \/ At({"while body"}) /\ \/ x = "break" /\ Return("done")
                           \/ isleave /\ Return(x)
                           \/ x \in {"done", "continue"} /\ GoTo("while cond")

dostat ==
  \/ At({"do body"}) /\ \/ x = "break" /\ Return("done")
                        \/ isleave /\ Return(x)
                        \/ x \in {"done", "continue"} /\ GoTo("do cond")
  \/ At({"do cond"}) /\ (GoTo("do body") \/ Return("done"))

forstat ==
  \/ At({"for init", "for incr"}) /\ (GoTo("for cond") \/ GoTo("for body"))
  \/ At({"for cond"}) /\ (GoTo("for body") \/ Return("done"))
  \/ At({"for body"}) /\ \/ x = "break" /\ Return("done")
                         \/ isleave /\ Return(x)
                         \/ x \in {"done", "continue"} /\ GoTo("for incr")

instat ==
  At({"in body"}) /\ \/ x = "break" /\ Return("done")
                     \/ isleave /\ Return(x)
                     \/ x \in {"done", "continue"} /\ (GoTo("in body") \/ Return("done"))

\* The state of the range decides where Enter begins.
dopa2 ==
  \/ At({"range begin"}) /\ (GoTo("range end") \/ Return("done"))
  \/ At({"range end"}) /\ GoTo("action")
  \/ At({"action"}) /\ Return(x)

\* relop, arith, assign, cat, print...: the operands in turn.
operator == At({"operand"}) /\ (GoTo("operand") \/ Return("done"))

\* The rest of jump: an exit or return that had to evaluate an expression.
jumpWith == \/ At({"exit code"}) /\ Return("exit")
            \/ At({"return value"}) /\ Return("return")

\* call: the next argument; the body, when they are all there; its result.
Argument  == At({"arguments"}) /\ x # "go" /\ GoTo("arguments")
Body      == At({"arguments"}) /\ x = "go" /\ GoTo("function")
Result    == At({"function"}) /\ x # "go"
               /\ Return(IF x \in {"exit", "next"} THEN x ELSE "done")

\* program: BEGIN, the body for each record, END.
ToEnd == IF "END" \in text.sections THEN GoTo("END") ELSE Over
program ==
  \/ At({"BEGIN"}) /\ \/ x = "exit" /\ ToEnd
                      \/ x \in Jumps \ {"exit"} /\ FATAL
                      \/ x = "done" /\ ToEnd
                      \/ x = "done" /\ "body" \in text.sections /\ GoTo("body")
  \/ At({"body"}) /\ (ToEnd \/ (x # "exit" /\ GoTo("body")))
  \/ At({"END"}) /\ \/ x \in {"break", "next", "continue"} /\ FATAL
                    \/ x \notin {"break", "next", "continue"} /\ Over
-----------------------------------------------------------------------------
Down == \/ \E p \in text.constructs : Enter(p)
        \/ CallIn
        \/ \E j \in Jumps : jump(j)
        \/ Value \/ NextStatement \/ Error \/ Body

Up == Returned /\ \/ ifstat \/ whilestat \/ dostat \/ forstat \/ instat \/ dopa2
                  \/ operator \/ jumpWith \/ Argument \/ Result \/ program

Next == (Down \/ Up) /\ UNCHANGED text

Spec == Init /\ [][Next]_control
=============================================================================
