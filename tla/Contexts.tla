------------------------------ MODULE Contexts ------------------------------
(***************************************************************************)
(* The places of an AWK program at which the interpreter can be: which     *)
(* statement lists, conditions and expressions are nested in each other.   *)
(* A place is a sequence of phases, from the section of the program inward,*)
(* one for each C++ function of run.cpp that is active; a phase names that *)
(* function's statement and the part of it being executed.                 *)
(***************************************************************************)
EXTENDS Naturals, Sequences

Sections   == {"BEGIN", "body", "END"}
LoopBodies == {"while body", "do body", "for body", "in body"}

\* Phases that execute a statement list.
Lists == Sections \cup LoopBodies \cup {"branch", "action", "function"}

\* Phases that execute an expression and use its value.
Conditions == {"while cond", "do cond", "for cond", "if cond", "range begin", "range end"}
Operands   == Conditions \cup {"for init", "for incr", "operand", "arguments",
                               "exit code", "return value"}
Phases == Lists \cup Operands

\* What a statement begins with, by the grammar: the first phase of each
\* construct a list may hold.  A range pattern stands in the body only.
Starts == {"if cond", "while cond", "do body", "for init", "in body", "operand",
           "arguments", "exit code", "return value", "range begin", "range end"}

\* The first section of a program; there may be no record for the body.
Starting(text) == IF "BEGIN" \in text.sections THEN {"BEGIN"} ELSE text.sections

Top(s)   == s[Len(s)]
Below(s) == SubSeq(s, 1, Len(s) - 1)
Turn(s, p) == Append(Below(s), p)      \* the same construct, in another phase

\* The innermost phase of a kind.
Holds(s, kind) == \E i \in DOMAIN s : s[i] \in kind
Innermost(s, kind) ==
  CHOOSE i \in DOMAIN s : s[i] \in kind /\ \A k \in DOMAIN s : k > i => s[k] \notin kind

\* What the parser knows of a place (inloop, infunc): a loop encloses it in
\* the text of the same function; it is in the text of a function.
InLoop(s) == /\ Holds(s, LoopBodies)
             /\ \A k \in DOMAIN s : k > Innermost(s, LoopBodies) => s[k] # "function"
InFunction(s) == Holds(s, {"function"})

\* break and continue outside of loops, next in a function are syntax errors,
\* return outside of functions is one of the lexer.
Legal(s, j) == CASE j \in {"break", "continue"} -> InLoop(s)
                 [] j = "next"   -> ~InFunction(s)
                 [] j = "return" -> InFunction(s)
                 [] OTHER        -> TRUE
LegalStart(s, p) == /\ p = "return value" => InFunction(s)
                    /\ p \in {"range begin", "range end"} => Top(s) = "body"
-----------------------------------------------------------------------------
\* Where a jump from place s goes.
Upto(s, kind)  == SubSeq(s, 1, Innermost(s, kind))
Outside(s, kind) == Below(Upto(s, kind))

LandPlace(s, j) ==
  CASE j = "break"    -> Outside(s, LoopBodies)
    [] j = "continue" -> Upto(s, LoopBodies)
    [] j = "return"   -> Outside(s, {"function"})
    [] j = "next"     -> IF s[1] = "body" THEN <<"body">> ELSE <<>>
    [] j = "exit"     -> IF Holds(s, Operands) THEN Upto(s, Operands) ELSE <<s[1]>>
LandDoing(s, j) ==
  CASE j \in {"break", "continue", "return"} -> "done"
    [] j = "next" -> IF s[1] = "body" THEN "done" ELSE "error"
    [] j = "exit" -> IF Holds(s, Operands) THEN "done" ELSE "exit"
=============================================================================
