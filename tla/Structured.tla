----------------------------- MODULE Structured -----------------------------
(***************************************************************************)
(* What jumps mean: each goes in one step to the statement it is for.      *)
(* break ends the innermost loop, continue its turn, return the call, next *)
(* the record, exit the section of the program; but an exit in a function  *)
(* that is called for its value ends only the expression that wants it.    *)
(***************************************************************************)
EXTENDS Contexts

CONSTANT Programs

VARIABLES text,    \* the one that runs
          place,   \* phases nested in each other
          doing    \* "go": about to execute; "done": the phase is complete;
                   \* "exit": the section is to end; "over"; "error"

where == <<text, place, doing>>

Init == /\ text \in Programs /\ doing = "go"
        /\ place \in {<<s>> : s \in Starting(text)}

\* The phases that may follow one another in a construct, and those after
\* which it may be complete.
Follows ==
  {<<"if cond", "branch">>, <<"while cond", "while body">>, <<"while body", "while cond">>,
   <<"do body", "do cond">>, <<"do cond", "do body">>, <<"for init", "for cond">>,
   <<"for init", "for body">>, <<"for cond", "for body">>, <<"for body", "for incr">>,
   <<"for incr", "for cond">>, <<"for incr", "for body">>, <<"in body", "in body">>,
   <<"range begin", "range end">>, <<"range end", "action">>, <<"operand", "operand">>,
   <<"arguments", "arguments">>, <<"BEGIN", "body">>, <<"BEGIN", "END">>,
   <<"body", "body">>, <<"body", "END">>}
Completes == {"if cond", "branch", "while cond", "do cond", "for cond", "in body",
              "range begin", "action", "operand", "function"}

Busy == place # <<>>
Set(p, d) == place' = p /\ doing' = d
Has(p) == p \in Sections => p \in text.sections
Finish == (place = <<"END">> \/ "END" \notin text.sections) /\ Set(<<>>, "over")

Enter == \E p \in text.constructs :
           /\ doing = "go" /\ Busy /\ Top(place) \in Lists /\ Len(place) < text.depth
           /\ LegalStart(place, p)
           /\ Set(Append(place, p), "go")

Call == \/ /\ doing = "go" /\ Busy /\ Top(place) \in Operands /\ Len(place) < text.depth
           /\ Set(Append(place, "arguments"), "go")
        \/ /\ doing = "go" /\ Busy /\ Top(place) = "arguments"
           /\ Set(Turn(place, "function"), "go")

Execute == \/ doing = "go" /\ Busy /\ Top(place) # "arguments" /\ Set(place, "done")
           \/ doing = "done" /\ Busy /\ Top(place) \in Lists /\ Set(place, "go")

Advance == /\ doing = "done" /\ Busy
           /\ \/ \E f \in Follows : /\ f[1] = Top(place) /\ Has(f[2])
                                   /\ Set(Turn(place, f[2]), "go")
              \/ Top(place) \in Completes /\ Set(Below(place), "done")
              \/ Top(place) \in Sections /\ Finish
-----------------------------------------------------------------------------
Land(s, j) == Set(LandPlace(s, j), LandDoing(s, j))

Jump == \/ /\ doing = "go" /\ Busy /\ Top(place) \in Lists
           /\ \E j \in {"exit", "next", "break", "continue", "return"} :
                Legal(place, j) /\ Land(place, j)
        \/ /\ doing = "done" /\ Busy
           /\ \/ Top(place) = "exit code" /\ Land(Below(place), "exit")
              \/ Top(place) = "return value" /\ Land(Below(place), "return")

Exit == /\ doing = "exit"
        /\ IF place # <<"END">> /\ "END" \in text.sections
           THEN Set(<<"END">>, "go") ELSE Set(<<>>, "over")

Fail == doing = "go" /\ Busy /\ Set(<<>>, "error")

Next == /\ Enter \/ Call \/ Execute \/ Advance \/ Jump \/ Exit \/ Fail
        /\ UNCHANGED text

Spec == Init /\ [][Next]_where
=============================================================================
