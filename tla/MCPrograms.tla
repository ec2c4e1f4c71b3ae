----------------------------- MODULE MCPrograms -----------------------------
EXTENDS ProgramsProps

Alphabet == {"x", "BEGIN", " ", NL, "{", "}", "(", ")", ","}

Short == UNION {[1..n -> Alphabet] : n \in 0..2}

Long == {
  <<"BEGIN", "{", "x", "}">>, <<"x", "(", "x", ")", "{", "}">>,
  <<"(", "x", ")", "}">>, <<"(", "x", "{">>, <<"{", "(", "}">>, <<"{", "x", "}">>,
  <<"x", ",", "x", "{", "{", "}", "}">>, <<"BEGIN", NL, "x">>, <<"BEGIN", " ", "x">>,
  <<"/", "x", "/">>, <<"/", "y", "/", "{", "}">>, <<"/", "x", NL>>, <<"x", "/", "x">>,
  <<"(", "(", "x", ")", ")">>, <<"(", "x", ",", NL, "x", ")">> }

MCHost == {
  \* One program after the other: any short one, and some longer ones.
  [interps |-> {1}, texts |-> Short \cup Long, files |-> {}, asks |-> {}],
  \* Programs in files.
  [interps |-> {1}, texts |-> {}, asks |-> {},
   files |-> {<<>>, <<"x">>, <<"{">>, <<"}", NL>>, <<"x", NL>>, <<NoFile>>}],
  \* The ranges of two programs, which are replaced by others.
  [interps |-> {1, 2}, files |-> {}, asks |-> {},
   texts |-> {<<"x", ",", "x">>, <<"x", ",", "x", ",">>,
              <<"x", ",", "x", ";", "x", ",", "x", "{", "}">>}],
  \* A program with dynamic expressions.
  [interps |-> {1}, texts |-> {<<"x">>}, files |-> {},
   asks |-> {<<"a">>, <<"b">>, <<"[">>, <<"\\", "x", "4", "1">>, <<"\\", "1", "0", "1">>}] }

MCInvalid == {<<"[">>, <<"y">>}
=============================================================================
