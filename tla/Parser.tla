------------------------------- MODULE Parser -------------------------------
(***************************************************************************)
(* The parser, for programs made of patterns, ranges, BEGIN and actions,   *)
(* with statements that are expressions or groups of statements, and       *)
(* expressions made of names, calls, division, concatenation and regular   *)
(* expressions.  Its stack holds what is expected next, the first element  *)
(* on top: tokens, and parts of the grammar that the next token selects a  *)
(* rule for.  It refuses a token as soon as no program continues with it,  *)
(* before it asks for another one.                                         *)
(***************************************************************************)
EXTENDS Lexer

\* Rules: the token that selects one, and what is expected after it.
On(tok, rest) == [t \in {tok} |-> rest]

r | q == [t \in DOMAIN r \cup DOMAIN q |-> IF t \in DOMAIN r THEN r[t] ELSE q[t]]

Term == On("VAR", <<>>) | On("CALL", <<"(", "args">>) | On("(", <<"pattern", ")">>)

Then(rules, rest) == [t \in DOMAIN rules |-> rules[t] \o rest]

Pattern == On("(", <<"pattern", "group">>) | On("/", <<"REGEXPR", "close", "more_re">>)
           | Then(Term, <<"more">>)

Stmt == On(";", <<"opt_nl">>) | On("{", <<"opt_nl", "stmt", "inner">>)
        | Then(Pattern, <<"st">>)

Action == <<"opt_nl", "stmt", "stmtlist">>

Comma(rest) == On(",", <<"opt_nl", "pattern", rest>>)

Rules ==
  [pas      |-> On(EOT, <<>>)
                | Then(On(NL, <<>>) | On(";", <<>>) | On("{", Action)
                       | On("BEGIN", <<"{">> \o Action) | Then(Pattern, <<"pa_stat">>),
                       <<"pas">>),
   pa_stat  |-> On("{", Action) | Comma("range"),
   range    |-> On("{", Action \o <<"pa2stat">>),
   stmt     |-> Stmt,
   stmtlist |-> On("}", <<>>) | Then(Stmt, <<"stmtlist">>),
   inner    |-> On("}", <<"opt_nl">>) | Then(Stmt, <<"inner">>),
   st       |-> On(NL, <<"opt_nl">>) | On(";", <<"opt_nl">>),
   opt_nl   |-> On(NL, <<"opt_nl">>),
   pattern  |-> Pattern,
   more     |-> On("/", <<"term", "more">>) | Then(Term, <<"more">>),
   more_re  |-> Then(Term, <<"more">>),
   term     |-> Term,
   group    |-> On(")", <<"more">>) | Comma("plist"),
   plist    |-> On(")", <<"IN">>) | Comma("plist"),
   args     |-> On(")", <<>>) | Then(Pattern, <<"patlist">>),
   patlist  |-> On(")", <<>>) | Comma("patlist"),
   close    |-> On("/", <<>>)]

\* What may be left out, a range without an action among them.
Optional == {"opt_nl", "more", "more_re", "pa_stat", "range"}

Selects(sym, tok) == IF sym \in DOMAIN Rules THEN tok \in DOMAIN Rules[sym] ELSE tok = sym

\* The place in the stack that the token meets.
Met(stack, tok) ==
  CHOOSE j \in DOMAIN stack :
    /\ Selects(stack[j], tok) \/ stack[j] \notin Optional
    /\ \A k \in 1..(j - 1) : stack[k] \in Optional /\ ~Selects(stack[k], tok)

Takes(stack, tok) == Selects(stack[Met(stack, tok)], tok)

Expected(stack, tok) ==
  LET j == Met(stack, tok)
  IN  (IF stack[j] = tok THEN <<>> ELSE Rules[stack[j]][tok])
        \o SubSeq(stack, j + 1, Len(stack))

\* A range pattern is complete: with the } of its action, or with the first
\* token after it.
EndsRange(stack, tok) ==
  \/ \E k \in 1..(Met(stack, tok) - 1) : stack[k] = "range"
  \/ Takes(stack, tok) /\ Expected(stack, tok) # <<>> /\ Head(Expected(stack, tok)) = "pa2stat"

StartsRegexpr(stack, tok) == /\ Expected(stack, tok) # <<>>
                             /\ Head(Expected(stack, tok)) = "REGEXPR"

Reduced(stack) == IF stack # <<>> /\ Head(stack) = "pa2stat" THEN Tail(stack) ELSE stack
=============================================================================
