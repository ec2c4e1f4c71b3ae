--------------------------- MODULE ProgramsProps ---------------------------
(***************************************************************************)
(* What a host may expect of compilations and runs in one process.         *)
(***************************************************************************)
EXTENDS Programs, FiniteSets

-----------------------------------------------------------------------------
(* What a program compiles to in a process that has compiled nothing yet:  *)
(* the tokens the parser takes and how it ends.                            *)
Unread(s) == [s EXCEPT !.at = 1, !.ended = FALSE]

Begun(s) == [l |-> CleanLexer, s |-> Unread(s), stack |-> <<"pas">>, toks |-> <<>>,
             body |-> <<>>, how |-> "parsing"]

\* One token of that compilation, y.
Parsed(o, y) ==
  LET taken == y.how = "ok" /\ Takes(o.stack, y.tok)
      bad   == taken /\ Head(o.stack) = "close" /\ requote(o.body) \in Invalid
      stack == Reduced(Expected(o.stack, y.tok))
      after == IF ~taken \/ bad THEN o.stack ELSE stack
  IN  [l     |-> [y.l EXCEPT !.reg = taken /\ StartsRegexpr(o.stack, y.tok)],
       s     |-> y.s,
       stack |-> after,
       toks  |-> IF taken /\ ~bad THEN Append(o.toks, y.tok) ELSE o.toks,
       body  |-> y.body,
       how   |-> IF y.how # "ok" THEN y.how
                 ELSE IF bad THEN "fatal"
                 ELSE IF ~taken THEN "syntax"
                 ELSE IF stack = <<>> THEN "compiled" ELSE "parsing"]

Further(o) == Parsed(o, yylex(o.l, o.s))

\* After so many steps, which stop with the compilation; and as many as the
\* text may have tokens.
Advanced(o) == IF o.how = "parsing" THEN Further(o) ELSE o

Onward(o) == LET after[n \in Nat] == IF n = 0 THEN o ELSE Advanced(after[n - 1])
            IN  after

Alone(s) == Onward(Begun(s))[2 * Len(s.text) + 2]

Same(c, o) == c.how = o.how /\ (c.how = "compiled" => c.toks = o.toks)

Number(toks, tok) == Cardinality({n \in DOMAIN toks : toks[n] = tok})

Balanced(toks, opening, closing) == Number(toks, opening) = Number(toks, closing)
-----------------------------------------------------------------------------
\* What an earlier compilation left in the lexer cannot be seen: counters
\* above zero among it.
Harmless(l) == l.yysbuf = <<>> /\ ~l.sc /\ l.bracecnt >= 0 /\ l.parencnt >= 0

\* A compilation depends on its program and on nothing before it, but for
\* this: a } owed by an earlier program makes any program an error; counters
\* below zero refuse programs; a character put back is read as the first one
\* of the program, and when it is the 0 of an end the program is empty; and
\* the table of ranges fills up.  A program that compiles leaves the lexer as
\* it found it, without what was put back.  The name of a file is read past
\* the array only for a syntax error of a program in files.
CompileByText ==
  compiled # None =>
    LET c == compiled
        o == Alone(c.of)
    IN  /\ Harmless(c.from) /\ c.how # "limit" => Same(c, o)
        /\ c.from.sc => c.how = "syntax"
        /\ fault # "none" => c.of.kind = "files" /\ c.how \in {"syntax", "limit"}
        /\ c.how = "compiled" =>
             /\ c.from.yysbuf = <<>> => Same(c, o)
             /\ c.from.yysbuf = <<EOT>> => c.toks = <<EOT>>
             /\ Balanced(c.toks, "{", "}") /\ Balanced(c.toks, "(", ")")
             /\ lexer = [c.from EXCEPT !.yysbuf = <<>>]

\* An expression matches what its text says, whatever is in the cache: the
\* one handed out is compiled from the text that was asked for, and so is
\* each entry; an interpreter keeps no more than NFA of them.
CacheTransparent ==
  /\ asked # None => asked.re = requote(asked.text)
  /\ \A i \in Interp :
       /\ Len(ratab[i]) <= NFA
       /\ \A n \in DOMAIN ratab[i] : ratab[i][n].re = requote(ratab[i][n].nval)

\* The ranges of a program are its own: a place of the table belongs to one
\* of them, it starts closed, and only records of its program move it, in
\* any order of compilations, runs and deletions (module RangePatterns).
OpenRanges ==
  [i \in Interp |-> IF status[i] \in {"COMPILED", "RUN"}
                      THEN [k \in DOMAIN slots[i] |-> pairstack[slots[i][k]] = 1]
                      ELSE <<>>]

Ideal == INSTANCE RangePatterns WITH open <- OpenRanges, MaxRanges <- PA2NUM

ImplementsRangePatterns == Ideal!Spec
=============================================================================
