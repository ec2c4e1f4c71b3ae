------------------------------ MODULE Programs ------------------------------
(***************************************************************************)
(* The programs of the interpreters of one process: their sources, the     *)
(* compilation, which shares the globals of the lexer and the table of     *)
(* range patterns, and what a run does with the two things a program gets  *)
(* from it: its ranges, and the cache of dynamic expressions, which each   *)
(* interpreter has for itself.                                             *)
(*                                                                         *)
(* All calls hold the lock of the library (module AwkApi has the threads,  *)
(* the global interp and the errors): a compilation or a run that is under *)
(* way excludes every other call.  A compilation is one step per token, a  *)
(* run one per range pattern or dynamic expression.  fault ends the model: *)
(* the name of a source file is read past the array of names.              *)
(***************************************************************************)
EXTENDS Parser, Regexes

CONSTANTS Interp, None,
          PA2NUM,          \* ranges the table has room for
          NFA,             \* expressions the cache has room for
          Invalid,         \* expressions that std::regex refuses
          Host,            \* what hosts do: the calls they make
          MaxFiles,        \* bound: program files of an interpreter
          MaxDrift,        \* bound: how far the counters of the lexer drift
          MaxLate,         \* bound: ranges counted after the table was full
          MaxHits          \* bound: hits on an entry of the cache

ASSUME ProgramsAssumption ==
  /\ None \notin Interp
  /\ PA2NUM \in Nat \ {0} /\ NFA \in Nat \ {0}
  /\ MaxFiles \in Nat /\ MaxDrift \in Nat /\ MaxLate \in Nat /\ MaxHits \in Nat
  /\ \A h \in Host : /\ h.interps \subseteq Interp
                    /\ h.texts \cup h.files \cup h.asks \subseteq Seq(STRING)

VARIABLES host,       \* the host of this process
          status,     \* Interpreter::status, "none" without one
          source,     \* lexprog or progs, and how far it has been read
          lexer,      \* the globals of the lexer
          paircnt, pairstack,
          slots,      \* the places in pairstack of the ranges of a program
          parsing,    \* the compilation under way
          compiled,   \* the last compilation, when it has ended
          ratab,      \* Interpreter::ratab
          running,    \* the interpreter that runs
          pair,       \* the range pattern its next record comes to
          asked,      \* the last expression asked for, and the one it got
          fault

compiler == <<lexer, paircnt, slots, parsing, compiled>>
matcher  == <<ratab, asked>>
vars == <<host, status, source, compiler, pairstack, matcher, running, pair, fault>>

NoSource == [kind |-> "none", text |-> <<>>, nprog |-> 0, at |-> 1, ended |-> FALSE]

NotParsing == [of |-> None, stack |-> <<>>, toks |-> <<>>, body |-> <<>>, from |-> CleanLexer]

Init == /\ host \in Host
        /\ status = [i \in Interp |-> "none"]
        /\ source = [i \in Interp |-> NoSource]
        /\ lexer = CleanLexer
        /\ paircnt = 0 /\ pairstack = [n \in 0..(PA2NUM - 1) |-> 0]
        /\ slots = [i \in Interp |-> <<>>]
        /\ parsing = NotParsing /\ compiled = None
        /\ ratab = [i \in Interp |-> <<>>] /\ asked = None
        /\ running = None /\ pair = 1
        /\ fault = "none"
-----------------------------------------------------------------------------
(* The interpreters and their sources.                                     *)
Unlocked == parsing.of = None /\ running = None /\ fault = "none"

awk_init(i) ==
  /\ Unlocked /\ i \in host.interps /\ status[i] = "none"
  /\ status' = [status EXCEPT ![i] = "INIT"]
  /\ UNCHANGED <<host, source, compiler, pairstack, matcher, running, pair, fault>>

\* Hosts set the text once; a second one would replace it before it is read.
awk_setprog(i) ==
  /\ Unlocked /\ status[i] = "INIT" /\ source[i].kind = "none"
  /\ \E t \in host.texts :
       source' = [source EXCEPT ![i] = [NoSource EXCEPT !.kind = "string", !.text = t]]
  /\ UNCHANGED <<host, status, compiler, pairstack, matcher, running, pair, fault>>

awk_addprogfile(i) ==
  /\ Unlocked /\ status[i] = "INIT" /\ source[i].kind # "string" /\ source[i].nprog < MaxFiles
  /\ \E t \in host.files :
       source' = [source EXCEPT ![i].kind = "files", ![i].text = @ \o t, ![i].nprog = @ + 1]
  /\ UNCHANGED <<host, status, compiler, pairstack, matcher, running, pair, fault>>

\* (Mutant) The ranges of the program are no longer counted.
awk_endUncounts(i) ==
  /\ Unlocked /\ status[i] # "none"
  /\ status' = [status EXCEPT ![i] = "none"]
  /\ source' = [source EXCEPT ![i] = NoSource]
  /\ paircnt' = paircnt - Len(slots[i])
  /\ slots' = [slots EXCEPT ![i] = <<>>]
  /\ ratab' = [ratab EXCEPT ![i] = <<>>]
  /\ compiled' = None /\ asked' = None
  /\ UNCHANGED <<host, lexer, pairstack, parsing, running, pair, fault>>

awk_end(i) ==
  /\ Unlocked /\ status[i] # "none"
  /\ status' = [status EXCEPT ![i] = "none"]
  /\ source' = [source EXCEPT ![i] = NoSource]
  /\ slots' = [slots EXCEPT ![i] = <<>>]
  /\ ratab' = [ratab EXCEPT ![i] = <<>>]
  /\ compiled' = None /\ asked' = None
  /\ UNCHANGED <<host, lexer, paircnt, pairstack, parsing, running, pair, fault>>
-----------------------------------------------------------------------------
(* awk_compile: yyinit leaves the lexer and the ranges as they are.        *)
Within == /\ \A c \in {lexer.bracecnt, lexer.parencnt} : c \in -MaxDrift..MaxDrift
          /\ paircnt <= PA2NUM + MaxLate

awk_compile(i) ==
  /\ Unlocked /\ status[i] = "INIT" /\ source[i].kind # "none" /\ Within
  /\ status' = [status EXCEPT ![i] = "COMPILING"]
  /\ parsing' = [NotParsing EXCEPT !.of = i, !.stack = <<"pas">>, !.from = lexer]
  /\ compiled' = None /\ asked' = None
  /\ UNCHANGED <<host, source, lexer, paircnt, slots, pairstack, ratab, running, pair, fault>>

Ends(i, how, toks) ==
  /\ status' = [status EXCEPT ![i] = IF how = "compiled" THEN "COMPILED" ELSE "DONE"]
  /\ compiled' = [how |-> how, toks |-> toks, from |-> parsing.from, of |-> source[i]]
  /\ parsing' = NotParsing

\* The catch of awk_compile.  The message of a syntax error has the name of
\* the file that is being read, progs[curprog], which is no longer there when
\* the last one has been read.
Throws(i, y, how) ==
  /\ Ends(i, how, parsing.toks)
  /\ slots' = [slots EXCEPT ![i] = <<>>]
  /\ fault' = IF how # "fatal" /\ y.s.kind = "files" /\ y.s.ended THEN "source" ELSE fault

Taken(y)  == y.how = "ok" /\ Takes(parsing.stack, y.tok)
Ranged(y) == y.how = "ok" /\ EndsRange(parsing.stack, y.tok)

\* yylex throws.
LexerThrows(i, y) == /\ y.how # "ok"
                     /\ Throws(i, y, y.how)
                     /\ UNCHANGED paircnt

\* yyerror throws.  Whether the range that ends before a token that cannot
\* follow it is still counted depends on the parser generator.
Refuses(i, y) == /\ y.how = "ok" /\ ~Taken(y)
                 /\ Throws(i, y, "syntax")
                 /\ paircnt' \in IF Ranged(y) THEN {paircnt, paircnt + 1} ELSE {paircnt}

\* pa2stat throws: it counts the range and then finds the table full.
Limited(y) == Taken(y) /\ Ranged(y) /\ paircnt >= PA2NUM

TableFull(i, y) == /\ Limited(y)
                   /\ Throws(i, y, "limit")
                   /\ paircnt' = paircnt + 1

\* A regular expression is complete and makedfa compiles it: a constant.
BadConstant(y) == /\ Taken(y) /\ Head(parsing.stack) = "close"
                  /\ requote(parsing.body) \in Invalid

MakedfaThrows(i, y) == /\ BadConstant(y)
                       /\ Throws(i, y, "fatal")
                       /\ UNCHANGED paircnt

\* A range gets the next place of the table.
pa2stat(i) == /\ paircnt < PA2NUM
              /\ paircnt' = paircnt + 1
              /\ slots' = [slots EXCEPT ![i] = Append(@, paircnt)]

\* The parser goes on, or has all of the program.
Shifts(i, y) ==
  LET stack == Reduced(Expected(parsing.stack, y.tok))
      toks  == Append(parsing.toks, y.tok)
  IN  /\ Taken(y) /\ ~BadConstant(y)
      /\ IF Ranged(y) THEN pa2stat(i) ELSE UNCHANGED <<paircnt, slots>>
      /\ IF stack = <<>>
           THEN Ends(i, "compiled", toks)
           ELSE /\ parsing' = [parsing EXCEPT !.stack = stack, !.toks = toks, !.body = y.body]
                /\ UNCHANGED <<status, compiled>>
      /\ UNCHANGED fault

\* yyparse: one token.  startreg comes after the slash, and a range that ends
\* before the slash may have thrown by then.
yyparse(i) ==
  LET y == yylex(lexer, source[i])
  IN  /\ parsing.of = i /\ fault = "none"
      /\ source' = [source EXCEPT ![i] = y.s]
      /\ lexer' = [y.l EXCEPT !.reg = /\ Taken(y) /\ ~Limited(y)
                                   /\ StartsRegexpr(parsing.stack, y.tok)]
      /\ \/ LexerThrows(i, y)
         \/ Refuses(i, y)
         \/ TableFull(i, y)
         \/ MakedfaThrows(i, y)
         \/ Shifts(i, y)
      /\ UNCHANGED <<host, pairstack, matcher, running, pair>>
-----------------------------------------------------------------------------
(* A run.  It ends at any time: with its input, an exit, an error.         *)
awk_exec(i) ==
  /\ Unlocked /\ status[i] = "COMPILED"
  /\ status' = [status EXCEPT ![i] = "RUN"]
  /\ running' = i /\ pair' = 1
  /\ compiled' = None
  /\ UNCHANGED <<host, source, lexer, paircnt, slots, parsing, pairstack, matcher, fault>>

Stops(i, s) == /\ status' = [status EXCEPT ![i] = s]
               /\ running' = None /\ pair' = 1

Returns(i) ==
  /\ running = i /\ fault = "none"
  /\ \E s \in {"COMPILED", "DONE"} : Stops(i, s)
  /\ asked' = None
  /\ UNCHANGED <<host, source, compiler, pairstack, ratab, fault>>

\* A record comes to a range: the first pattern is tried when it is closed,
\* the last one when it is open by then, and the action may end the record.
dopa2(i) ==
  /\ running = i /\ fault = "none" /\ slots[i] # <<>>
  /\ \E first, last, next \in BOOLEAN :
       LET n    == slots[i][pair]
           open == pairstack[n] = 1 \/ first
       IN  /\ pairstack' = [pairstack EXCEPT ![n] = IF open /\ ~last THEN 1 ELSE 0]
           /\ pair' = IF pair = Len(slots[i]) \/ (open /\ next) THEN 1 ELSE pair + 1
  /\ UNCHANGED <<host, status, source, compiler, matcher, running, fault>>
-----------------------------------------------------------------------------
(* Interpreter::makedfa in a run: the operators ~ and !~ and match().      *)
\* The first of the entries with the fewest hits.
LeastUsed(cache) ==
  CHOOSE n \in DOMAIN cache :
    \A m \in DOMAIN cache : /\ cache[n].fval <= cache[m].fval
                            /\ m < n => cache[n].fval < cache[m].fval

Found(cache, ss) ==
  CHOOSE n \in DOMAIN cache :
    cache[n].nval = ss /\ \A m \in 1..(n - 1) : cache[m].nval # ss

Cached(cache, ss) == \E n \in DOMAIN cache : cache[n].nval = ss

\* (Mutant) The expression is compiled from the text as it is.
EntryAsIs(s) == [nval |-> s, re |-> s, fval |-> 0]

\* A new entry has the text as it was asked for, and counts no hits.
Entry(s) == [nval |-> s, re |-> requote(s), fval |-> 0]

Hit(i, s) ==
  LET n == Found(ratab[i], requote(s))
  IN  /\ Cached(ratab[i], requote(s)) /\ ratab[i][n].fval < MaxHits
      /\ ratab' = [ratab EXCEPT ![i][n].fval = @ + 1]
      /\ asked' = [text |-> s, re |-> ratab[i][n].re]
      /\ UNCHANGED <<status, running, pair>>

Miss(i, s) ==
  /\ ~Cached(ratab[i], requote(s)) /\ requote(s) \notin Invalid
  /\ ratab' = [ratab EXCEPT ![i] = IF Len(@) < NFA THEN Append(@, Entry(s))
                                   ELSE [@ EXCEPT ![LeastUsed(@)] = Entry(s)]]
  /\ asked' = [text |-> s, re |-> Entry(s).re]
  /\ UNCHANGED <<status, running, pair>>

Unusable(i, s) ==
  /\ ~Cached(ratab[i], requote(s)) /\ requote(s) \in Invalid
  /\ asked' = None
  /\ Stops(i, "DONE")
  /\ UNCHANGED ratab

makedfa(i) ==
  /\ running = i /\ fault = "none"
  /\ \E s \in host.asks : Hit(i, s) \/ Miss(i, s) \/ Unusable(i, s)
  /\ UNCHANGED <<host, source, compiler, pairstack, fault>>
-----------------------------------------------------------------------------
Next == \E i \in Interp :
  \/ awk_init(i) \/ awk_setprog(i) \/ awk_addprogfile(i) \/ awk_end(i)
  \/ awk_compile(i) \/ yyparse(i)
  \/ awk_exec(i) \/ dopa2(i) \/ makedfa(i) \/ Returns(i)

Spec == Init /\ [][Next]_vars
=============================================================================
