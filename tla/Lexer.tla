------------------------------- MODULE Lexer -------------------------------
(***************************************************************************)
(* The lexical analyzer, for the part of the language that the parser      *)
(* knows (names, BEGIN, braces, parentheses, commas, expressions between   *)
(* slashes, blanks, ends of line).  Its state is in global variables of    *)
(* the process, and nothing resets them between two programs:              *)
(*   sc        the next token is the } whose ; has been returned           *)
(*   reg       the next token is a regular expression                      *)
(*   bracecnt, parencnt   the { and ( seen, less the } and ) seen          *)
(*   yysbuf    the characters put back, the last one on top                *)
(* l is that state.  s is the program of an interpreter: a string, or      *)
(* files read one after the other, in which NoFile stands for one that     *)
(* cannot be opened; ended says that the end of the last file was read     *)
(* (curprog = nprog).                                                      *)
(***************************************************************************)
EXTENDS Integers, Sequences, SequencesExt

NL     == "\n"
EOT    == "0"        \* what input returns at the end of the program
NoFile == "nofile"
Letter == {"x", "y", "BEGIN"}   \* BEGIN among other letters is part of a name

CleanLexer == [sc |-> FALSE, reg |-> FALSE, bracecnt |-> 0, parencnt |-> 0,
               yysbuf |-> <<>>]
-----------------------------------------------------------------------------
\* What input returns, call after call: first what was put back.
Ahead(l, s) == Reverse(l.yysbuf) \o SubSeq(s.text, s.at, Len(s.text))

input(l, s, k) == IF k <= Len(Ahead(l, s)) THEN Ahead(l, s)[k] ELSE EOT

\* The first call from k on that returns a character outside S.
Past(l, s, k, S) ==
  CHOOSE n \in k..(Len(Ahead(l, s)) + k) :
    input(l, s, n) \notin S /\ \A m \in k..(n - 1) : input(l, s, m) \in S

\* yylex after n calls of input: its token, and what went wrong.
Lexed(l, s, n, tok, how) ==
  LET old    == Len(l.yysbuf)
      beyond == n > Len(Ahead(l, s))
  IN  [tok |-> tok, body |-> <<>>, how |-> how,
       l |-> [l EXCEPT !.yysbuf = SubSeq(@, 1, old - n)],
       s |-> [s EXCEPT !.at = IF beyond THEN Len(s.text) + 1
                              ELSE IF n > old THEN @ + n - old ELSE @,
                       !.ended = @ \/ (beyond /\ s.kind = "files")]]

unput(y, c) == [y EXCEPT !.l.yysbuf = Append(@, c)]

Counts(y, name, d) == [y EXCEPT !.l[name] = @ + d]
-----------------------------------------------------------------------------
\* gettok reads a run of letters and the character after it, which it puts
\* back; word looks at that character, and puts back the 0 of the end, too.
Name(l, s, k) ==
  LET n   == Past(l, s, k, Letter)
      d   == input(l, s, n)
      y(t) == Lexed(l, s, n, t, "ok")
  IN  IF d = NoFile THEN Lexed(l, s, n, d, "fatal")
      ELSE IF n = k + 1 /\ input(l, s, k) = "BEGIN"
             THEN IF d = EOT THEN y("BEGIN") ELSE unput(y("BEGIN"), d)
             ELSE unput(y(IF d = "(" THEN "CALL" ELSE "VAR"), d)

\* The text up to the closing slash, which is put back.
Regexpr(l, s) ==
  LET n == Past(l, s, 1, STRING \ {"/", NL, EOT, NoFile})
      d == input(l, s, n)
  IN  CASE d = "/"    -> [unput(Lexed(l, s, n, "REGEXPR", "ok"), d)
                            EXCEPT !.body = SubSeq(Ahead(l, s), 1, n - 1)]
        [] d = NoFile -> Lexed(l, s, n, d, "fatal")
        [] OTHER      -> Lexed(l, s, n, d, "syntax")

\* (Mutant) A ) is looked at and not counted.
ClosingUncounted(l, s, k) ==
  IF input(l, s, k) = "}"
    THEN IF l.bracecnt <= 0
           THEN Counts(Lexed(l, s, k, "}", "syntax"), "bracecnt", -1)
           ELSE [Counts(Lexed(l, s, k, ";", "ok"), "bracecnt", -1) EXCEPT !.l.sc = TRUE]
    ELSE Lexed(l, s, k, ")", IF l.parencnt <= 0 THEN "syntax" ELSE "ok")

\* A } is a ; first.  One too many is an error, and so it is for ).
Closing(l, s, k) ==
  IF input(l, s, k) = "}"
    THEN IF l.bracecnt <= 0
           THEN Counts(Lexed(l, s, k, "}", "syntax"), "bracecnt", -1)
           ELSE [Counts(Lexed(l, s, k, ";", "ok"), "bracecnt", -1) EXCEPT !.l.sc = TRUE]
    ELSE Counts(Lexed(l, s, k, ")", IF l.parencnt <= 0 THEN "syntax" ELSE "ok"),
                "parencnt", -1)

yylex(l, s) ==
  LET k == Past(l, s, 1, {" "})
      c == input(l, s, k)
  IN  IF l.sc THEN Lexed([l EXCEPT !.sc = FALSE], s, 0, "}", "ok")
      ELSE IF l.reg THEN Regexpr([l EXCEPT !.reg = FALSE], s)
      ELSE CASE c \in Letter     -> Name(l, s, k)
             [] c \in {"}", ")"} -> Closing(l, s, k)
             [] c = "{"          -> Counts(Lexed(l, s, k, c, "ok"), "bracecnt", 1)
             [] c = "("          -> Counts(Lexed(l, s, k, c, "ok"), "parencnt", 1)
             [] c = NoFile       -> Lexed(l, s, k, c, "fatal")
             [] OTHER            -> Lexed(l, s, k, c, "ok")
=============================================================================
