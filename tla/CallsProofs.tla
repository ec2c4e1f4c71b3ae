---------------------------- MODULE CallsProofs -----------------------------
(***************************************************************************)
(* Jumps go where Structured says, in every program and to any depth: the  *)
(* theorems about ControlFlow.                                             *)
(*                                                                         *)
(* Then calls: interp->fn is the frame of the function whose text is       *)
(* executed, in every program and for any depth of calls.                  *)
(*                                                                         *)
(* Then memory: which cell a parameter has, what it was passed, and that a *)
(* step of Calls is a step of Environments.                                *)
(***************************************************************************)
EXTENDS CallsProps, SequenceTheorems, WellFoundedInduction, TLAPS

\* A place begins with a section of the program and has no other; what stands
\* in an operand is a call, and return stands in a function.
Callees == {"arguments", "function"}
ReturnPhases == {"return value"}
FunctionPhases == {"function"}
Rooted(s, sections) == \A i \in DOMAIN s : /\ i = 1 => s[i] \in sections
                                           /\ i > 1 => s[i] \notin Sections
Nested(s) == \A i \in DOMAIN s : i > 1 /\ s[i - 1] \in Operands
                                   => s[i] \in Callees
Returns(s) == \A i \in DOMAIN s : s[i] \in ReturnPhases
                                    => \E k \in 1..(i - 1) : s[k] \in FunctionPhases
WellFormed(s, sections) ==
  s \in Seq(Phases) /\ Rooted(s, sections) /\ Nested(s) /\ Returns(s)

\* A jump on its way up is legal where it is, and only exit comes out of an
\* expression.
JumpLegal == x \in Jumps => /\ stack # <<>>
                            /\ Legal(stack, x)
                            /\ Top(stack) \in Operands => x = "exit"

ControlInv == /\ text \in Programs
              /\ WellFormed(stack, text.sections) /\ x \in Events
              /\ JumpLegal
              /\ stack = <<>> <=> x \in {"over", "error"}
-----------------------------------------------------------------------------
LEMMA Kinds ==
  /\ Phases = Lists \cup Operands /\ Lists \cap Operands = {}
  /\ Sections \subseteq Lists /\ LoopBodies \subseteq Lists
  /\ Sections \cap LoopBodies = {}
  /\ "function" \in Lists \ (Sections \cup LoopBodies)
  /\ "arguments" \in Operands
  /\ Starts \subseteq Phases \ Sections
  /\ Conditions \subseteq Operands
BY DEF Phases, Lists, Operands, Sections, LoopBodies, Starts, Conditions

LEMMA Greatest ==
  ASSUME NEW n \in Nat, NEW S, S \subseteq 1..n, S # {}
  PROVE  \E m \in S : \A k \in S : k <= m
<1> DEFINE R == {ss \in Nat \X Nat : ss[1] < ss[2]}
<1> DEFINE T == {n - k : k \in S}
<1>1. IsWellFoundedOn(R, Nat)
  BY NatLessThanWellFounded DEF OpToRel
<1>2. T \subseteq Nat /\ T # {}
  <2>1. \A k \in S : n - k \in Nat
    OBVIOUS
  <2> QED
    BY <2>1
<1>3. PICK m \in T : \A y \in T : ~(<<y, m>> \in R)
  BY <1>1, <1>2, WFMin
<1>4. ASSUME NEW y \in T PROVE m <= y
  <2>1. <<y, m>> \in Nat \X Nat
    BY <1>2
  <2>2. ~(<<y, m>>[1] < <<y, m>>[2])
    BY <2>1, <1>3
  <2>3. <<y, m>>[1] = y /\ <<y, m>>[2] = m
    OBVIOUS
  <2> HIDE DEF R, T
  <2>4. ~(y < m)
    BY <2>2, <2>3
  <2> QED
    BY <2>4, <1>2
<1>5. PICK k \in S : m = n - k
  OBVIOUS
<1>6. \A j \in S : m <= n - j
  BY <1>4
<1> QED
  BY <1>5, <1>6

\* The place under a phase, beside it and inside it.
LEMMA BelowFacts ==
  ASSUME NEW s \in Seq(Phases), s # <<>>
  PROVE  /\ Below(s) \in Seq(Phases)
         /\ Len(Below(s)) = Len(s) - 1
         /\ DOMAIN s = 1..Len(s) /\ Len(s) \in Nat \ {0}
         /\ DOMAIN Below(s) = 1..(Len(s) - 1)
         /\ \A i \in 1..(Len(s) - 1) : Below(s)[i] = s[i]
<1>1. DOMAIN s = 1..Len(s) /\ Len(s) \in Nat \ {0}
  BY LenProperties, EmptySeq
<1> DEFINE n == Len(s) - 1
<1>2. /\ SubSeq(s, 1, n) \in Seq(Phases)
      /\ Len(SubSeq(s, 1, n)) = IF 1 <= n THEN n - 1 + 1 ELSE 0
      /\ \A i \in 1..(n - 1 + 1) : SubSeq(s, 1, n)[i] = s[1 + i - 1]
  <2>1. n \in Nat /\ n <= Len(s)
    BY <1>1
  <2> HIDE DEF n
  <2> QED
    BY <2>1, SubSeqProperties
<1>3. Len(SubSeq(s, 1, n)) = n
  BY <1>1, <1>2
<1>4. DOMAIN SubSeq(s, 1, n) = 1..n
  BY <1>2, <1>3, LenProperties
<1> QED
  BY <1>1, <1>2, <1>3, <1>4 DEF Below

LEMMA TurnFacts ==
  ASSUME NEW s \in Seq(Phases), s # <<>>, NEW p \in Phases
  PROVE  /\ Turn(s, p) \in Seq(Phases)
         /\ Len(Turn(s, p)) = Len(s)
         /\ DOMAIN Turn(s, p) = 1..Len(s)
         /\ \A i \in 1..(Len(s) - 1) : Turn(s, p)[i] = s[i]
         /\ Turn(s, p)[Len(s)] = p /\ Top(Turn(s, p)) = p
         /\ Turn(s, p) # <<>>
<1> DEFINE b == Below(s)
<1>1. /\ b \in Seq(Phases)
      /\ Len(b) = Len(s) - 1
      /\ Len(s) \in Nat \ {0}
      /\ \A i \in 1..(Len(s) - 1) : b[i] = s[i]
  BY BelowFacts
<1>2. Turn(s, p) = Append(b, p)
  BY DEF Turn
<1> HIDE DEF b
<1>3. /\ Append(b, p) \in Seq(Phases)
      /\ Append(b, p) # <<>>
      /\ Len(Append(b, p)) = Len(b) + 1
      /\ \A i \in 1..Len(b) : Append(b, p)[i] = b[i]
      /\ Append(b, p)[Len(b) + 1] = p
  BY <1>1, AppendProperties
<1>4. Len(Append(b, p)) = Len(s) /\ Append(b, p)[Len(s)] = p
  BY <1>1, <1>3
<1>5. DOMAIN Append(b, p) = 1..Len(s)
  BY <1>3, <1>4, LenProperties
<1>6. \A i \in 1..(Len(s) - 1) : Append(b, p)[i] = s[i]
  BY <1>1, <1>3
<1> QED
  BY <1>2, <1>3, <1>4, <1>5, <1>6 DEF Top

LEMMA AppendFacts ==
  ASSUME NEW s \in Seq(Phases), NEW p \in Phases
  PROVE  /\ Append(s, p) \in Seq(Phases)
         /\ Len(Append(s, p)) = Len(s) + 1
         /\ DOMAIN Append(s, p) = 1..(Len(s) + 1)
         /\ \A i \in 1..Len(s) : Append(s, p)[i] = s[i]
         /\ Append(s, p)[Len(s) + 1] = p
         /\ Append(s, p) # <<>>
BY AppendProperties, LenProperties
-----------------------------------------------------------------------------
\* There is an innermost phase of each kind that a place holds.
LEMMA InnermostIn ==
  ASSUME NEW s \in Seq(Phases), NEW kind, Holds(s, kind)
  PROVE  /\ Innermost(s, kind) \in DOMAIN s
         /\ s[Innermost(s, kind)] \in kind
         /\ \A k \in DOMAIN s : k > Innermost(s, kind) => s[k] \notin kind
<1> DEFINE S == {i \in DOMAIN s : s[i] \in kind}
<1>1. DOMAIN s = 1..Len(s) /\ Len(s) \in Nat
  BY LenProperties
<1>2. S \subseteq 1..Len(s) /\ S # {}
  BY <1>1 DEF Holds
<1>3. PICK m \in S : \A k \in S : k <= m
  BY <1>1, <1>2, Greatest
<1>4. \A k \in DOMAIN s : k > m => s[k] \notin kind
  BY <1>1, <1>3
<1> QED
  BY <1>3, <1>4 DEF Innermost

LEMMA InnermostIs ==
  ASSUME NEW s \in Seq(Phases), NEW kind, NEW i \in DOMAIN s, s[i] \in kind,
         \A k \in DOMAIN s : k > i => s[k] \notin kind
  PROVE  Holds(s, kind) /\ Innermost(s, kind) = i
<1>1. Holds(s, kind)
  BY DEF Holds
<1>2. DOMAIN s \subseteq Nat
  BY LenProperties
<1> QED
  BY <1>1, <1>2, InnermostIn

\* A jump lands at the phase on top when that is one it is for ...
LEMMA LandsHere ==
  ASSUME NEW s \in Seq(Phases), s # <<>>, NEW kind, Top(s) \in kind
  PROVE  /\ Holds(s, kind) /\ Innermost(s, kind) = Len(s)
         /\ Upto(s, kind) = s /\ Outside(s, kind) = Below(s)
<1>1. DOMAIN s = 1..Len(s) /\ Len(s) \in Nat \ {0}
  BY BelowFacts
<1>2. Holds(s, kind) /\ Innermost(s, kind) = Len(s)
  BY <1>1, InnermostIs DEF Top
<1> QED
  BY <1>1, <1>2, SubSeqFull DEF Upto, Outside

\* ... and where it would have landed below, when it is not.
LEMMA LandsBelow ==
  ASSUME NEW s \in Seq(Phases), s # <<>>, NEW kind, Top(s) \notin kind
  PROVE  /\ Holds(s, kind) <=> Holds(Below(s), kind)
         /\ Holds(s, kind) => /\ Innermost(Below(s), kind) = Innermost(s, kind)
                              /\ Upto(Below(s), kind) = Upto(s, kind)
                              /\ Outside(Below(s), kind) = Outside(s, kind)
<1>1. /\ DOMAIN s = 1..Len(s) /\ Len(s) \in Nat \ {0} /\ Below(s) \in Seq(Phases)
      /\ DOMAIN Below(s) = 1..(Len(s) - 1) /\ Len(Below(s)) = Len(s) - 1
      /\ \A i \in 1..(Len(s) - 1) : Below(s)[i] = s[i]
  BY BelowFacts
<1>2. Holds(s, kind) <=> Holds(Below(s), kind)
  BY <1>1 DEF Holds, Top
<1>3. ASSUME Holds(s, kind)
      PROVE  /\ Innermost(Below(s), kind) = Innermost(s, kind)
             /\ Upto(Below(s), kind) = Upto(s, kind)
  <2> DEFINE i == Innermost(s, kind)
  <2>1. i \in DOMAIN s /\ s[i] \in kind /\ \A k \in DOMAIN s : k > i => s[k] \notin kind
    BY <1>3, InnermostIn
  <2>2. i \in 1..(Len(s) - 1)
    BY <1>1, <2>1 DEF Top
  <2>3. Innermost(Below(s), kind) = i
    <3>1. i \in DOMAIN Below(s) /\ Below(s)[i] \in kind
      BY <1>1, <2>1, <2>2
    <3>2. \A k \in DOMAIN Below(s) : k > i => Below(s)[k] \notin kind
      BY <1>1, <2>1
    <3> HIDE DEF i
    <3> QED
      BY <1>1, <3>1, <3>2, InnermostIs
  <2>4. SubSeq(SubSeq(s, 1, Len(s) - 1), 1, i) = SubSeq(s, 1, i)
    BY <1>1, <2>2, SubSeqOfSubSeq
  <2> QED
    BY <2>3, <2>4 DEF Upto, Below
<1> QED
  BY <1>2, <1>3 DEF Outside
-----------------------------------------------------------------------------
LEMMA PushKeeps ==
  ASSUME NEW sections, NEW s, WellFormed(s, sections), s # <<>>,
         NEW p \in Phases \ Sections,
         Top(s) \in Operands => p \in Callees,
         p \in ReturnPhases => Holds(s, FunctionPhases)
  PROVE  WellFormed(Append(s, p), sections) /\ Append(s, p) # <<>>
<1>1. s \in Seq(Phases) /\ Rooted(s, sections) /\ Nested(s) /\ Returns(s)
  BY DEF WellFormed
<1>2. /\ Append(s, p) \in Seq(Phases) /\ DOMAIN Append(s, p) = 1..(Len(s) + 1)
      /\ \A i \in 1..Len(s) : Append(s, p)[i] = s[i]
      /\ Append(s, p)[Len(s) + 1] = p /\ Append(s, p) # <<>>
      /\ DOMAIN s = 1..Len(s) /\ Len(s) \in Nat \ {0}
  BY <1>1, AppendFacts, BelowFacts
<1>3. Rooted(Append(s, p), sections)
  BY <1>1, <1>2 DEF Rooted
<1>4. Nested(Append(s, p))
  BY <1>1, <1>2 DEF Nested, Top
<1>5. Returns(Append(s, p))
  <2>1. ASSUME p \in ReturnPhases
        PROVE  \E k \in 1..Len(s) : Append(s, p)[k] \in FunctionPhases
    BY <2>1, <1>2 DEF Holds
  <2> QED
    BY <2>1, <1>1, <1>2 DEF Returns
<1> QED
  BY <1>2, <1>3, <1>4, <1>5 DEF WellFormed

LEMMA TurnKeeps ==
  ASSUME NEW sections, NEW s, WellFormed(s, sections), s # <<>>,
         NEW p \in Phases \ Sections, Top(s) \notin Sections, sections \subseteq Sections,
         p \notin ReturnPhases,
         Top(s) \in Callees => p \in Callees
  PROVE  WellFormed(Turn(s, p), sections) /\ Turn(s, p) # <<>>
<1>1. s \in Seq(Phases) /\ Rooted(s, sections) /\ Nested(s) /\ Returns(s)
  BY DEF WellFormed
<1>2. /\ Turn(s, p) \in Seq(Phases) /\ DOMAIN Turn(s, p) = 1..Len(s)
      /\ \A i \in 1..(Len(s) - 1) : Turn(s, p)[i] = s[i]
      /\ Turn(s, p)[Len(s)] = p /\ Turn(s, p) # <<>>
      /\ DOMAIN s = 1..Len(s) /\ Len(s) \in Nat \ {0}
  BY <1>1, TurnFacts, BelowFacts
<1>3. Len(s) > 1
  BY <1>1, <1>2 DEF Rooted, Top
<1>4. Rooted(Turn(s, p), sections)
  BY <1>1, <1>2, <1>3 DEF Rooted
<1>5. Nested(Turn(s, p))
  <2> SUFFICES ASSUME NEW i \in 1..Len(s), i > 1, Turn(s, p)[i - 1] \in Operands
               PROVE  Turn(s, p)[i] \in Callees
    BY <1>2 DEF Nested
  <2>1. Turn(s, p)[i - 1] = s[i - 1] /\ i - 1 \in 1..(Len(s) - 1)
    BY <1>2
  <2>2. s[i] \in Callees
    BY <2>1, <1>1, <1>2 DEF Nested
  <2>3. CASE i = Len(s)
    <3>1. Turn(s, p)[i] = p /\ Top(s) = s[i]
      BY <2>3, <1>2 DEF Top
    <3> QED
      BY <2>2, <3>1
  <2>4. CASE i # Len(s)
    <3> DEFINE l == Len(s)
    <3>0. l \in Nat /\ i \in 1..l /\ i # l
      BY <2>4, <1>2
    <3> HIDE DEF l
    <3>a. i \in 1..(l - 1)
      BY <3>0
    <3>1. i \in 1..(Len(s) - 1)
      BY <3>a DEF l
    <3>2. Turn(s, p)[i] = s[i]
      BY <3>1, <1>2
    <3> QED
      BY <2>2, <3>2
  <2> QED
    BY <2>3, <2>4
<1>6. Returns(Turn(s, p))
  BY <1>1, <1>2 DEF Returns
<1> QED
  BY <1>2, <1>4, <1>5, <1>6 DEF WellFormed

LEMMA SectionAlone ==
  ASSUME NEW sections, NEW s, WellFormed(s, sections), s # <<>>, Top(s) \in Sections
  PROVE  /\ Len(s) = 1 /\ s[1] = Top(s) /\ s = <<Top(s)>> /\ Below(s) = <<>>
         /\ \A p \in sections : p \in Phases \ Operands =>
              WellFormed(Turn(s, p), sections) /\ Turn(s, p) = <<p>>
<1>1. s \in Seq(Phases) /\ Rooted(s, sections) /\ Nested(s) /\ Returns(s)
  BY DEF WellFormed
<1>2. DOMAIN s = 1..Len(s) /\ Len(s) \in Nat \ {0} /\ Below(s) \in Seq(Phases)
      /\ Len(Below(s)) = Len(s) - 1
  BY <1>1, BelowFacts
<1>3. Len(s) = 1
  BY <1>1, <1>2 DEF Rooted, Top
<1>4. s = <<Top(s)>> /\ s[1] = Top(s)
  BY <1>1, <1>2, <1>3 DEF Top
<1>5. Below(s) = <<>>
  BY <1>2, <1>3
<1>6. ASSUME NEW p \in sections, p \in Phases \ Operands
      PROVE  WellFormed(Turn(s, p), sections) /\ Turn(s, p) = <<p>>
  <2>1. Turn(s, p) = <<p>>
    BY <1>5 DEF Turn
  <2>2. <<p>> \in Seq(Phases) /\ DOMAIN <<p>> = {1} /\ <<p>>[1] = p
    BY <1>6
  <2>3. p \notin ReturnPhases
    BY <1>6 DEF Operands, ReturnPhases
  <2> QED
    BY <2>1, <2>2, <2>3, <1>6 DEF WellFormed, Rooted, Nested, Returns
<1> QED
  BY <1>3, <1>4, <1>5, <1>6

LEMMA PopKeeps ==
  ASSUME NEW sections, NEW s, WellFormed(s, sections), s # <<>>,
         Top(s) \notin Sections, sections \subseteq Sections
  PROVE  /\ WellFormed(Below(s), sections) /\ Below(s) # <<>>
         /\ Below(s)[1] = s[1] /\ Top(Below(s)) \in Phases
         /\ Top(s) \notin Callees => Top(Below(s)) \in Lists
         /\ Top(s) \in ReturnPhases => Holds(Below(s), FunctionPhases)
<1>1. s \in Seq(Phases) /\ Rooted(s, sections) /\ Nested(s) /\ Returns(s)
  BY DEF WellFormed
<1>2. /\ Below(s) \in Seq(Phases) /\ Len(Below(s)) = Len(s) - 1
      /\ DOMAIN Below(s) = 1..(Len(s) - 1)
      /\ \A i \in 1..(Len(s) - 1) : Below(s)[i] = s[i]
      /\ DOMAIN s = 1..Len(s) /\ Len(s) \in Nat \ {0}
  BY <1>1, BelowFacts
<1>3. Len(s) > 1
  BY <1>1, <1>2 DEF Rooted, Top
<1>4. Rooted(Below(s), sections)
  BY <1>1, <1>2, <1>3 DEF Rooted
<1>5. Nested(Below(s))
  BY <1>1, <1>2, <1>3 DEF Nested
<1>6. Below(s) # <<>> /\ Below(s)[1] = s[1]
  BY <1>2, <1>3
<1>7. Top(Below(s)) = s[Len(s) - 1] /\ Top(Below(s)) \in Phases
  BY <1>1, <1>2, <1>3 DEF Top
<1>8. Top(s) \notin Callees => Top(Below(s)) \in Lists
  <2>1. s[Len(s) - 1] \in Operands => Top(s) \in Callees
    BY <1>1, <1>2, <1>3 DEF Nested, Top
  <2> QED
    BY <2>1, <1>7, Kinds
<1>9. Returns(Below(s))
  BY <1>1, <1>2, <1>3 DEF Returns
<1>10. Top(s) \in ReturnPhases => Holds(Below(s), FunctionPhases)
  BY <1>1, <1>2, <1>3 DEF Returns, Top, Holds
<1> QED
  BY <1>2, <1>4, <1>5, <1>6, <1>7, <1>8, <1>9, <1>10 DEF WellFormed

\* A jump that is not for the phase on top is legal below it.
LEMMA LegalBelow ==
  ASSUME NEW s \in Seq(Phases), s # <<>>, NEW j, Legal(s, j),
         j \in {"break", "continue"} => Top(s) \notin LoopBodies,
         j = "return" => Top(s) # "function"
  PROVE  Legal(Below(s), j)
<1>1. /\ DOMAIN s = 1..Len(s) /\ Len(s) \in Nat \ {0}
      /\ DOMAIN Below(s) = 1..(Len(s) - 1)
      /\ \A i \in 1..(Len(s) - 1) : Below(s)[i] = s[i]
  BY BelowFacts
<1>2. CASE j \in {"break", "continue"}
  <2>1. InLoop(s)
    BY <1>2 DEF Legal
  <2>2. /\ Holds(Below(s), LoopBodies)
        /\ Innermost(Below(s), LoopBodies) = Innermost(s, LoopBodies)
    BY <2>1, <1>2, LandsBelow DEF InLoop
  <2>3. InLoop(Below(s))
    BY <2>1, <2>2, <1>1 DEF InLoop
  <2> QED
    BY <2>3, <1>2 DEF Legal
<1>3. CASE j = "next"
  <2>1. ~InFunction(Below(s))
    BY <1>1, <1>3 DEF Legal, InFunction, Holds
  <2> QED
    BY <2>1, <1>3 DEF Legal
<1>4. CASE j = "return"
  <2>1. InFunction(Below(s))
    BY <1>4, LandsBelow DEF Legal, InFunction
  <2> QED
    BY <2>1, <1>4 DEF Legal
<1>5. CASE j \notin {"break", "continue", "next", "return"}
  BY <1>5 DEF Legal
<1> QED
  BY <1>2, <1>3, <1>4, <1>5
-----------------------------------------------------------------------------
LEMMA Programmed ==
  ASSUME NEW t \in Programs
  PROVE  t.sections \subseteq Sections /\ t.constructs \subseteq Starts
BY ProgramsAssumption

\* What each way to go on does to the invariant.
LEMMA GoToKeeps ==
  ASSUME ControlInv, UNCHANGED text, stack # <<>>,
         NEW p \in Phases \ Sections, GoTo(p), p \notin ReturnPhases, Top(stack) \notin Sections,
         Top(stack) \in Callees => p \in Callees
  PROVE  ControlInv'
<1>1. WellFormed(stack, text.sections) /\ text.sections \subseteq Sections
  BY Programmed DEF ControlInv
<1>2. stack' = Turn(stack, p) /\ x' = "go"
  BY DEF GoTo
<1>3. WellFormed(stack', text.sections) /\ stack' # <<>>
  BY <1>1, <1>2, TurnKeeps
<1> QED
  BY <1>2, <1>3 DEF ControlInv, JumpLegal, Jumps, Events

LEMMA DoneKeeps ==
  ASSUME ControlInv, UNCHANGED text, stack # <<>>, Top(stack) \notin Sections, Return("done")
  PROVE  ControlInv'
<1>1. WellFormed(stack, text.sections) /\ text.sections \subseteq Sections
  BY Programmed DEF ControlInv
<1>2. stack' = Below(stack) /\ x' = "done"
  BY DEF Return
<1>3. WellFormed(stack', text.sections) /\ stack' # <<>>
  BY <1>1, <1>2, PopKeeps
<1> QED
  BY <1>2, <1>3 DEF ControlInv, JumpLegal, Jumps, Events

LEMMA JumpKeeps ==
  ASSUME ControlInv, UNCHANGED text, stack # <<>>, Top(stack) \notin Sections,
         x \in Jumps, Return(x), Top(stack) # "arguments",
         x \in {"break", "continue"} => Top(stack) \notin LoopBodies,
         Top(stack) = "function" => x = "exit"
  PROVE  ControlInv'
<1>1. WellFormed(stack, text.sections) /\ text.sections \subseteq Sections
      /\ stack \in Seq(Phases) /\ Legal(stack, x)
  BY Programmed DEF ControlInv, WellFormed, JumpLegal
<1>2. stack' = Below(stack) /\ x' = x
  BY DEF Return
<1>3. WellFormed(stack', text.sections) /\ stack' # <<>>
      /\ (Top(stack) # "function" => Top(stack') \in Lists)
  BY <1>1, <1>2, PopKeeps DEF Callees
<1>4. Legal(stack', x)
  BY <1>1, <1>2, LegalBelow
<1>5. Top(stack') \in Operands => x = "exit"
  BY <1>3, Kinds
<1>6. x # "over" /\ x # "error"
  BY DEF Jumps
<1> QED
  BY <1>2, <1>3, <1>4, <1>5, <1>6 DEF ControlInv, JumpLegal

LEMMA EndsKeeps ==
  ASSUME ControlInv, UNCHANGED text, Over \/ FATAL
  PROVE  ControlInv'
<1>1. stack' = <<>> /\ x' \in {"over", "error"}
  BY DEF Over, FATAL
<1>2. WellFormed(<<>>, text.sections)
  BY DEF WellFormed, Rooted, Nested, Returns
<1> QED
  BY <1>1, <1>2 DEF ControlInv, JumpLegal, Jumps, Events
-----------------------------------------------------------------------------
\* The kinds of the phases that the statements go through.
LEMMA Phase ==
  /\ {"if cond", "while cond", "do cond", "for cond", "for init", "for incr", "range begin",
      "range end", "operand", "exit code"} \subseteq Operands \ (Callees \cup Sections)
  /\ "return value" \in Operands \ (Callees \cup Sections)
  /\ LoopBodies = {"while body", "do body", "for body", "in body"}
  /\ LoopBodies \subseteq Lists \ (Callees \cup Sections)
  /\ {"branch", "action"} \subseteq Lists \ (Callees \cup Sections \cup LoopBodies)
  /\ "arguments" \in Operands /\ "function" \in Lists
  /\ Callees \subseteq Phases \ (Sections \cup LoopBodies)
BY DEF Operands, Callees, Sections, Lists, LoopBodies, Phases, Conditions

\* What x can be at a phase.
LEMMA AtOperand ==
  ASSUME ControlInv, Returned, Top(stack) \in Operands
  PROVE  x \in {"done", "exit"}
BY DEF ControlInv, Returned, JumpLegal, Events

LEMMA AtList ==
  ASSUME ControlInv, Returned
  PROVE  x \in Jumps \cup {"done"}
BY DEF ControlInv, Returned, Events

LEMMA AtFunction ==
  ASSUME ControlInv, Returned, Top(stack) = "function"
  PROVE  x \in {"done", "exit", "return"}
<1>1. stack \in Seq(Phases) /\ stack # <<>>
  BY DEF ControlInv, WellFormed, Returned
<1>2. Holds(stack, {"function"}) /\ Innermost(stack, {"function"}) = Len(stack)
  BY <1>1, LandsHere
<1>3. ~InLoop(stack)
  <2> SUFFICES ASSUME InLoop(stack) PROVE FALSE
    OBVIOUS
  <2>1. /\ Innermost(stack, LoopBodies) \in DOMAIN stack
        /\ stack[Innermost(stack, LoopBodies)] \in LoopBodies
    BY <1>1, InnermostIn DEF InLoop
  <2>2. Innermost(stack, LoopBodies) # Len(stack)
    BY <2>1, Kinds DEF Top
  <2>3. DOMAIN stack = 1..Len(stack) /\ Len(stack) \in Nat \ {0}
    BY <1>1, BelowFacts
  <2>4. Len(stack) \in DOMAIN stack /\ Len(stack) > Innermost(stack, LoopBodies)
    BY <2>1, <2>2, <2>3
  <2> QED
    BY <2>4 DEF InLoop, Top
<1>4. x # "next"
  BY <1>2 DEF ControlInv, JumpLegal, Legal, InFunction, Jumps
<1>5. x \notin {"break", "continue"}
  BY <1>3 DEF ControlInv, JumpLegal, Legal, Jumps
<1> QED
  BY <1>4, <1>5, AtList DEF Jumps

LEMMA InitInv == Init => ControlInv
<1> SUFFICES ASSUME Init PROVE ControlInv
  OBVIOUS
<1>1. PICK s \in Starting(text) : stack = <<s>>
  BY DEF Init
<1>2. text \in Programs /\ text.sections \subseteq Sections /\ x = "go"
  BY Programmed DEF Init
<1>3. s \in text.sections
  BY <1>1 DEF Starting
<1>4. s \in Phases /\ s \notin ReturnPhases
  BY <1>2, <1>3, Kinds DEF Sections, ReturnPhases
<1>5. <<s>> \in Seq(Phases) /\ DOMAIN <<s>> = {1} /\ <<s>>[1] = s /\ <<s>> # <<>>
  BY <1>4
<1>6. WellFormed(stack, text.sections)
  BY <1>1, <1>3, <1>4, <1>5 DEF WellFormed, Rooted, Nested, Returns
<1> QED
  BY <1>1, <1>2, <1>5, <1>6 DEF ControlInv, JumpLegal, Jumps, Events

LEMMA PushInv ==
  ASSUME ControlInv, UNCHANGED text, stack # <<>>, NEW p \in Phases \ Sections,
         stack' = Append(stack, p), x' = "go",
         Top(stack) \in Operands => p \in Callees,
         p \in ReturnPhases => Holds(stack, FunctionPhases)
  PROVE  ControlInv'
<1>1. WellFormed(stack', text.sections) /\ stack' # <<>>
  BY PushKeeps DEF ControlInv
<1> QED
  BY <1>1 DEF ControlInv, JumpLegal, Jumps, Events

LEMMA DownInv ==
  ASSUME ControlInv, Down, UNCHANGED text
  PROVE  ControlInv'
<1>1. ASSUME NEW p \in text.constructs, Enter(p) PROVE ControlInv'
  <2>1. p \in Phases \ Sections
    BY Programmed, Kinds DEF ControlInv
  <2>2. stack # <<>> /\ Top(stack) \notin Operands
    BY <1>1, Kinds DEF Enter, At
  <2>3. p \in ReturnPhases => Holds(stack, FunctionPhases)
    BY <1>1 DEF Enter, LegalStart, InFunction, ReturnPhases, FunctionPhases
  <2> QED
    BY <1>1, <2>1, <2>2, <2>3, PushInv DEF Enter
<1>2. ASSUME CallIn PROVE ControlInv'
  <2>1. "arguments" \in Phases \ Sections /\ "arguments" \in Callees
    BY Phase DEF Callees
  <2>2. "arguments" \notin ReturnPhases /\ stack # <<>>
    BY <1>2 DEF ReturnPhases, CallIn, At
  <2> QED
    BY <1>2, <2>1, <2>2, PushInv DEF CallIn
<1>3. ASSUME NEW j \in Jumps, jump(j) PROVE ControlInv'
  <2>1. stack # <<>> /\ Top(stack) \notin Operands /\ stack' = stack /\ x' = j /\ Legal(stack, j)
    BY <1>3, Kinds DEF jump, At
  <2> QED
    BY <2>1 DEF ControlInv, JumpLegal, Jumps, Events
<1>4. ASSUME Value \/ NextStatement PROVE ControlInv'
  <2>1. stack' = stack /\ x' \in {"go", "done"} /\ stack # <<>>
    BY <1>4 DEF Value, NextStatement, At
  <2> QED
    BY <2>1 DEF ControlInv, JumpLegal, Jumps, Events
<1>5. ASSUME Error PROVE ControlInv'
  BY <1>5, EndsKeeps DEF Error
<1>6. ASSUME Body PROVE ControlInv'
  <2>1. stack # <<>> /\ Top(stack) \in Callees /\ GoTo("function") /\ Top(stack) \notin Sections
    BY <1>6, Phase DEF Body, At, Callees
  <2>2. "function" \in Phases \ Sections /\ "function" \notin ReturnPhases /\ "function" \in Callees
    BY Phase DEF Callees, ReturnPhases
  <2> QED
    BY <2>1, <2>2, GoToKeeps
<1> QED
  BY <1>1, <1>2, <1>3, <1>4, <1>5, <1>6 DEF Down
-----------------------------------------------------------------------------
\* Phases of constructs: those that are neither sections nor calls.
Inner == Phases \ (Sections \cup Callees)

LEMMA Going ==
  ASSUME ControlInv, UNCHANGED text, Returned, Top(stack) \in Inner,
         \/ \E p \in Inner \ ReturnPhases : GoTo(p)
         \/ Return("done")
         \/ /\ Return(x) /\ x \in Jumps
            /\ x \in {"break", "continue"} => Top(stack) \notin LoopBodies
  PROVE  ControlInv'
<1>1. stack # <<>> /\ Top(stack) \notin Sections /\ Top(stack) \notin Callees
  BY DEF Returned, Inner
<1>2. ASSUME NEW p \in Inner \ ReturnPhases, GoTo(p) PROVE ControlInv'
  <2>1. p \in Phases \ Sections /\ p \notin ReturnPhases
    BY DEF Inner
  <2> QED
    BY <1>1, <1>2, <2>1, GoToKeeps
<1>3. ASSUME Return("done") PROVE ControlInv'
  BY <1>1, <1>3, DoneKeeps
<1>4. ASSUME Return(x), x \in Jumps, x \in {"break", "continue"} => Top(stack) \notin LoopBodies
      PROVE  ControlInv'
  <2>1. Top(stack) # "arguments" /\ Top(stack) # "function"
    BY <1>1 DEF Callees
  <2> QED
    BY <1>1, <1>4, <2>1, JumpKeeps
<1> QED
  BY <1>2, <1>3, <1>4

LEMMA InnerPhases ==
  /\ {"if cond", "while cond", "do cond", "for cond", "for init", "for incr", "range begin",
      "range end", "operand", "exit code", "while body", "do body", "for body", "in body",
      "branch", "action"} \subseteq Inner \ ReturnPhases
  /\ "return value" \in Inner
BY DEF Inner, ReturnPhases, Phases, Sections, Callees, Lists, Operands, Conditions, LoopBodies

LEMMA JumpKinds ==
  /\ isleave => x \in Jumps /\ x \notin {"break", "continue"}
  /\ x \in Jumps => x # "done"
BY DEF isleave, Jumps

LEMMA StatementsInv ==
  ASSUME ControlInv, UNCHANGED text, Returned,
         ifstat \/ whilestat \/ dostat \/ forstat \/ instat \/ dopa2 \/ operator
  PROVE  ControlInv'
<1>1. CASE ifstat
  <2>1. CASE At({"if cond"}) /\ (GoTo("branch") \/ Return("done"))
    BY <2>1, Going, InnerPhases DEF At
  <2>2. CASE At({"branch"}) /\ Return(x)
    <3>1. Top(stack) = "branch" /\ Top(stack) \in Inner /\ Top(stack) \notin LoopBodies
      BY <2>2, InnerPhases, Phase DEF At
    <3> QED
      BY <2>2, <3>1, Going, AtList
  <2> QED
    BY <1>1, <2>1, <2>2 DEF ifstat
<1>2. CASE whilestat
  <2>1. CASE At({"while cond"}) /\ (GoTo("while body") \/ Return("done"))
    BY <2>1, Going, InnerPhases DEF At
  <2>2. CASE At({"while body"}) /\ (GoTo("while cond") \/ Return("done"))
    BY <2>2, Going, InnerPhases DEF At
  <2>3. CASE At({"while body"}) /\ isleave /\ Return(x)
    BY <2>3, Going, InnerPhases, JumpKinds DEF At
  <2> QED
    BY <1>2, <2>1, <2>2, <2>3 DEF whilestat
<1>3. CASE dostat
  <2>1. CASE At({"do cond"}) /\ (GoTo("do body") \/ Return("done"))
    BY <2>1, Going, InnerPhases DEF At
  <2>2. CASE At({"do body"}) /\ (GoTo("do cond") \/ Return("done"))
    BY <2>2, Going, InnerPhases DEF At
  <2>3. CASE At({"do body"}) /\ isleave /\ Return(x)
    BY <2>3, Going, InnerPhases, JumpKinds DEF At
  <2> QED
    BY <1>3, <2>1, <2>2, <2>3 DEF dostat
<1>4. CASE forstat
  <2>1. CASE At({"for init", "for incr"}) /\ (GoTo("for cond") \/ GoTo("for body"))
    BY <2>1, Going, InnerPhases DEF At
  <2>2. CASE At({"for cond"}) /\ (GoTo("for body") \/ Return("done"))
    BY <2>2, Going, InnerPhases DEF At
  <2>3. CASE At({"for body"}) /\ (GoTo("for incr") \/ Return("done"))
    BY <2>3, Going, InnerPhases DEF At
  <2>4. CASE At({"for body"}) /\ isleave /\ Return(x)
    BY <2>4, Going, InnerPhases, JumpKinds DEF At
  <2> QED
    BY <1>4, <2>1, <2>2, <2>3, <2>4 DEF forstat
<1>5. CASE instat
  <2>1. CASE At({"in body"}) /\ (GoTo("in body") \/ Return("done"))
    BY <2>1, Going, InnerPhases DEF At
  <2>2. CASE At({"in body"}) /\ isleave /\ Return(x)
    BY <2>2, Going, InnerPhases, JumpKinds DEF At
  <2> QED
    BY <1>5, <2>1, <2>2 DEF instat
<1>6. CASE dopa2
  <2>1. CASE At({"range begin"}) /\ (GoTo("range end") \/ Return("done"))
    BY <2>1, Going, InnerPhases DEF At
  <2>2. CASE At({"range end"}) /\ GoTo("action")
    BY <2>2, Going, InnerPhases DEF At
  <2>3. CASE At({"action"}) /\ Return(x)
    <3>1. Top(stack) = "action" /\ Top(stack) \in Inner /\ Top(stack) \notin LoopBodies
      BY <2>3, InnerPhases, Phase DEF At
    <3> QED
      BY <2>3, <3>1, Going, AtList
  <2> QED
    BY <1>6, <2>1, <2>2, <2>3 DEF dopa2
<1>7. CASE operator
  BY <1>7, Going, InnerPhases DEF operator, At
<1> QED
  BY <1>1, <1>2, <1>3, <1>4, <1>5, <1>6, <1>7

LEMMA UpInv ==
  ASSUME ControlInv, Up, UNCHANGED text
  PROVE  ControlInv'
<1>0. Returned /\ stack # <<>> /\ WellFormed(stack, text.sections)
      /\ text.sections \subseteq Sections
  BY Programmed DEF Up, Returned, ControlInv
<1>1. CASE ifstat \/ whilestat \/ dostat \/ forstat \/ instat \/ dopa2 \/ operator
  BY <1>0, <1>1, StatementsInv
<1>2. CASE jumpWith
  <2>1. Top(stack) \in {"exit code", "return value"} /\ x' \in {"exit", "return"}
        /\ stack' = Below(stack) /\ (x' = "return" => Top(stack) \in ReturnPhases)
    BY <1>2 DEF jumpWith, At, Return, ReturnPhases
  <2>2. Top(stack) \notin Callees \cup Sections
    BY <2>1, Phase
  <2>3. /\ WellFormed(stack', text.sections) /\ stack' # <<>> /\ Top(stack') \in Lists
        /\ Top(stack) \in ReturnPhases => Holds(stack', FunctionPhases)
    BY <1>0, <2>1, <2>2, PopKeeps
  <2>4. Top(stack') \notin Operands
    BY <2>3, Kinds
  <2>5. Legal(stack', x')
    BY <2>1, <2>3 DEF Legal, InFunction, FunctionPhases
  <2> QED
    BY <2>1, <2>3, <2>4, <2>5 DEF ControlInv, JumpLegal, Jumps, Events
<1>3. CASE Argument
  <2>1. Top(stack) \in Callees /\ GoTo("arguments") /\ Top(stack) \notin Sections
    BY <1>3, Phase DEF Argument, At, Callees
  <2>2. "arguments" \in Phases \ Sections /\ "arguments" \in Callees
        /\ "arguments" \notin ReturnPhases
    BY Phase DEF Callees, ReturnPhases
  <2> QED
    BY <1>0, <2>1, <2>2, GoToKeeps
<1>4. CASE Result
  <2>1. Top(stack) = "function" /\ Top(stack) \notin Sections
    BY <1>4, Kinds DEF Result, At
  <2>2. x \in {"done", "exit", "return"}
    BY <1>0, <2>1, AtFunction
  <2>3. CASE x = "exit"
    <3>1. Return(x) /\ x \in Jumps /\ Top(stack) # "arguments"
          /\ x \notin {"break", "continue"}
      BY <1>4, <2>1, <2>3 DEF Result, Jumps
    <3> QED
      BY <1>0, <2>1, <2>3, <3>1, JumpKeeps
  <2>4. CASE x # "exit"
    <3>1. Return("done")
      BY <1>4, <2>2, <2>4 DEF Result
    <3> QED
      BY <1>0, <2>1, <3>1, DoneKeeps
  <2> QED
    BY <2>3, <2>4
<1>5. CASE program
  <2>1. Top(stack) \in Sections
    BY <1>5 DEF program, At, Sections
  <2>2. CASE Over \/ FATAL
    BY <2>2, EndsKeeps
  <2>3. ASSUME NEW p \in text.sections, GoTo(p) PROVE ControlInv'
    <3>1. p \in Phases \ Operands
      BY <1>0, Kinds
    <3>2. stack' = <<p>> /\ WellFormed(stack', text.sections) /\ x' = "go"
      BY <1>0, <2>1, <2>3, <3>1, SectionAlone DEF GoTo
    <3> QED
      BY <3>2 DEF ControlInv, JumpLegal, Jumps, Events
  <2>4. Top(stack) \in text.sections
    <3>1. Len(stack) = 1 /\ stack[1] = Top(stack) /\ DOMAIN stack = 1..Len(stack)
      BY <1>0, <2>1, SectionAlone, BelowFacts DEF WellFormed
    <3> QED
      BY <1>0, <3>1 DEF WellFormed, Rooted
  <2>5. \/ Over \/ FATAL
        \/ "END" \in text.sections /\ GoTo("END")
        \/ "body" \in text.sections /\ GoTo("body")
    BY <1>5, <2>4 DEF program, ToEnd, At
  <2> QED
    BY <2>2, <2>3, <2>5
<1> QED
  BY <1>1, <1>2, <1>3, <1>4, <1>5 DEF Up

LEMMA StutterInv ==
  ASSUME ControlInv, UNCHANGED control
  PROVE  ControlInv'
BY DEF control, ControlInv, JumpLegal

\* In every program the place is well formed and a jump on its way up is legal
\* where it is.
THEOREM ControlSafe == Spec => []ControlInv
<1>1. ControlInv /\ [Next]_control => ControlInv'
  BY DownInv, UpInv, StutterInv DEF Next
<1> QED
  BY <1>1, InitInv, PTL DEF Spec
-----------------------------------------------------------------------------
(* The refinement.                                                         *)
Where == IF x \in Jumps THEN LandPlace(stack, x) ELSE stack
Doing == IF x \in Jumps THEN LandDoing(stack, x) ELSE x

\* Both modules mean the same by the places of a program.
LEMMA SamePlaces ==
  /\ Ideal!Sections = Sections /\ Ideal!Lists = Lists /\ Ideal!Operands = Operands
  /\ \A s : Ideal!Top(s) = Top(s) /\ Ideal!Below(s) = Below(s)
  /\ \A s, p : Ideal!Turn(s, p) = Turn(s, p)
  /\ \A s, p : Ideal!LegalStart(s, p) <=> LegalStart(s, p)
  /\ \A s, j : Ideal!Legal(s, j) <=> Legal(s, j)
  /\ \A s, j : Ideal!LandPlace(s, j) = LandPlace(s, j) /\ Ideal!LandDoing(s, j) = LandDoing(s, j)
<1>1. /\ Ideal!Sections = Sections /\ Ideal!LoopBodies = LoopBodies
  BY DEF Ideal!Sections, Sections, Ideal!LoopBodies, LoopBodies
<1>2. Ideal!Lists = Lists
  BY <1>1 DEF Ideal!Lists, Lists
<1>3. Ideal!Operands = Operands
  BY DEF Ideal!Operands, Operands, Ideal!Conditions, Conditions
<1>4. \A s : Ideal!Top(s) = Top(s) /\ Ideal!Below(s) = Below(s)
  BY DEF Ideal!Top, Top, Ideal!Below, Below
<1>5. \A s, p : Ideal!Turn(s, p) = Turn(s, p)
  BY <1>4 DEF Ideal!Turn, Turn
<1>6. \A s, k : /\ Ideal!Holds(s, k) <=> Holds(s, k)
                /\ Ideal!Innermost(s, k) = Innermost(s, k)
  BY DEF Ideal!Holds, Holds, Ideal!Innermost, Innermost
<1>7. \A s : /\ Ideal!InLoop(s) <=> InLoop(s)
             /\ Ideal!InFunction(s) <=> InFunction(s)
  BY <1>1, <1>6 DEF Ideal!InLoop, InLoop, Ideal!InFunction, InFunction
<1>8. \A s, p : Ideal!LegalStart(s, p) <=> LegalStart(s, p)
  BY <1>4, <1>7 DEF Ideal!LegalStart, LegalStart
<1>9. \A s, j : Ideal!Legal(s, j) <=> Legal(s, j)
  BY <1>7 DEF Ideal!Legal, Legal
<1>10. \A s, k : Ideal!Upto(s, k) = Upto(s, k) /\ Ideal!Outside(s, k) = Outside(s, k)
  BY <1>4, <1>6 DEF Ideal!Upto, Upto, Ideal!Outside, Outside
<1>11. \A s, j : Ideal!LandPlace(s, j) = LandPlace(s, j) /\ Ideal!LandDoing(s, j) = LandDoing(s, j)
  BY <1>1, <1>3, <1>6, <1>10 DEF Ideal!LandPlace, LandPlace, Ideal!LandDoing, LandDoing
<1> QED
  BY <1>1, <1>2, <1>3, <1>4, <1>5, <1>8, <1>9, <1>11

LEMMA NoJump ==
  /\ x \notin Jumps => Where = stack /\ Doing = x
  /\ x' \notin Jumps => Where' = stack' /\ Doing' = x'
  /\ {"go", "done", "over", "error"} \cap Jumps = {}
BY DEF Where, Doing, Jumps

LEMMA LandSame ==
  ASSUME NEW s \in Seq(Phases), s # <<>>, NEW j, Below(s)[1] = s[1],
         j \in {"break", "continue"} => Top(s) \notin LoopBodies,
         j = "return" => Top(s) \notin {"function"},
         j = "exit" => Top(s) \notin Operands,
         j \in Jumps, Legal(s, j)
  PROVE  LandPlace(Below(s), j) = LandPlace(s, j) /\ LandDoing(Below(s), j) = LandDoing(s, j)
<1>1. CASE j \in {"break", "continue"}
  <2>1. Holds(s, LoopBodies)
    BY <1>1 DEF Legal, InLoop
  <2>2. /\ Upto(Below(s), LoopBodies) = Upto(s, LoopBodies)
        /\ Outside(Below(s), LoopBodies) = Outside(s, LoopBodies)
    BY <2>1, <1>1, LandsBelow
  <2> QED
    BY <1>1, <2>2 DEF LandPlace, LandDoing
<1>2. CASE j = "return"
  <2>1. Holds(s, {"function"})
    BY <1>2 DEF Legal, InFunction
  <2>2. Outside(Below(s), {"function"}) = Outside(s, {"function"})
    BY <2>1, <1>2, LandsBelow
  <2> QED
    BY <1>2, <2>2 DEF LandPlace, LandDoing
<1>3. CASE j = "next"
  BY <1>3 DEF LandPlace, LandDoing
<1>4. CASE j = "exit"
  <2>1. /\ Holds(s, Operands) <=> Holds(Below(s), Operands)
        /\ Holds(s, Operands) => Upto(Below(s), Operands) = Upto(s, Operands)
    BY <1>4, LandsBelow
  <2> QED
    BY <1>4, <2>1 DEF LandPlace, LandDoing
<1> QED
  BY <1>1, <1>2, <1>3, <1>4 DEF Jumps

LEMMA OperandThere ==
  ASSUME ControlInv, Returned, Top(stack) \in Operands
  PROVE  Where = stack /\ Doing = "done"
<1>1. x \in {"done", "exit"} /\ stack \in Seq(Phases) /\ stack # <<>>
  BY AtOperand DEF Returned, ControlInv, WellFormed
<1>2. CASE x = "done"
  BY <1>2, NoJump
<1>3. CASE x = "exit"
  BY <1>1, <1>3, LandsHere DEF Where, Doing, LandPlace, LandDoing, Jumps
<1> QED
  BY <1>1, <1>2, <1>3

LEMMA LoopThere ==
  ASSUME ControlInv, Returned, Top(stack) \in LoopBodies
  PROVE  /\ x = "break" => Where = Below(stack) /\ Doing = "done"
         /\ x \in {"done", "continue"} => Where = stack /\ Doing = "done"
<1>1. stack \in Seq(Phases) /\ stack # <<>>
  BY DEF Returned, ControlInv, WellFormed
<1>2. Upto(stack, LoopBodies) = stack /\ Outside(stack, LoopBodies) = Below(stack)
  BY <1>1, LandsHere
<1> QED
  BY <1>2, NoJump DEF Where, Doing, LandPlace, LandDoing, Jumps

LEMMA FunctionThere ==
  ASSUME ControlInv, Returned, Top(stack) = "function", x = "return"
  PROVE  Where = Below(stack) /\ Doing = "done"
<1>1. stack \in Seq(Phases) /\ stack # <<>> /\ Top(stack) \in {"function"}
  BY DEF Returned, ControlInv, WellFormed
<1>2. Outside(stack, {"function"}) = Below(stack)
  BY <1>1, LandsHere
<1> QED
  BY <1>2 DEF Where, Doing, LandPlace, LandDoing, Jumps
-----------------------------------------------------------------------------
LEMMA Advances ==
  ASSUME UNCHANGED text, stack # <<>>, Where = stack, Doing = "done",
         NEW p, GoTo(p), <<Top(stack), p>> \in Ideal!Follows, p \in Sections => p \in text.sections
  PROVE  Ideal!Next
<1>1. Where' = Turn(stack, p) /\ Doing' = "go"
  BY NoJump DEF GoTo
<1> DEFINE f == <<Top(stack), p>>
<1>2. f \in Ideal!Follows /\ f[1] = Top(Where) /\ f[2] = p
  OBVIOUS
<1>3. Ideal!Set(Turn(Where, f[2]), "go")
  BY <1>1, <1>2 DEF Ideal!Set, Where, Doing
<1>4. Ideal!Busy /\ Ideal!Has(f[2])
  BY <1>2, SamePlaces DEF Ideal!Busy, Ideal!Has, Where
<1> HIDE DEF f
<1>5. Ideal!Advance
  BY <1>2, <1>3, <1>4, SamePlaces DEF Ideal!Advance, Where, Doing
<1> QED
  BY <1>5 DEF Ideal!Next

LEMMA Completes ==
  ASSUME UNCHANGED text, stack # <<>>, Where = stack, Doing = "done",
         Top(stack) \in Ideal!Completes, Return("done")
  PROVE  Ideal!Next
<1>1. Where' = Below(stack) /\ Doing' = "done"
  BY NoJump DEF Return
<1>2. Ideal!Set(Below(Where), "done") /\ Ideal!Busy /\ Top(Where) \in Ideal!Completes
  BY <1>1 DEF Ideal!Set, Ideal!Busy, Where, Doing
<1>3. Ideal!Advance
  BY <1>2, SamePlaces DEF Ideal!Advance, Where, Doing
<1> QED
  BY <1>3 DEF Ideal!Next

LEMMA Passes ==
  ASSUME ControlInv, UNCHANGED text, Returned, Return(x), x \in Jumps,
         Top(stack) \notin Sections, Top(stack) \notin Operands,
         x \in {"break", "continue"} => Top(stack) \notin LoopBodies,
         x = "return" => Top(stack) # "function"
  PROVE  UNCHANGED Ideal!where
<1>1. stack \in Seq(Phases) /\ stack # <<>> /\ WellFormed(stack, text.sections)
      /\ text.sections \subseteq Sections /\ Legal(stack, x)
  BY Programmed DEF Returned, ControlInv, WellFormed, JumpLegal
<1>2. Below(stack)[1] = stack[1]
  <2>1. Below(stack) # <<>>
    BY <1>1, PopKeeps
  <2>2. /\ Below(stack) \in Seq(Phases) /\ Len(Below(stack)) = Len(stack) - 1
        /\ \A i \in 1..(Len(stack) - 1) : Below(stack)[i] = stack[i]
    BY <1>1, BelowFacts
  <2>3. Len(Below(stack)) \in Nat \ {0}
    BY <2>1, <2>2, EmptySeq
  <2>4. 1 \in 1..(Len(stack) - 1)
    BY <2>2, <2>3
  <2> QED
    BY <2>2, <2>4
<1>3. LandPlace(Below(stack), x) = LandPlace(stack, x) /\ LandDoing(Below(stack), x) = LandDoing(stack, x)
  BY <1>1, <1>2, LandSame
<1> QED
  BY <1>3 DEF Ideal!where, Return

\* The phase on top is where the jump lands.
LEMMA Lands ==
  ASSUME UNCHANGED text, Where = Below(stack), Doing = "done", Return("done")
  PROVE  UNCHANGED Ideal!where
<1>1. Where' = Below(stack) /\ Doing' = "done"
  BY NoJump DEF Return
<1> QED
  BY <1>1 DEF Ideal!where, Where, Doing
-----------------------------------------------------------------------------
LEMMA SetsTo ==
  ASSUME NEW p, NEW d, Where' = p, Doing' = d
  PROVE  Ideal!Set(p, d)
BY DEF Ideal!Set, Where, Doing

LEMMA DownStep ==
  ASSUME ControlInv, Down, UNCHANGED text
  PROVE  Ideal!Next
<1>1. ASSUME NEW p \in text.constructs, Enter(p) PROVE Ideal!Next
  <2>1. Where = stack /\ Doing = "go" /\ Where' = Append(stack, p) /\ Doing' = "go"
    BY <1>1, NoJump DEF Enter
  <2>2. Ideal!Set(Append(Where, p), "go")
    BY <2>1, SetsTo
  <2>3. Where # <<>> /\ Top(Where) \in Lists /\ Len(Where) < text.depth /\ LegalStart(Where, p)
    BY <1>1, <2>1 DEF Enter, At
  <2>4. Ideal!Enter
    BY <2>1, <2>2, <2>3, SamePlaces DEF Ideal!Enter, Ideal!Busy, Where, Doing
  <2> QED
    BY <2>4 DEF Ideal!Next
<1>2. ASSUME CallIn PROVE Ideal!Next
  <2>1. Where = stack /\ Doing = "go" /\ Where' = Append(stack, "arguments") /\ Doing' = "go"
    BY <1>2, NoJump DEF CallIn
  <2>2. Ideal!Set(Append(Where, "arguments"), "go")
    BY <2>1, SetsTo
  <2>3. Where # <<>> /\ Top(Where) \in Operands /\ Len(Where) < text.depth
    BY <1>2, <2>1 DEF CallIn, At
  <2>4. Ideal!Call
    BY <2>1, <2>2, <2>3, SamePlaces DEF Ideal!Call, Ideal!Busy, Where, Doing
  <2> QED
    BY <2>4 DEF Ideal!Next
<1>3. ASSUME NEW j \in Jumps, jump(j) PROVE Ideal!Next
  <2>1. x = "go" /\ stack' = stack /\ x' = j /\ stack # <<>>
        /\ Top(stack) \in Lists /\ Legal(stack, j)
    BY <1>3 DEF jump, At
  <2>2. Where = stack /\ Doing = "go"
    BY <2>1, NoJump
  <2>3. Where' = LandPlace(Where, j) /\ Doing' = LandDoing(Where, j)
    BY <2>1, <2>2 DEF Where, Doing
  <2>4. Ideal!Set(LandPlace(Where, j), LandDoing(Where, j))
    BY <2>3, SetsTo
  <2>5. Ideal!Land(Where, j) /\ Ideal!Busy
    BY <2>4, <2>1, <2>2, SamePlaces DEF Ideal!Land, Ideal!Busy, Where
  <2>6. Ideal!Jump
    BY <2>1, <2>2, <2>5, SamePlaces DEF Ideal!Jump, Where, Doing, Jumps
  <2> QED
    BY <2>6 DEF Ideal!Next
<1>4. ASSUME Value \/ NextStatement PROVE Ideal!Next
  <2>1. /\ Where = stack /\ Doing = x /\ Where' = stack /\ Doing' = x' /\ stack # <<>>
        /\ \/ x = "go" /\ Top(stack) # "arguments" /\ x' = "done"
           \/ x = "done" /\ Top(stack) \in Lists /\ x' = "go"
    BY <1>4, NoJump DEF Value, NextStatement, At
  <2>2. Ideal!Set(Where, x')
    BY <2>1, SetsTo
  <2>3. Ideal!Execute
    BY <2>1, <2>2, SamePlaces DEF Ideal!Execute, Ideal!Busy, Where, Doing
  <2> QED
    BY <2>3 DEF Ideal!Next
<1>5. ASSUME Error PROVE Ideal!Next
  <2>1. Where = stack /\ Doing = "go" /\ Where' = <<>> /\ Doing' = "error" /\ stack # <<>>
    BY <1>5, NoJump DEF Error, FATAL
  <2>2. Ideal!Set(<<>>, "error")
    BY <2>1, SetsTo
  <2>3. Ideal!Fail
    BY <2>1, <2>2 DEF Ideal!Fail, Ideal!Busy, Where, Doing
  <2> QED
    BY <2>3 DEF Ideal!Next
<1>6. ASSUME Body PROVE Ideal!Next
  <2>1. /\ Where = stack /\ Doing = "go" /\ Where' = Turn(stack, "function") /\ Doing' = "go"
        /\ stack # <<>> /\ Top(stack) = "arguments"
    BY <1>6, NoJump DEF Body, At, GoTo
  <2>2. Ideal!Set(Turn(Where, "function"), "go")
    BY <2>1, SetsTo
  <2>3. Ideal!Call
    BY <2>1, <2>2, SamePlaces DEF Ideal!Call, Ideal!Busy, Where, Doing
  <2> QED
    BY <2>3 DEF Ideal!Next
<1> QED
  BY <1>1, <1>2, <1>3, <1>4, <1>5, <1>6 DEF Down
-----------------------------------------------------------------------------
\* An operand is done; the body of a loop is done or has a jump that is for it.
LEMMA FromOperand ==
  ASSUME ControlInv, UNCHANGED text, Returned, Top(stack) \in Operands,
         \/ \E p \in Phases \ Sections : GoTo(p) /\ <<Top(stack), p>> \in Ideal!Follows
         \/ Top(stack) \in Ideal!Completes /\ Return("done")
  PROVE  Ideal!Next
<1>1. Where = stack /\ Doing = "done" /\ stack # <<>>
  BY OperandThere DEF Returned
<1> QED
  BY <1>1, Advances, Completes

LEMMA FromLoop ==
  ASSUME ControlInv, UNCHANGED text, Returned, Top(stack) \in LoopBodies,
         \/ x = "break" /\ Return("done")
         \/ isleave /\ Return(x)
         \/ /\ x \in {"done", "continue"}
            /\ \/ \E p \in Phases \ Sections : GoTo(p) /\ <<Top(stack), p>> \in Ideal!Follows
               \/ Top(stack) \in Ideal!Completes /\ Return("done")
  PROVE  Ideal!Next \/ UNCHANGED Ideal!where
<1>0. stack # <<>> /\ Top(stack) \notin Sections /\ Top(stack) \notin Operands
      /\ Top(stack) # "function"
  BY Kinds DEF Returned
<1>1. CASE x = "break" /\ Return("done")
  BY <1>1, LoopThere, Lands
<1>2. CASE isleave /\ Return(x)
  BY <1>0, <1>2, JumpKinds, Passes
<1>3. ASSUME x \in {"done", "continue"},
             NEW p \in Phases \ Sections, GoTo(p), <<Top(stack), p>> \in Ideal!Follows
      PROVE  Ideal!Next
  BY <1>0, <1>3, LoopThere, Advances
<1>4. CASE x \in {"done", "continue"} /\ Top(stack) \in Ideal!Completes /\ Return("done")
  BY <1>0, <1>4, LoopThere, Completes
<1> QED
  BY <1>1, <1>2, <1>3, <1>4

\* The value of a branch, or its jump, is that of the whole statement.
LEMMA FromBranch ==
  ASSUME ControlInv, UNCHANGED text, Returned, Top(stack) \in {"branch", "action"}, Return(x)
  PROVE  Ideal!Next \/ UNCHANGED Ideal!where
<1>1. stack # <<>> /\ Top(stack) \notin Sections /\ Top(stack) \notin Operands
      /\ Top(stack) \notin LoopBodies /\ Top(stack) # "function" /\ Top(stack) \in Ideal!Completes
  BY Kinds, Phase DEF Returned, Ideal!Completes
<1>2. CASE x \in Jumps
  BY <1>1, <1>2, Passes
<1>3. CASE x = "done"
  <2>1. Where = stack /\ Doing = "done"
    BY <1>3, NoJump
  <2> QED
    BY <1>1, <1>3, <2>1, Completes
<1> QED
  BY <1>2, <1>3, AtList

LEMMA StatementStep ==
  ASSUME ControlInv, UNCHANGED text, Returned,
         ifstat \/ whilestat \/ dostat \/ forstat \/ instat \/ dopa2 \/ operator
  PROVE  Ideal!Next \/ UNCHANGED Ideal!where
<1>0. \A p \in Inner : p \in Phases \ Sections
  BY DEF Inner
<1>1. CASE ifstat
  <2>1. CASE At({"if cond"}) /\ (GoTo("branch") \/ Return("done"))
    <3>1. /\ Top(stack) \in Operands /\ "branch" \in Phases \ Sections
          /\ <<Top(stack), "branch">> \in Ideal!Follows /\ Top(stack) \in Ideal!Completes
      BY <2>1, <1>0, InnerPhases, Phase DEF At, Ideal!Follows, Ideal!Completes
    <3> QED
      BY <2>1, <3>1, FromOperand
  <2>2. CASE At({"branch"}) /\ Return(x)
    BY <2>2, FromBranch DEF At
  <2> QED
    BY <1>1, <2>1, <2>2 DEF ifstat
<1>2. CASE whilestat
  <2>1. CASE At({"while cond"}) /\ (GoTo("while body") \/ Return("done"))
    <3>1. /\ Top(stack) \in Operands /\ "while body" \in Phases \ Sections
          /\ <<Top(stack), "while body">> \in Ideal!Follows /\ Top(stack) \in Ideal!Completes
      BY <2>1, <1>0, InnerPhases, Phase DEF At, Ideal!Follows, Ideal!Completes
    <3> QED
      BY <2>1, <3>1, FromOperand
  <2>2. CASE At({"while body"})
    <3>1. /\ Top(stack) \in LoopBodies /\ "while cond" \in Phases \ Sections
          /\ <<Top(stack), "while cond">> \in Ideal!Follows /\ Top(stack) # "while cond"
      BY <2>2, <1>0, InnerPhases, Phase DEF At, Ideal!Follows
    <3> QED
      BY <1>2, <3>1, FromLoop DEF whilestat, At
  <2> QED
    BY <1>2, <2>1, <2>2 DEF whilestat
<1>3. CASE dostat
  <2>1. CASE At({"do cond"}) /\ (GoTo("do body") \/ Return("done"))
    <3>1. /\ Top(stack) \in Operands /\ "do body" \in Phases \ Sections
          /\ <<Top(stack), "do body">> \in Ideal!Follows /\ Top(stack) \in Ideal!Completes
      BY <2>1, <1>0, InnerPhases, Phase DEF At, Ideal!Follows, Ideal!Completes
    <3> QED
      BY <2>1, <3>1, FromOperand
  <2>2. CASE At({"do body"})
    <3>1. /\ Top(stack) \in LoopBodies /\ "do cond" \in Phases \ Sections
          /\ <<Top(stack), "do cond">> \in Ideal!Follows /\ Top(stack) # "do cond"
      BY <2>2, <1>0, InnerPhases, Phase DEF At, Ideal!Follows
    <3> QED
      BY <1>3, <3>1, FromLoop DEF dostat, At
  <2> QED
    BY <1>3, <2>1, <2>2 DEF dostat
<1>4. CASE forstat
  <2>1. CASE At({"for init", "for incr"}) /\ (GoTo("for cond") \/ GoTo("for body"))
    <3>1. /\ Top(stack) \in Operands /\ {"for cond", "for body"} \subseteq Phases \ Sections
          /\ <<Top(stack), "for cond">> \in Ideal!Follows /\ <<Top(stack), "for body">> \in Ideal!Follows
      BY <2>1, <1>0, InnerPhases, Phase DEF At, Ideal!Follows
    <3> QED
      BY <2>1, <3>1, FromOperand
  <2>2. CASE At({"for cond"}) /\ (GoTo("for body") \/ Return("done"))
    <3>1. /\ Top(stack) \in Operands /\ "for body" \in Phases \ Sections
          /\ <<Top(stack), "for body">> \in Ideal!Follows /\ Top(stack) \in Ideal!Completes
      BY <2>2, <1>0, InnerPhases, Phase DEF At, Ideal!Follows, Ideal!Completes
    <3> QED
      BY <2>2, <3>1, FromOperand
  <2>3. CASE At({"for body"})
    <3>1. /\ Top(stack) \in LoopBodies /\ "for incr" \in Phases \ Sections
          /\ <<Top(stack), "for incr">> \in Ideal!Follows
          /\ Top(stack) \notin {"for init", "for incr", "for cond"}
      BY <2>3, <1>0, InnerPhases, Phase DEF At, Ideal!Follows
    <3> QED
      BY <1>4, <3>1, FromLoop DEF forstat, At
  <2> QED
    BY <1>4, <2>1, <2>2, <2>3 DEF forstat
<1>5. CASE instat
  <2>1. /\ Top(stack) \in LoopBodies /\ "in body" \in Phases \ Sections
        /\ <<Top(stack), "in body">> \in Ideal!Follows /\ Top(stack) \in Ideal!Completes
    BY <1>5, <1>0, InnerPhases, Phase DEF instat, At, Ideal!Follows, Ideal!Completes
  <2> QED
    BY <1>5, <2>1, FromLoop DEF instat
<1>6. CASE dopa2
  <2>1. CASE At({"range begin"}) /\ (GoTo("range end") \/ Return("done"))
    <3>1. /\ Top(stack) \in Operands /\ "range end" \in Phases \ Sections
          /\ <<Top(stack), "range end">> \in Ideal!Follows /\ Top(stack) \in Ideal!Completes
      BY <2>1, <1>0, InnerPhases, Phase DEF At, Ideal!Follows, Ideal!Completes
    <3> QED
      BY <2>1, <3>1, FromOperand
  <2>2. CASE At({"range end"}) /\ GoTo("action")
    <3>1. /\ Top(stack) \in Operands /\ "action" \in Phases \ Sections
          /\ <<Top(stack), "action">> \in Ideal!Follows
      BY <2>2, <1>0, InnerPhases, Phase DEF At, Ideal!Follows
    <3> QED
      BY <2>2, <3>1, FromOperand
  <2>3. CASE At({"action"}) /\ Return(x)
    BY <2>3, FromBranch DEF At
  <2> QED
    BY <1>6, <2>1, <2>2, <2>3 DEF dopa2
<1>7. CASE operator
  <2>1. /\ Top(stack) \in Operands /\ "operand" \in Phases \ Sections
        /\ <<Top(stack), "operand">> \in Ideal!Follows /\ Top(stack) \in Ideal!Completes
    BY <1>7, <1>0, InnerPhases, Phase DEF operator, At, Ideal!Follows, Ideal!Completes
  <2> QED
    BY <1>7, <2>1, FromOperand DEF operator
<1> QED
  BY <1>1, <1>2, <1>3, <1>4, <1>5, <1>6, <1>7
-----------------------------------------------------------------------------
\* The end of a section.
LEMMA ProgramStep ==
  ASSUME ControlInv, UNCHANGED text, Returned, program
  PROVE  Ideal!Next \/ UNCHANGED Ideal!where
<1>1. Top(stack) \in {"BEGIN", "body", "END"} /\ stack # <<>>
  BY DEF program, At
<1>2. /\ stack \in Seq(Phases) /\ WellFormed(stack, text.sections) /\ Top(stack) \in Sections
  BY <1>1 DEF ControlInv, WellFormed, Sections
<1>3. stack = <<Top(stack)>> /\ stack[1] = Top(stack) /\ Len(stack) = 1
      /\ DOMAIN stack = 1..1
  BY <1>1, <1>2, SectionAlone, BelowFacts
<1>4. Top(stack) \in text.sections
  BY <1>2, <1>3 DEF WellFormed, Rooted
<1>5. ASSUME NEW kind, Top(stack) \notin kind PROVE ~Holds(stack, kind)
  BY <1>3, <1>5 DEF Holds
<1>6. x \in {"done", "exit", "next"}
  <2>1. ~Holds(stack, LoopBodies) /\ ~Holds(stack, {"function"})
    BY <1>1, <1>2, <1>5, Kinds
  <2>2. x \in Jumps => Legal(stack, x)
    BY DEF ControlInv, JumpLegal
  <2> QED
    BY <2>1, <2>2, AtList DEF Legal, InLoop, InFunction, Jumps
<1>7. CASE x = "exit"
  <2>1. ~Holds(stack, Operands)
    BY <1>2, <1>5, Kinds
  <2>2. Where = stack /\ Doing = "exit"
    BY <1>3, <1>7, <2>1 DEF Where, Doing, LandPlace, LandDoing, Jumps
  <2>3. CASE "END" \in text.sections /\ Top(stack) # "END"
    <3>1. GoTo("END")
      BY <1>1, <1>7, <2>3 DEF program, ToEnd, At
    <3>2. "END" \in Phases \ Operands
      BY Kinds DEF Sections
    <3>3. Where' = <<"END">> /\ Doing' = "go"
      BY <1>1, <1>2, <2>3, <3>1, <3>2, SectionAlone, NoJump DEF GoTo
    <3>4. Ideal!Set(<<"END">>, "go")
      BY <3>3, SetsTo
    <3>5. Where # <<"END">>
      BY <1>3, <2>2, <2>3
    <3>6. Ideal!Exit
      BY <2>2, <2>3, <3>4, <3>5 DEF Ideal!Exit, Where, Doing
    <3> QED
      BY <3>6 DEF Ideal!Next
  <2>4. CASE "END" \notin text.sections \/ Top(stack) = "END"
    <3>1. Over
      BY <1>1, <1>7, <2>4 DEF program, ToEnd, At
    <3>2. Where' = <<>> /\ Doing' = "over"
      BY <3>1, NoJump DEF Over
    <3>3. Ideal!Set(<<>>, "over")
      BY <3>2, SetsTo
    <3>4. ~(Where # <<"END">> /\ "END" \in text.sections)
      BY <1>3, <2>2, <2>4
    <3>5. Ideal!Exit
      BY <2>2, <3>3, <3>4 DEF Ideal!Exit, Where, Doing
    <3> QED
      BY <3>5 DEF Ideal!Next
  <2> QED
    BY <2>3, <2>4
<1>8. CASE x = "next" /\ Top(stack) # "body"
  <2>1. Where = <<>> /\ Doing = "error"
    BY <1>3, <1>8 DEF Where, Doing, LandPlace, LandDoing, Jumps
  <2>2. FATAL
    BY <1>1, <1>8 DEF program, At, Jumps
  <2>3. Where' = <<>> /\ Doing' = "error"
    BY <2>2, NoJump DEF FATAL
  <2> QED
    BY <2>1, <2>3 DEF Ideal!where, Where, Doing
<1>9. CASE x = "done" \/ (x = "next" /\ Top(stack) = "body")
  <2>1. Where = stack /\ Doing = "done"
    <3>1. CASE x = "done"
      BY <3>1, NoJump
    <3>2. CASE x = "next" /\ Top(stack) = "body"
      BY <3>2, <1>3 DEF Where, Doing, LandPlace, LandDoing, Jumps
    <3> QED
      BY <1>9, <3>1, <3>2
  <2>2. \/ "END" \in text.sections /\ GoTo("END") /\ Top(stack) # "END"
        \/ "body" \in text.sections /\ GoTo("body") /\ Top(stack) # "END"
        \/ ("END" \notin text.sections \/ Top(stack) = "END") /\ Over
    BY <1>1, <1>4, <1>9 DEF program, ToEnd, At, Jumps
  <2>3. ASSUME NEW p \in text.sections, p \in {"END", "body"}, GoTo(p), Top(stack) # "END"
        PROVE  Ideal!Next
    <3>1. <<Top(stack), p>> \in Ideal!Follows
      BY <1>1, <2>3 DEF Ideal!Follows
    <3> QED
      BY <1>1, <2>1, <2>3, <3>1, Advances
  <2>4. ASSUME "END" \notin text.sections \/ Top(stack) = "END", Over
        PROVE  Ideal!Next
    <3>1. Where' = <<>> /\ Doing' = "over"
      BY <2>4, NoJump DEF Over
    <3>2. Ideal!Set(<<>>, "over")
      BY <3>1, SetsTo
    <3>3. Where = <<"END">> \/ "END" \notin text.sections
      BY <1>3, <2>1, <2>4
    <3>4. Ideal!Finish /\ Ideal!Busy /\ Top(Where) \in Sections
      BY <1>1, <1>2, <2>1, <3>2, <3>3 DEF Ideal!Finish, Ideal!Busy, Where
    <3>5. Ideal!Advance
      BY <2>1, <3>4, SamePlaces DEF Ideal!Advance, Where, Doing
    <3> QED
      BY <3>5 DEF Ideal!Next
  <2> QED
    BY <2>2, <2>3, <2>4
<1> QED
  BY <1>1, <1>6, <1>7, <1>8, <1>9

LEMMA UpStep ==
  ASSUME ControlInv, Up, UNCHANGED text
  PROVE  Ideal!Next \/ UNCHANGED Ideal!where
<1>0. Returned /\ stack # <<>>
  BY DEF Up, Returned
<1>1. CASE ifstat \/ whilestat \/ dostat \/ forstat \/ instat \/ dopa2 \/ operator
  BY <1>0, <1>1, StatementStep
<1>2. CASE jumpWith
  <2>1. /\ \/ Top(stack) = "exit code" /\ x' = "exit"
           \/ Top(stack) = "return value" /\ x' = "return"
        /\ stack' = Below(stack)
    BY <1>2 DEF jumpWith, At, Return
  <2>2. Where = stack /\ Doing = "done"
    BY <1>0, <2>1, OperandThere, Phase
  <2>3. Where' = LandPlace(Below(Where), x') /\ Doing' = LandDoing(Below(Where), x')
    BY <2>1, <2>2 DEF Where, Doing, Jumps
  <2>4. Ideal!Set(LandPlace(Below(Where), x'), LandDoing(Below(Where), x'))
    BY <2>3, SetsTo
  <2>5. Ideal!Land(Below(Where), x') /\ Ideal!Busy
    BY <1>0, <2>2, <2>4, SamePlaces DEF Ideal!Land, Ideal!Busy, Where
  <2>6. Ideal!Jump
    BY <2>1, <2>2, <2>5, SamePlaces DEF Ideal!Jump, Where, Doing
  <2> QED
    BY <2>6 DEF Ideal!Next
<1>3. CASE Argument
  <2>1. Top(stack) \in Operands /\ GoTo("arguments") /\ <<Top(stack), "arguments">> \in Ideal!Follows
    BY <1>3, Phase DEF Argument, At, Ideal!Follows
  <2>2. "arguments" \in Phases \ Sections
    BY Phase DEF Callees
  <2> QED
    BY <1>0, <2>1, <2>2, FromOperand
<1>4. CASE Result
  <2>1. Top(stack) = "function" /\ Top(stack) \notin Sections /\ Top(stack) \notin Operands
        /\ Top(stack) \notin LoopBodies
    BY <1>4, Kinds DEF Result, At
  <2>2. x \in {"done", "exit", "return"}
    BY <1>0, <2>1, AtFunction
  <2>3. CASE x = "exit"
    <3>1. Return(x) /\ x \in Jumps /\ x # "return"
      BY <1>4, <2>3 DEF Result, Jumps
    <3> QED
      BY <1>0, <2>1, <3>1, Passes
  <2>4. CASE x = "return"
    <3>1. Return("done")
      BY <1>4, <2>4 DEF Result
    <3> QED
      BY <1>0, <2>1, <2>4, <3>1, FunctionThere, Lands
  <2>5. CASE x = "done"
    <3>1. Return("done") /\ Top(stack) \in Ideal!Completes
      BY <1>4, <2>1, <2>5 DEF Result, Ideal!Completes
    <3>2. Where = stack /\ Doing = "done"
      BY <2>5, NoJump
    <3> QED
      BY <1>0, <3>1, <3>2, Completes
  <2> QED
    BY <2>2, <2>3, <2>4, <2>5
<1>5. CASE program
  BY <1>0, <1>5, ProgramStep
<1> QED
  BY <1>1, <1>2, <1>3, <1>4, <1>5 DEF Up

LEMMA InitStructured ==
  ASSUME Init
  PROVE  Ideal!Init
<1>1. x = "go" /\ text \in Programs /\ stack \in {<<s>> : s \in Starting(text)}
  BY DEF Init
<1>2. Where = stack /\ Doing = "go"
  BY <1>1, NoJump
<1>3. Ideal!Starting(text) = Starting(text)
  BY DEF Ideal!Starting, Starting
<1> QED
  BY <1>1, <1>2, <1>3 DEF Ideal!Init, Where, Doing

\* The statements pass each jump to the one it is for: the machine of cells
\* that are returned implements the one in which jumps go where they should.
THEOREM ControlIsStructured == Spec => Ideal!Spec
<1>1. ControlInv /\ [Next]_control => [Ideal!Next]_(Ideal!where)
  <2>1. ASSUME ControlInv, Next PROVE Ideal!Next \/ UNCHANGED Ideal!where
    BY <2>1, DownStep, UpStep DEF Next
  <2>2. ASSUME UNCHANGED control PROVE UNCHANGED Ideal!where
    BY <2>2 DEF control, Ideal!where
  <2> QED
    BY <2>1, <2>2
<1> QED
  BY <1>1, InitStructured, ControlSafe, PTL DEF Spec, Ideal!Spec
-----------------------------------------------------------------------------
(* The functions called and their frames.                                  *)
\* Call k of c executes its body, in the place s.
RunsAt(s, c, k) == s[c[k].at] = "function"

\* m is the innermost of the first n calls that executes its body.
IsCurrent(s, c, n, m) ==
  \/ m = 0 /\ \A k \in 1..n : ~RunsAt(s, c, k)
  \/ m \in 1..n /\ RunsAt(s, c, m) /\ \A k \in 1..n : k > m => ~RunsAt(s, c, k)

CallRecord(S) == [at : Nat, ndef : S, args : S, callpar : S, prev : Nat]

\* The calls are the phases of the place that are calls, in this order.
Placed(s, c) ==
  /\ \A k \in DOMAIN c : c[k].at \in DOMAIN s /\ s[c[k].at] \in Callees
  /\ \A j, k \in DOMAIN c : j < k => c[j].at < c[k].at
  /\ \A i \in DOMAIN s : s[i] \in Callees => \E k \in DOMAIN c : c[k].at = i

\* A body comes back to the one around it.
ComesBack(s, c) == \A k \in DOMAIN c : RunsAt(s, c, k) => IsCurrent(s, c, k - 1, c[k].prev)

Frames(s, c, f) == /\ \E S : c \in Seq(CallRecord(S))
                   /\ Placed(s, c) /\ ComesBack(s, c)
                   /\ IsCurrent(s, c, Len(c), f)

FrameInv == x # "error" => Frames(stack, calls, fn)
-----------------------------------------------------------------------------
\* Every step of a program with its calls is a step of its statements.
LEMMA StepControls ==
  ASSUME CallsNext \/ Finished
  PROVE  (Next \/ UNCHANGED control)
<1>1. ASSUME NEW c, Statement(c), UNCHANGED text PROVE Next
  <2>1. Value
    BY <1>1, Kinds DEF Statement, Value, At
  <2> QED
    BY <1>1, <2>1 DEF Next, Down
<1>2. CASE BeginCall /\ UNCHANGED text
  BY <1>2 DEF BeginCall, Next, Down
<1>3. CASE PassPlain
  BY <1>3 DEF PassPlain
<1>4. CASE PassResult /\ UNCHANGED text
  <2>1. Argument /\ Returned
    BY <1>4 DEF PassResult, Argument, Returned, At
  <2> QED
    BY <1>4, <2>1 DEF Next, Up
<1>5. CASE StartBody /\ UNCHANGED text
  BY <1>5 DEF StartBody, Next, Down
<1>6. CASE EndCall /\ UNCHANGED text
  <2>1. Result /\ Returned
    BY <1>6 DEF EndCall, Result, Returned, At
  <2> QED
    BY <1>6, <2>1 DEF Next, Up
<1>7. CASE Other /\ UNCHANGED text
  BY <1>7 DEF Other, Next, Down, Up
<1>8. CASE Abandon /\ UNCHANGED text
  BY <1>8 DEF Abandon, Next, Down
<1>9. CASE Finished
  BY <1>9 DEF Finished, all
<1>10. ASSUME CallsNext PROVE Next \/ UNCHANGED control
  <2>1. ASSUME NEW c, assign(c) \/ awkgetline(c) \/ array(c) \/ awkdelete(c) PROVE \E d : Statement(d)
    BY <2>1 DEF assign, awkgetline, array, awkdelete
  <2> QED
    BY <1>1, <1>2, <1>3, <1>4, <1>5, <1>6, <1>7, <1>8, <1>10, <2>1 DEF CallsNext
<1> QED
  BY <1>9, <1>10

\* Calls refines ControlFlow.
THEOREM CallsControl == CallsSpec => Spec
<1>1. [CallsNext \/ Finished]_all => [Next]_control
  BY StepControls DEF all
<1>2. CallsInit => Init
  BY DEF CallsInit
<1> QED
  BY <1>1, <1>2, PTL DEF CallsSpec, Spec

\* Jumps go where they should, with the frames and cells of calls as well.
THEOREM CallsStructured == CallsSpec => ImplementsStructured
BY CallsControl, ControlIsStructured, PTL DEF ImplementsStructured
-----------------------------------------------------------------------------
\* A step that changes no phase of a call and no call.
LEMMA Quiet ==
  ASSUME NEW s \in Seq(Phases), NEW c, NEW f, Frames(s, c, f), NEW t \in Seq(Phases),
         \A i \in DOMAIN s : s[i] \in Callees => i \in DOMAIN t /\ t[i] = s[i],
         \A i \in DOMAIN t : t[i] \in Callees => i \in DOMAIN s /\ t[i] = s[i]
  PROVE  Frames(t, c, f)
<1>1. PICK S : c \in Seq(CallRecord(S))
  BY DEF Frames
<1>2. Placed(s, c) /\ ComesBack(s, c) /\ IsCurrent(s, c, Len(c), f)
  BY DEF Frames
<1>3. \A k \in DOMAIN c : RunsAt(s, c, k) <=> RunsAt(t, c, k)
  BY <1>2 DEF Placed, RunsAt
<1>4. DOMAIN c = 1..Len(c) /\ Len(c) \in Nat
  BY <1>1, LenProperties
<1>5. Placed(t, c)
  BY <1>2 DEF Placed
<1>6. ASSUME NEW n \in 0..Len(c), NEW m, IsCurrent(s, c, n, m) PROVE IsCurrent(t, c, n, m)
  BY <1>3, <1>4, <1>6 DEF IsCurrent
<1>7. ComesBack(t, c)
  BY <1>2, <1>3, <1>4, <1>6 DEF ComesBack
<1>8. IsCurrent(t, c, Len(c), f)
  BY <1>2, <1>4, <1>6
<1> QED
  BY <1>1, <1>5, <1>7, <1>8 DEF Frames
-----------------------------------------------------------------------------
LEMMA AllButLast ==
  ASSUME NEW n \in Nat
  PROVE  \A i \in 1..n : i # n => i \in 1..(n - 1)
OBVIOUS

\* What a place with its calls is made of.
LEMMA FrameFacts ==
  ASSUME NEW s \in Seq(Phases), NEW c, NEW f, Frames(s, c, f)
  PROVE  /\ DOMAIN c = 1..Len(c) /\ Len(c) \in Nat
         /\ DOMAIN s = 1..Len(s) /\ Len(s) \in Nat
         /\ \A k \in 1..Len(c) : c[k].at \in 1..Len(s) /\ s[c[k].at] \in Callees
         /\ \A j, k \in 1..Len(c) : j < k => c[j].at < c[k].at
         /\ \A i \in 1..Len(s) : s[i] \in Callees => \E k \in 1..Len(c) : c[k].at = i
         /\ \A k \in 1..Len(c) : RunsAt(s, c, k) => IsCurrent(s, c, k - 1, c[k].prev)
         /\ IsCurrent(s, c, Len(c), f) /\ f \in 0..Len(c)
<1>1. DOMAIN c = 1..Len(c) /\ Len(c) \in Nat /\ DOMAIN s = 1..Len(s) /\ Len(s) \in Nat
  BY LenProperties DEF Frames
<1>2. f \in 0..Len(c)
  BY <1>1 DEF Frames, IsCurrent
<1> QED
  BY <1>1, <1>2 DEF Frames, Placed, ComesBack

\* The phase on top is a call: the last one.
LEMMA LastIsTop ==
  ASSUME NEW s \in Seq(Phases), s # <<>>, NEW c, NEW f, Frames(s, c, f), Top(s) \in Callees
  PROVE  /\ Len(c) \in Nat \ {0} /\ c[Len(c)].at = Len(s)
         /\ \A k \in 1..(Len(c) - 1) : c[k].at \in 1..(Len(s) - 1)
<1> DEFINE n == Len(c)
<1>1. Len(s) \in Nat \ {0}
  BY BelowFacts
<1>2. PICK k \in 1..n : c[k].at = Len(s)
  BY <1>1, FrameFacts DEF Top
<1>3. n \in Nat /\ \A j \in 1..n : c[j].at \in 1..Len(s)
  BY FrameFacts
<1>4. \A i, j \in 1..n : i < j => c[i].at < c[j].at
  BY FrameFacts
<1> HIDE DEF n
<1>5. k = n
  <2>1. n \in 1..n /\ c[n].at <= Len(s)
    BY <1>2, <1>3, <1>1
  <2>2. k < n => c[k].at < c[n].at
    BY <1>2, <1>4, <2>1
  <2>3. ~(Len(s) < c[n].at) /\ c[n].at \in Nat
    BY <1>1, <1>3, <2>1
  <2>4. ~(k < n)
    BY <1>2, <2>2, <2>3
  <2> QED
    BY <1>2, <1>3, <2>4
<1>6. \A j \in 1..(n - 1) : c[j].at < Len(s)
  BY <1>2, <1>3, <1>4, <1>5
<1>7. \A j \in 1..(n - 1) : j \in 1..n
  BY <1>3
<1> QED
  BY <1>1, <1>2, <1>3, <1>5, <1>6, <1>7 DEF n

\* Arguments are added to the last call.
LEMMA SameCalls ==
  ASSUME NEW s, NEW c, NEW f, Frames(s, c, f), NEW S, NEW d \in Seq(CallRecord(S)),
         Len(d) = Len(c),
         \A k \in 1..Len(c) : d[k].at = c[k].at /\ d[k].prev = c[k].prev
  PROVE  Frames(s, d, f)
<1>1. DOMAIN c = 1..Len(c) /\ DOMAIN d = 1..Len(c) /\ Len(c) \in Nat
  BY LenProperties DEF Frames
<1>2. Placed(s, d)
  BY <1>1 DEF Frames, Placed
<1>3. \A k \in 1..Len(c) : RunsAt(s, c, k) <=> RunsAt(s, d, k)
  BY <1>1 DEF RunsAt
<1>4. ASSUME NEW n \in 0..Len(c), NEW m, IsCurrent(s, c, n, m) PROVE IsCurrent(s, d, n, m)
  BY <1>1, <1>3, <1>4 DEF IsCurrent
<1>5. ComesBack(s, d)
  BY <1>1, <1>3, <1>4 DEF Frames, ComesBack
<1>6. IsCurrent(s, d, Len(d), f)
  BY <1>1, <1>4 DEF Frames
<1> QED
  BY <1>2, <1>5, <1>6 DEF Frames

\* Three values of the last call.
Changed(c, a, b, p) ==
  [c EXCEPT ![Len(c)] = [c[Len(c)] EXCEPT !.args = a, !.callpar = b, !.prev = p]]
IsCalls(c, S) == c \in Seq(CallRecord(S))
OfLast(d, c, p, S) == /\ IsCalls(d, S) /\ Len(d) = Len(c)
                      /\ \A k \in 1..Len(c) : d[k].at = c[k].at
                      /\ \A k \in 1..(Len(c) - 1) : d[k].prev = c[k].prev
                      /\ d[Len(c)].prev = p

LEMMA SameRange ==
  ASSUME NEW m \in Nat, NEW n \in Nat \ {0}, 1..m = 1..n
  PROVE  m = n
<1>1. n \in 1..m
  <2>1. n \in 1..n
    OBVIOUS
  <2> QED
    BY ONLY <2>1, 1..m = 1..n
<1>2. m \in 1..m
  BY <1>1
<1>3. m \in 1..n
  BY ONLY <1>2, 1..m = 1..n
<1> QED
  BY <1>1, <1>3

LEMMA ChangeLast ==
  ASSUME NEW S, NEW c, IsCalls(c, S), Len(c) # 0, NEW a, NEW b, NEW p \in Nat
  PROVE  OfLast(Changed(c, a, b, p), c, p, S \cup {a, b})
<1> DEFINE T == S \cup {a, b}
<1> DEFINE d == Changed(c, a, b, p)
<1> DEFINE C == CallRecord(T)
<1> DEFINE new == [c[Len(c)] EXCEPT !.args = a, !.callpar = b, !.prev = p]
<1>1. DOMAIN c = 1..Len(c) /\ Len(c) \in Nat \ {0} /\ c \in Seq(CallRecord(S))
  BY LenProperties DEF IsCalls
<1>2. \A k \in 1..Len(c) : c[k] \in CallRecord(S)
  BY <1>1
<1>3. \A r \in CallRecord(S) : r \in C
  BY DEF CallRecord
<1>4. c[Len(c)] \in CallRecord(S)
  BY <1>1, <1>2
<1>5. new \in C /\ new.at = c[Len(c)].at /\ new.prev = p
  BY <1>4 DEF CallRecord
<1>6. d = [c EXCEPT ![Len(c)] = new]
  BY DEF Changed
<1> HIDE DEF new, T, C, d
<1>7. /\ DOMAIN d = 1..Len(c) /\ d = [k \in 1..Len(c) |-> d[k]]
      /\ \A k \in 1..Len(c) : d[k] = IF k = Len(c) THEN new ELSE c[k]
  BY <1>1, <1>6
<1>8. \A k \in 1..Len(c) : d[k] \in C
  BY <1>2, <1>3, <1>5, <1>7
<1>9. d \in Seq(C)
  <2>1. d \in [1..Len(c) -> C]
    BY <1>7, <1>8
  <2> QED
    BY <1>1, <2>1, SeqDef
<1>10. Len(d) = Len(c)
  <2>1. Len(d) \in Nat /\ DOMAIN d = 1..Len(d)
    BY <1>9, LenProperties
  <2>2. 1..Len(d) = 1..Len(c)
    BY <1>7, <2>1
  <2> QED
    BY <1>1, <2>1, <2>2, SameRange
<1>11. \A k \in 1..Len(c) : d[k].at = c[k].at
  BY <1>5, <1>7
<1>12. \A k \in 1..(Len(c) - 1) : d[k] = c[k]
  BY <1>1, <1>7
<1>13. d[Len(c)].prev = p
  BY <1>1, <1>5, <1>7
<1> QED
  BY <1>9, <1>10, <1>11, <1>12, <1>13 DEF T, C, d, IsCalls, OfLast
-----------------------------------------------------------------------------
\* The frames that are current, before and after the last call of a place.
LEMMA CurrentBelow ==
  ASSUME NEW s, NEW c, NEW t, NEW d, NEW n \in Nat, NEW m,
         \A k \in 1..n : RunsAt(s, c, k) <=> RunsAt(t, d, k),
         NEW j \in 0..n
  PROVE  IsCurrent(s, c, j, m) => IsCurrent(t, d, j, m)
BY DEF IsCurrent

\* A call begins with its arguments, in the frame of the caller.
LEMMA BeginFrames ==
  ASSUME NEW s \in Seq(Phases), NEW c, NEW f, Frames(s, c, f),
         NEW u, NEW v, NEW w
  PROVE  Frames(Append(s, "arguments"),
                Append(c, [at |-> Len(s) + 1, ndef |-> u, args |-> v, callpar |-> w, prev |-> 0]), f)
<1> DEFINE new == [at |-> Len(s) + 1, ndef |-> u, args |-> v, callpar |-> w, prev |-> 0]
<1> DEFINE t == Append(s, "arguments")
<1> DEFINE d == Append(c, new)
<1> DEFINE n == Len(c)
<1>1. "arguments" \in Callees /\ "arguments" \notin FunctionPhases /\ "function" \in FunctionPhases
  BY DEF Callees, FunctionPhases
<1>2. /\ t \in Seq(Phases) /\ DOMAIN t = 1..(Len(s) + 1) /\ t[Len(s) + 1] = "arguments"
      /\ \A i \in 1..Len(s) : t[i] = s[i]
  BY Kinds, AppendFacts
<1>3. PICK S : c \in Seq(CallRecord(S))
  BY DEF Frames
<1> DEFINE T == S \cup {u, v, w}
<1>4. \A r \in CallRecord(S) : r \in CallRecord(T)
  BY DEF CallRecord
<1>5. c \in Seq(CallRecord(T))
  BY <1>3, <1>4, SeqMonotonic
<1>6. Len(s) \in Nat
  BY LenProperties
<1>7. new \in CallRecord(T) /\ new.at = Len(s) + 1
  BY <1>6 DEF CallRecord
<1> HIDE DEF new, T
<1>8. /\ d \in Seq(CallRecord(T)) /\ Len(d) = n + 1 /\ n \in Nat
      /\ \A k \in 1..n : d[k] = c[k]
      /\ d[n + 1] = new
  BY <1>5, <1>7, AppendProperties, LenProperties
<1>9. DOMAIN d = 1..(n + 1)
  BY <1>8, LenProperties
<1> HIDE DEF t, d, n
<1>10. /\ \A k \in 1..n : c[k].at \in 1..Len(s) /\ s[c[k].at] \in Callees
       /\ \A j, k \in 1..n : j < k => c[j].at < c[k].at
       /\ \A i \in 1..Len(s) : s[i] \in Callees => \E k \in 1..n : c[k].at = i
       /\ \A k \in 1..n : RunsAt(s, c, k) => IsCurrent(s, c, k - 1, c[k].prev)
       /\ IsCurrent(s, c, n, f)
  BY FrameFacts DEF n
<1>11. Placed(t, d)
  <2>1. \A k \in 1..(n + 1) : d[k].at \in DOMAIN t /\ t[d[k].at] \in Callees
    <3> SUFFICES ASSUME NEW k \in 1..(n + 1) PROVE d[k].at \in DOMAIN t /\ t[d[k].at] \in Callees
      OBVIOUS
    <3>1. CASE k = n + 1
      <4>1. d[k].at = Len(s) + 1
        BY <3>1, <1>7, <1>8
      <4> QED
        BY <4>1, <1>1, <1>2, <1>6
    <3>2. CASE k \in 1..n
      <4>1. d[k].at = c[k].at /\ c[k].at \in 1..Len(s) /\ s[c[k].at] \in Callees
        BY <3>2, <1>8, <1>10
      <4>2. c[k].at \in 1..(Len(s) + 1)
        BY <4>1, <1>6
      <4> QED
        BY <4>1, <4>2, <1>2
    <3> QED
      BY <3>1, <3>2, <1>8
  <2>2. \A j, k \in 1..(n + 1) : j < k => d[j].at < d[k].at
    <3> SUFFICES ASSUME NEW j \in 1..(n + 1), NEW k \in 1..(n + 1), j < k
                 PROVE  d[j].at < d[k].at
      OBVIOUS
    <3>1. j \in 1..n /\ d[j].at = c[j].at /\ c[j].at \in 1..Len(s)
      BY <1>8, <1>10
    <3>2. CASE k = n + 1
      <4>1. d[k].at = Len(s) + 1
        BY <3>2, <1>7, <1>8
      <4> QED
        BY <4>1, <3>1, <1>6
    <3>3. CASE k \in 1..n
      BY <3>1, <3>3, <1>8, <1>10
    <3> QED
      BY <3>2, <3>3, <1>8
  <2>3. \A i \in DOMAIN t : t[i] \in Callees => \E k \in DOMAIN d : d[k].at = i
    <3> SUFFICES ASSUME NEW i \in 1..(Len(s) + 1), t[i] \in Callees
                 PROVE  \E k \in 1..(n + 1) : d[k].at = i
      BY <1>2, <1>9
    <3>1. CASE i = Len(s) + 1
      BY <3>1, <1>7, <1>8
    <3>2. CASE i \in 1..Len(s)
      <4>1. PICK k \in 1..n : c[k].at = i
        BY <3>2, <1>2, <1>10
      <4> QED
        BY <4>1, <1>8
    <3> QED
      BY <3>1, <3>2, <1>6
  <2> QED
    BY <2>1, <2>2, <2>3, <1>9 DEF Placed
<1>12. \A k \in 1..n : RunsAt(s, c, k) <=> RunsAt(t, d, k)
  BY <1>2, <1>8, <1>10 DEF RunsAt
<1>13. ~RunsAt(t, d, n + 1)
  BY <1>1, <1>2, <1>7, <1>8 DEF RunsAt, FunctionPhases
<1>14. \A m : \A j \in 0..n : IsCurrent(s, c, j, m) => IsCurrent(t, d, j, m)
  BY <1>8, <1>12, CurrentBelow
<1>15. ComesBack(t, d)
  <2> SUFFICES ASSUME NEW k \in 1..n, RunsAt(t, d, k) PROVE IsCurrent(t, d, k - 1, d[k].prev)
    BY <1>8, <1>9, <1>13 DEF ComesBack
  <2>1. IsCurrent(s, c, k - 1, c[k].prev) /\ k - 1 \in 0..n
    BY <1>8, <1>10, <1>12
  <2> QED
    BY <2>1, <1>8, <1>14
<1>16. IsCurrent(t, d, n + 1, f)
  <2>1. IsCurrent(t, d, n, f)
    BY <1>8, <1>10, <1>14
  <2> QED
    BY <2>1, <1>8, <1>13 DEF IsCurrent
<1> QED
  BY <1>8, <1>11, <1>15, <1>16 DEF Frames, d, t, new
\* The body begins: the frame is the new one, which remembers the last.
LEMMA StartFrames ==
  ASSUME NEW s \in Seq(Phases), s # <<>>, NEW c, NEW f, Frames(s, c, f),
         Top(s) = "arguments",
         NEW S, NEW d \in Seq(CallRecord(S)), Len(d) = Len(c),
         \A k \in 1..Len(c) : d[k].at = c[k].at,
         \A k \in 1..(Len(c) - 1) : d[k].prev = c[k].prev,
         d[Len(c)].prev = f
  PROVE  Frames(Turn(s, "function"), d, Len(c))
<1> DEFINE t == Turn(s, "function")
<1> DEFINE n == Len(c)
<1>1. /\ "arguments" \in Callees /\ "arguments" \notin FunctionPhases
      /\ "function" \in FunctionPhases /\ "function" \in Callees /\ "function" \in Phases
  BY Kinds DEF Callees, FunctionPhases
<1>2. /\ t \in Seq(Phases) /\ DOMAIN t = 1..Len(s) /\ t[Len(s)] = "function"
      /\ \A i \in 1..(Len(s) - 1) : t[i] = s[i]
      /\ DOMAIN s = 1..Len(s) /\ Len(s) \in Nat \ {0} /\ s[Len(s)] = "arguments"
  BY <1>1, TurnFacts, BelowFacts DEF Top
<1>3. /\ n \in Nat \ {0} /\ c[n].at = Len(s)
      /\ \A k \in 1..(n - 1) : c[k].at \in 1..(Len(s) - 1)
  BY <1>1, LastIsTop
<1>4. /\ \A k \in 1..n : c[k].at \in 1..Len(s) /\ s[c[k].at] \in Callees
      /\ \A j, k \in 1..n : j < k => c[j].at < c[k].at
      /\ \A i \in 1..Len(s) : s[i] \in Callees => \E k \in 1..n : c[k].at = i
      /\ \A k \in 1..n : RunsAt(s, c, k) => IsCurrent(s, c, k - 1, c[k].prev)
      /\ IsCurrent(s, c, n, f)
  <2>1. IsCurrent(s, c, Len(c), f)
    BY DEF Frames
  <2> HIDE DEF t
  <2> QED
    BY <2>1, FrameFacts
<1>5. DOMAIN d = 1..n
  BY LenProperties
<1> HIDE DEF t, n
<1>6. \A i \in 1..Len(s) : t[i] \in Callees <=> s[i] \in Callees
  <2> SUFFICES ASSUME NEW i \in 1..Len(s) PROVE t[i] \in Callees <=> s[i] \in Callees
    OBVIOUS
  <2>1. CASE i = Len(s)
    BY <2>1, <1>1, <1>2
  <2>2. CASE i # Len(s)
    <3>1. i \in 1..(Len(s) - 1)
      BY <2>2, <1>2, AllButLast
    <3> QED
      BY <3>1, <1>2
  <2> QED
    BY <2>1, <2>2
<1>7. Placed(t, d)
  <2>1. \A k \in 1..n : d[k].at \in DOMAIN t /\ t[d[k].at] \in Callees
    BY <1>2, <1>4, <1>6 DEF n
  <2>2. \A j, k \in 1..n : j < k => d[j].at < d[k].at
    BY <1>4 DEF n
  <2>3. \A i \in 1..Len(s) : t[i] \in Callees => \E k \in 1..n : d[k].at = i
    BY <1>4, <1>6 DEF n
  <2> QED
    BY <2>1, <2>2, <2>3, <1>2, <1>5 DEF Placed
<1>8. \A k \in 1..(n - 1) : RunsAt(s, c, k) <=> RunsAt(t, d, k)
  <2> SUFFICES ASSUME NEW k \in 1..(n - 1) PROVE t[d[k].at] = s[c[k].at]
    BY DEF RunsAt
  <2>1. k \in 1..Len(c) /\ c[k].at \in 1..(Len(s) - 1)
    BY <1>3 DEF n
  <2> QED
    BY <2>1, <1>2
<1>9. RunsAt(t, d, n)
  <2>1. d[n].at = Len(s)
    BY <1>3 DEF n
  <2> QED
    BY <2>1, <1>2 DEF RunsAt
<1>10. ~RunsAt(s, c, n)
  BY <1>1, <1>2, <1>3 DEF RunsAt, FunctionPhases
<1>11. n - 1 \in Nat
  BY <1>3
<1>12. \A m : \A j \in 0..(n - 1) : IsCurrent(s, c, j, m) => IsCurrent(t, d, j, m)
  BY <1>8, <1>11, CurrentBelow
<1>13. IsCurrent(s, c, n - 1, f)
  BY <1>3, <1>4, <1>10 DEF IsCurrent
<1>14. ComesBack(t, d)
  <2> SUFFICES ASSUME NEW k \in 1..n, RunsAt(t, d, k) PROVE IsCurrent(t, d, k - 1, d[k].prev)
    BY <1>5 DEF ComesBack
  <2>1. CASE k = n
    <3>1. IsCurrent(t, d, n - 1, f)
      BY <1>11, <1>12, <1>13
    <3> QED
      BY <2>1, <3>1 DEF n
  <2>2. CASE k # n
    <3>1. k \in 1..(n - 1) /\ k - 1 \in 0..(n - 1)
      BY <2>2, <1>3
    <3>2. IsCurrent(s, c, k - 1, c[k].prev)
      BY <3>1, <1>4, <1>8
    <3>3. d[k].prev = c[k].prev
      BY <3>1 DEF n
    <3> QED
      BY <3>1, <3>2, <3>3, <1>12
  <2> QED
    BY <2>1, <2>2
<1>15. IsCurrent(t, d, n, n)
  BY <1>3, <1>9 DEF IsCurrent
<1> QED
  BY <1>7, <1>14, <1>15 DEF Frames, t, n

\* A call ends: its caller's frame is the one that was remembered.
LEMMA EndFrames ==
  ASSUME NEW s \in Seq(Phases), s # <<>>, NEW c, NEW f, Frames(s, c, f),
         Top(s) = "function"
  PROVE  Frames(Below(s), SubSeq(c, 1, Len(c) - 1), c[Len(c)].prev)
<1> DEFINE t == Below(s)
<1> DEFINE n == Len(c)
<1> DEFINE d == SubSeq(c, 1, n - 1)
<1>1. "function" \in FunctionPhases /\ "function" \in Callees
  BY DEF Callees, FunctionPhases
<1>2. /\ t \in Seq(Phases) /\ DOMAIN t = 1..(Len(s) - 1)
      /\ \A i \in 1..(Len(s) - 1) : t[i] = s[i]
      /\ DOMAIN s = 1..Len(s) /\ Len(s) \in Nat \ {0} /\ s[Len(s)] = "function"
  BY BelowFacts DEF Top
<1>3. /\ n \in Nat \ {0} /\ c[n].at = Len(s)
      /\ \A k \in 1..(n - 1) : c[k].at \in 1..(Len(s) - 1)
  BY <1>1, LastIsTop
<1>4. /\ \A k \in 1..n : c[k].at \in 1..Len(s) /\ s[c[k].at] \in Callees
      /\ \A j, k \in 1..n : j < k => c[j].at < c[k].at
      /\ \A i \in 1..Len(s) : s[i] \in Callees => \E k \in 1..n : c[k].at = i
      /\ \A k \in 1..n : RunsAt(s, c, k) => IsCurrent(s, c, k - 1, c[k].prev)
  BY FrameFacts
<1>5. PICK S : c \in Seq(CallRecord(S))
  BY DEF Frames
<1>6. /\ d \in Seq(CallRecord(S)) /\ Len(d) = n - 1 /\ DOMAIN d = 1..(n - 1)
      /\ \A k \in 1..(n - 1) : d[k] = c[k]
  <2> DEFINE C == CallRecord(S)
  <2>1. n - 1 \in Nat /\ n - 1 <= Len(c) /\ c \in Seq(C)
    BY <1>3, <1>5
  <2> DEFINE q == n - 1
  <2> HIDE DEF C, q
  <2>2. q \in Nat /\ q <= Len(c)
    BY <2>1 DEF q
  <2>3. /\ SubSeq(c, 1, q) \in Seq(C)
        /\ Len(SubSeq(c, 1, q)) = IF 1 <= q THEN q - 1 + 1 ELSE 0
        /\ \A i \in 1..(q - 1 + 1) : SubSeq(c, 1, q)[i] = c[1 + i - 1]
    BY <2>1, <2>2, SubSeqProperties
  <2>4. Len(SubSeq(c, 1, q)) = q /\ \A i \in 1..q : SubSeq(c, 1, q)[i] = c[i]
    BY <2>2, <2>3
  <2>5. DOMAIN SubSeq(c, 1, q) = 1..q
    BY <2>3, <2>4, LenProperties
  <2> QED
    BY <2>3, <2>4, <2>5 DEF C, q
<1> HIDE DEF t, n, d
<1>7. Placed(t, d)
  <2>1. \A k \in 1..(n - 1) : d[k].at \in DOMAIN t /\ t[d[k].at] \in Callees
    <3> SUFFICES ASSUME NEW k \in 1..(n - 1) PROVE d[k].at \in DOMAIN t /\ t[d[k].at] \in Callees
      OBVIOUS
    <3>1. k \in 1..n /\ d[k] = c[k] /\ c[k].at \in 1..(Len(s) - 1) /\ t[c[k].at] = s[c[k].at]
      BY <1>2, <1>3, <1>6
    <3> QED
      BY <3>1, <1>2, <1>4
  <2>2. \A j, k \in 1..(n - 1) : j < k => d[j].at < d[k].at
    BY <1>3, <1>4, <1>6
  <2>3. \A i \in DOMAIN t : t[i] \in Callees => \E k \in DOMAIN d : d[k].at = i
    <3> SUFFICES ASSUME NEW i \in 1..(Len(s) - 1), t[i] \in Callees
                 PROVE  \E k \in 1..(n - 1) : d[k].at = i
      BY <1>2, <1>6
    <3>1. PICK k \in 1..n : c[k].at = i
      <4>1. i \in 1..Len(s) /\ s[i] \in Callees
        BY <1>2
      <4> QED
        BY <4>1, <1>4
    <3>2. i # Len(s)
      <4> DEFINE l == Len(s)
      <4>1. l \in Nat /\ i \in 1..(l - 1)
        BY <1>2
      <4> HIDE DEF l
      <4>2. i # l
        BY <4>1
      <4> QED
        BY <4>2 DEF l
    <3>3. k # n
      BY <3>1, <3>2, <1>3
    <3>4. k \in 1..(n - 1)
      BY <3>3, <1>3
    <3> QED
      BY <3>1, <3>4, <1>6
  <2> QED
    BY <2>1, <2>2, <2>3, <1>6 DEF Placed
<1>8. \A k \in 1..(n - 1) : RunsAt(s, c, k) <=> RunsAt(t, d, k)
  <2> SUFFICES ASSUME NEW k \in 1..(n - 1) PROVE t[d[k].at] = s[c[k].at]
    BY DEF RunsAt
  <2> QED
    BY <1>2, <1>3, <1>6
<1>9. n - 1 \in Nat
  BY <1>3
<1>10. \A m : \A j \in 0..(n - 1) : IsCurrent(s, c, j, m) => IsCurrent(t, d, j, m)
  BY <1>8, <1>9, CurrentBelow
<1>11. ComesBack(t, d)
  <2> SUFFICES ASSUME NEW k \in 1..(n - 1), RunsAt(t, d, k) PROVE IsCurrent(t, d, k - 1, d[k].prev)
    BY <1>6 DEF ComesBack
  <2>1. k \in 1..n /\ k - 1 \in 0..(n - 1) /\ RunsAt(s, c, k)
    BY <1>3, <1>8
  <2>2. IsCurrent(s, c, k - 1, c[k].prev)
    BY <2>1, <1>4
  <2> QED
    BY <2>1, <2>2, <1>6, <1>10
<1>12. IsCurrent(t, d, n - 1, c[n].prev)
  <2>1. RunsAt(s, c, n) /\ n \in 1..n
    BY <1>2, <1>3 DEF RunsAt
  <2>2. IsCurrent(s, c, n - 1, c[n].prev)
    BY <2>1, <1>4
  <2> QED
    BY <2>2, <1>9, <1>10
<1> QED
  BY <1>6, <1>7, <1>11, <1>12 DEF Frames, t, n, d
-----------------------------------------------------------------------------
\* The interpreter is at work.
Working == stack # <<>> /\ Frames(stack, calls, fn) /\ stack \in Seq(Phases)

\* A step inside the statements of one function.
Inside ==
  \/ UNCHANGED stack /\ Top(stack) # "arguments"
  \/ Top(stack) # "arguments" /\ \E p \in Phases \ Callees : stack' = Append(stack, p)
  \/ Top(stack) \notin Callees /\ \E p \in Phases \ Callees : stack' = Turn(stack, p)
  \/ Top(stack) \notin Callees /\ stack' = Below(stack)
  \/ stack' = <<>> /\ \A i \in DOMAIN stack : stack[i] \notin Callees

LEMMA InnerStep ==
  ASSUME Working, UNCHANGED <<calls, fn>>, UNCHANGED stack \/ Inside
  PROVE  FrameInv'
<1>1. /\ DOMAIN stack = 1..Len(stack) /\ Len(stack) \in Nat \ {0}
      /\ Frames(stack, calls, fn) /\ stack \in Seq(Phases)
  BY BelowFacts DEF Working
<1> SUFFICES Frames(stack', calls, fn)
  BY DEF FrameInv
<1>2. CASE UNCHANGED stack
  BY <1>1, <1>2
<1>3. ASSUME NEW p \in Phases \ Callees, stack' = Append(stack, p)
      PROVE  Frames(stack', calls, fn)
  <2>1. /\ stack' \in Seq(Phases) /\ DOMAIN stack' = 1..(Len(stack) + 1)
        /\ \A i \in 1..Len(stack) : stack'[i] = stack[i]
        /\ stack'[Len(stack) + 1] \notin Callees
    BY <1>1, <1>3, AppendFacts
  <2>2. \A i \in 1..Len(stack) : i \in DOMAIN stack' /\ stack'[i] = stack[i]
    BY <1>1, <2>1
  <2>3. \A i \in DOMAIN stack' : stack'[i] \in Callees => i \in 1..Len(stack)
    BY <1>1, <2>1
  <2> QED
    BY <1>1, <2>1, <2>2, <2>3, Quiet
<1>4. ASSUME NEW p \in Phases \ Callees, Top(stack) \notin Callees, stack' = Turn(stack, p)
      PROVE  Frames(stack', calls, fn)
  <2>1. /\ stack' \in Seq(Phases) /\ DOMAIN stack' = 1..Len(stack)
        /\ \A i \in 1..(Len(stack) - 1) : stack'[i] = stack[i]
        /\ stack'[Len(stack)] \notin Callees /\ stack[Len(stack)] \notin Callees
    BY <1>1, <1>4, TurnFacts DEF Top, Working
  <2>2. \A i \in 1..Len(stack) : i # Len(stack) => stack'[i] = stack[i]
    BY <1>1, <2>1, AllButLast
  <2> QED
    BY <1>1, <2>1, <2>2, Quiet
<1>5. ASSUME Top(stack) \notin Callees, stack' = Below(stack)
      PROVE  Frames(stack', calls, fn)
  <2>1. /\ stack' \in Seq(Phases) /\ DOMAIN stack' = 1..(Len(stack) - 1)
        /\ \A i \in 1..(Len(stack) - 1) : stack'[i] = stack[i]
        /\ stack[Len(stack)] \notin Callees
    BY <1>1, <1>5, BelowFacts DEF Top, Working
  <2>2. \A i \in 1..Len(stack) : i # Len(stack) => i \in 1..(Len(stack) - 1)
    BY <1>1, AllButLast
  <2>3. \A i \in 1..(Len(stack) - 1) : i \in 1..Len(stack)
    BY <1>1
  <2> QED
    BY <1>1, <2>1, <2>2, <2>3, Quiet
<1>6. ASSUME stack' = <<>>, \A i \in DOMAIN stack : stack[i] \notin Callees
      PROVE  Frames(stack', calls, fn)
  <2>1. stack' \in Seq(Phases) /\ DOMAIN stack' = {}
    BY <1>6, EmptySeq
  <2> QED
    BY <1>1, <1>6, <2>1, Quiet
<1> QED
  BY <1>2, <1>3, <1>4, <1>5, <1>6 DEF Inside

\* The phases the statements go on with are none of calls.
LEMMA NotCallees ==
  /\ {"branch", "while body", "while cond", "do cond", "do body", "for cond", "for body",
      "for incr", "in body", "range end", "action", "operand", "BEGIN", "body", "END"}
       \subseteq Phases \ Callees
  /\ Starts \ {"arguments"} \subseteq Phases \ Callees
  /\ Sections \cap Callees = {}
BY DEF Phases, Lists, Operands, Sections, LoopBodies, Conditions, Starts, Callees

LEMMA StatementsInside ==
  ASSUME Working,
         ifstat \/ whilestat \/ dostat \/ forstat \/ instat \/ dopa2 \/ operator \/ jumpWith
  PROVE  Inside
<1>1. ASSUME NEW P, P \cap Callees = {}, At(P), NEW p \in Phases \ Callees, GoTo(p)
      PROVE  Inside
  BY <1>1 DEF At, GoTo, Inside
<1>2. ASSUME NEW P, P \cap Callees = {}, At(P), NEW r, Return(r)
      PROVE  Inside
  BY <1>2 DEF At, Return, Inside
<1>3. ASSUME NEW P, P \cap Callees = {}, At(P), NEW r, NEW p \in Phases \ Callees,
             GoTo(p) \/ Return(r)
      PROVE  Inside
  BY <1>1, <1>2, <1>3
<1>4. CASE ifstat
  <2>1. {"if cond"} \cap Callees = {} /\ {"branch"} \cap Callees = {}
    BY DEF Callees
  <2>2. "branch" \in Phases \ Callees
    BY NotCallees
  <2> QED
    BY <1>1, <1>2, <1>4, <2>1, <2>2 DEF ifstat
<1>5. CASE whilestat
  <2>1. {"while cond"} \cap Callees = {} /\ {"while body"} \cap Callees = {}
    BY DEF Callees
  <2>2. "while body" \in Phases \ Callees /\ "while cond" \in Phases \ Callees
    BY NotCallees
  <2> QED
    BY <1>1, <1>2, <1>5, <2>1, <2>2 DEF whilestat
<1>6. CASE dostat
  <2>1. {"do cond"} \cap Callees = {} /\ {"do body"} \cap Callees = {}
    BY DEF Callees
  <2>2. "do body" \in Phases \ Callees /\ "do cond" \in Phases \ Callees
    BY NotCallees
  <2> QED
    BY <1>1, <1>2, <1>6, <2>1, <2>2 DEF dostat
<1>7. CASE forstat
  <2>1. /\ {"for init", "for incr"} \cap Callees = {} /\ {"for cond"} \cap Callees = {}
        /\ {"for body"} \cap Callees = {}
    BY DEF Callees
  <2>2. {"for cond", "for body", "for incr"} \subseteq Phases \ Callees
    BY NotCallees
  <2> QED
    BY <1>1, <1>2, <1>7, <2>1, <2>2 DEF forstat
<1>8. CASE instat
  <2>1. {"in body"} \cap Callees = {}
    BY DEF Callees
  <2>2. "in body" \in Phases \ Callees
    BY NotCallees
  <2> QED
    BY <1>1, <1>2, <1>8, <2>1, <2>2 DEF instat
<1>9. CASE dopa2
  <2>1. /\ {"range begin"} \cap Callees = {} /\ {"range end"} \cap Callees = {}
        /\ {"action"} \cap Callees = {}
    BY DEF Callees
  <2>2. "range end" \in Phases \ Callees /\ "action" \in Phases \ Callees
    BY NotCallees
  <2> QED
    BY <1>1, <1>2, <1>9, <2>1, <2>2 DEF dopa2
<1>10. CASE operator
  <2>1. {"operand"} \cap Callees = {}
    BY DEF Callees
  <2>2. "operand" \in Phases \ Callees
    BY NotCallees
  <2> QED
    BY <1>1, <1>2, <1>10, <2>1, <2>2 DEF operator
<1>11. CASE jumpWith
  <2>1. {"exit code"} \cap Callees = {} /\ {"return value"} \cap Callees = {}
    BY DEF Callees
  <2> QED
    BY <1>2, <1>11, <2>1 DEF jumpWith
<1> QED
  BY <1>4, <1>5, <1>6, <1>7, <1>8, <1>9, <1>10, <1>11

LEMMA ProgramInside ==
  ASSUME Working, ControlInv, program
  PROVE  Inside
<1>1. WellFormed(stack, text.sections) /\ stack # <<>>
  BY DEF ControlInv, Working
<1>2. ASSUME Top(stack) \in Sections, GoTo("body") \/ GoTo("END") PROVE Inside
  <2>1. Top(stack) \notin Callees /\ {"body", "END"} \subseteq Phases \ Callees
    BY <1>2, NotCallees
  <2> QED
    BY <1>2, <2>1 DEF GoTo, Inside
<1>3. ASSUME Top(stack) \in Sections, Over \/ FATAL PROVE Inside
  <2>1. Len(stack) = 1 /\ stack[1] = Top(stack) /\ DOMAIN stack = 1..Len(stack)
    BY <1>1, <1>3, SectionAlone, BelowFacts DEF WellFormed
  <2>2. Top(stack) \notin Callees
    BY <1>3, NotCallees
  <2>3. \A i \in DOMAIN stack : stack[i] \notin Callees
    BY <2>1, <2>2
  <2> QED
    BY <1>3, <2>3 DEF Over, FATAL, Inside
<1>4. At({"BEGIN"}) \/ At({"body"}) \/ At({"END"}) => Top(stack) \in Sections
  BY DEF At, Sections
<1> QED
  BY <1>2, <1>3, <1>4 DEF program, ToEnd

LEMMA OtherInside ==
  ASSUME Working, ControlInv, Other
  PROVE  Inside
<1>1. "arguments" \notin Lists
  BY Kinds
<1>2. ASSUME NEW p \in text.constructs \ {"arguments"}, Enter(p) PROVE Inside
  <2>1. p \in Phases \ Callees
    BY Programmed, NotCallees DEF ControlInv
  <2> QED
    BY <1>1, <1>2, <2>1 DEF Enter, At, Inside
<1>3. ASSUME NEW j \in Jumps, jump(j) PROVE Inside
  BY <1>1, <1>3 DEF jump, At, Inside
<1>4. CASE Value \/ NextStatement
  BY <1>1, <1>4 DEF Value, NextStatement, At, Inside
<1> QED
  BY <1>2, <1>3, <1>4, StatementsInside, ProgramInside DEF Other

\* The record of the last call.
LEMMA LastCall ==
  ASSUME Working, Top(stack) \in Callees
  PROVE  \E S : /\ calls \in Seq(CallRecord(S)) /\ Last \in Nat \ {0}
                /\ calls[Last] \in CallRecord(S)
<1>1. PICK S : calls \in Seq(CallRecord(S))
  BY DEF Working, Frames
<1>2. Last \in Nat \ {0} /\ DOMAIN calls = 1..Last
  BY <1>1, LastIsTop, LenProperties DEF Working, Last
<1> QED
  BY <1>1, <1>2

\* An argument.
LEMMA PassFrames ==
  ASSUME Working, Top(stack) \in Callees, NEW y, NEW v, Pass(y, v), UNCHANGED <<stack, fn>>
  PROVE  FrameInv'
<1>1. PICK S : /\ calls \in Seq(CallRecord(S)) /\ Last \in Nat \ {0}
              /\ calls[Last] \in CallRecord(S)
  BY LastCall
<1> DEFINE t == IF v \in Arrays THEN y ELSE Own(Last, Len(calls[Last].args) + 1)
<1> DEFINE a == Append(calls[Last].args, t)
<1> DEFINE b == Append(calls[Last].callpar, y)
<1>2. calls' = [calls EXCEPT ![Last].args = a, ![Last].callpar = b]
  BY DEF Pass
<1> HIDE DEF a, b
<1>3. calls' = Changed(calls, a, b, calls[Last].prev)
  <2>1. [calls[Last] EXCEPT !.args = a, !.callpar = b]
          = [calls[Last] EXCEPT !.args = a, !.callpar = b, !.prev = calls[Last].prev]
    BY <1>1 DEF CallRecord
  <2>2. Last \in DOMAIN calls
    BY <1>1, LenProperties DEF Last
  <2> QED
    BY <1>1, <1>2, <2>1, <2>2 DEF Changed, Last
<1>4. calls[Last].prev \in Nat
  BY <1>1 DEF CallRecord
<1>5. /\ calls' \in Seq(CallRecord(S \cup {a, b})) /\ Len(calls') = Last
      /\ \A k \in 1..Last : calls'[k].at = calls[k].at
      /\ \A k \in 1..(Last - 1) : calls'[k].prev = calls[k].prev
      /\ calls'[Last].prev = calls[Last].prev
  <2> DEFINE q == calls[Last].prev
  <2>1. Len(calls) # 0 /\ q \in Nat /\ calls' = Changed(calls, a, b, q)
    BY <1>1, <1>3, <1>4 DEF Last
  <2>3. IsCalls(calls, S)
    BY <1>1 DEF IsCalls
  <2> HIDE DEF q
  <2>2. OfLast(calls', calls, q, S \cup {a, b})
    BY ONLY <2>1, <2>3, ChangeLast
  <2> QED
    BY <2>2 DEF Last, q, IsCalls, OfLast
<1>6. \A k \in 1..Last : calls'[k].prev = calls[k].prev
  BY <1>1, <1>5, AllButLast
<1>7. Frames(stack, calls', fn)
  BY <1>1, <1>5, <1>6, SameCalls DEF Working, Last
<1> QED
  BY <1>7 DEF FrameInv

LEMMA BodyFrames ==
  ASSUME Working, StartBody
  PROVE  FrameInv'
<1>1. Top(stack) = "arguments" /\ stack' = Turn(stack, "function") /\ fn' = Last
  BY DEF StartBody, Body, At, GoTo
<1>2. Top(stack) \in Callees
  BY <1>1 DEF Callees
<1>3. PICK S : /\ calls \in Seq(CallRecord(S)) /\ Last \in Nat \ {0}
              /\ calls[Last] \in CallRecord(S)
  BY <1>2, LastCall
<1> DEFINE a == [n \in 1..calls[Last].ndef |-> IF n <= Len(calls[Last].args)
                                               THEN calls[Last].args[n] ELSE Own(Last, n)]
<1> DEFINE b == [n \in 1..calls[Last].ndef |-> IF n <= Len(calls[Last].args)
                                               THEN calls[Last].callpar[n] ELSE Unset]
<1>4. calls' = Changed(calls, a, b, fn)
  BY DEF StartBody, Changed, Last
<1> HIDE DEF a, b
<1>5. fn \in Nat
  BY FrameFacts DEF Working
<1>6. /\ calls' \in Seq(CallRecord(S \cup {a, b})) /\ Len(calls') = Last
      /\ \A k \in 1..Last : calls'[k].at = calls[k].at
      /\ \A k \in 1..(Last - 1) : calls'[k].prev = calls[k].prev
      /\ calls'[Last].prev = fn
  <2>1. Len(calls) # 0 /\ IsCalls(calls, S)
    BY <1>3 DEF Last, IsCalls
  <2>2. OfLast(calls', calls, fn, S \cup {a, b})
    BY ONLY <1>4, <1>5, <2>1, ChangeLast
  <2> QED
    BY <2>2 DEF Last, IsCalls, OfLast
<1>7. Frames(Turn(stack, "function"), calls', Last)
  BY <1>1, <1>6, StartFrames DEF Working, Last
<1> QED
  BY <1>1, <1>7 DEF FrameInv

\* A phase that is turned into itself.
LEMMA TopTurned ==
  ASSUME NEW s \in Seq(Phases), s # <<>>, NEW p \in Phases, Top(s) = p
  PROVE  Turn(s, p) = s
<1> DEFINE t == Turn(s, p)
<1>1. /\ DOMAIN s = 1..Len(s) /\ Len(s) \in Nat \ {0}
      /\ t \in Seq(Phases) /\ Len(t) = Len(s)
      /\ \A i \in 1..(Len(s) - 1) : t[i] = s[i]
      /\ t[Len(s)] = p /\ s[Len(s)] = p
  BY BelowFacts, TurnFacts DEF Top
<1> HIDE DEF t
<1>2. \A i \in 1..Len(s) : t[i] = s[i]
  BY <1>1, AllButLast
<1>3. t = s
  BY <1>1, <1>2, SeqEqual
<1> QED
  BY <1>3 DEF t

LEMMA FrameStep ==
  ASSUME ControlInv, FrameInv, CallsNext \/ Finished
  PROVE  FrameInv'
<1>1. CASE UNCHANGED <<stack, x, calls, fn>>
  BY <1>1 DEF FrameInv
<1>2. ASSUME stack # <<>> PROVE Working
  BY <1>2 DEF ControlInv, WellFormed, Working, FrameInv
<1>3. ASSUME NEW c, assign(c) \/ awkgetline(c) \/ array(c) \/ awkdelete(c) PROVE FrameInv'
  BY <1>2, <1>3, InnerStep DEF assign, awkgetline, array, awkdelete, Statement, At
<1>4. CASE BeginCall
  <2>1. stack # <<>> /\ stack' = Append(stack, "arguments")
    BY <1>4 DEF BeginCall, Enter, CallIn, At
  <2>2. PICK u : calls' = Append(calls, [at |-> Len(stack) + 1, ndef |-> u, args |-> <<>>,
                                         callpar |-> <<>>, prev |-> 0])
    BY <1>4 DEF BeginCall
  <2>3. fn' = fn
    BY <1>4 DEF BeginCall
  <2>4. Working
    BY <1>2, <2>1
  <2>5. Frames(Append(stack, "arguments"), Append(calls, [at |-> Len(stack) + 1, ndef |-> u,
                 args |-> <<>>, callpar |-> <<>>, prev |-> 0]), fn)
    BY <2>4, BeginFrames DEF Working
  <2> QED
    BY <2>1, <2>2, <2>3, <2>5 DEF FrameInv
<1>5. CASE PassPlain
  <2>1. stack # <<>> /\ Top(stack) \in Callees /\ UNCHANGED <<stack, fn>>
    BY <1>5 DEF PassPlain, At, control, Callees
  <2>2. \E y, v : Pass(y, v)
    BY <1>5 DEF PassPlain
  <2> QED
    BY <1>2, <2>1, <2>2, PassFrames
<1>6. CASE PassResult
  <2>1. stack # <<>> /\ Top(stack) = "arguments" /\ fn' = fn /\ stack' = Turn(stack, "arguments")
    BY <1>6 DEF PassResult, Argument, At, GoTo
  <2>2. stack' = stack
    <3>1. stack \in Seq(Phases) /\ "arguments" \in Phases
      BY Kinds DEF ControlInv, WellFormed
    <3> QED
      BY <2>1, <3>1, TopTurned
  <2>3. CASE UNCHANGED calls
    BY <1>2, <2>1, <2>2, <2>3, InnerStep
  <2>4. ASSUME NEW y, NEW v, Pass(y, v) PROVE FrameInv'
    <3>1. Top(stack) \in Callees
      BY <2>1 DEF Callees
    <3> QED
      BY <1>2, <2>1, <2>2, <2>4, <3>1, PassFrames
  <2> QED
    BY <1>6, <2>3, <2>4 DEF PassResult
<1>7. CASE StartBody
  <2>1. stack # <<>>
    BY <1>7 DEF StartBody, Body, At
  <2> QED
    BY <1>2, <1>7, <2>1, BodyFrames
<1>8. CASE EndCall
  <2>1. stack # <<>> /\ Top(stack) = "function" /\ stack' = Below(stack)
    BY <1>8 DEF EndCall, Result, At, Return
  <2>2. calls' = SubSeq(calls, 1, Len(calls) - 1) /\ fn' = calls[Len(calls)].prev
    BY <1>8 DEF EndCall, Last, restored
  <2> QED
    BY <1>2, <2>1, <2>2, EndFrames DEF Working, FrameInv
<1>9. CASE Other
  <2>1. CASE stack = <<>>
    <3>1. x \in {"over", "error"}
      BY <2>1 DEF ControlInv
    <3>2. FALSE
      BY <1>9, <2>1, <3>1 DEF Other, Enter, jump, Value, NextStatement, Returned, At
    <3> QED
      BY <3>2
  <2> QED
    BY <1>2, <1>9, <2>1, OtherInside, InnerStep DEF Other
<1>10. CASE Abandon
  BY <1>10 DEF Abandon, Error, FATAL, FrameInv
<1>11. CASE Finished
  BY <1>1, <1>11 DEF Finished, all, control, store
<1> QED
  BY <1>3, <1>4, <1>5, <1>6, <1>7, <1>8, <1>9, <1>10, <1>11 DEF CallsNext
-----------------------------------------------------------------------------
LEMMA FrameStart ==
  ASSUME CallsInit, text \in Programs
  PROVE  FrameInv
<1>1. PICK p : stack = <<p>> /\ p \in Sections
  <2>1. Starting(text) \subseteq Sections
    BY Programmed DEF Starting, Sections
  <2> QED
    BY <2>1 DEF CallsInit, Init
<1>2. p \notin Callees
  BY <1>1, NotCallees
<1>3. DOMAIN stack = {1} /\ stack[1] = p
  BY <1>1
<1>4. calls = <<>> /\ fn = 0
  BY DEF CallsInit
<1>5. \A S : <<>> \in Seq(CallRecord(S))
  OBVIOUS
<1>6. Len(calls) = 0 /\ DOMAIN calls = {}
  BY <1>4
<1>7. Placed(stack, calls)
  BY <1>2, <1>3, <1>6 DEF Placed
<1>8. ComesBack(stack, calls)
  BY <1>6 DEF ComesBack
<1>9. IsCurrent(stack, calls, Len(calls), fn)
  BY <1>4, <1>6 DEF IsCurrent
<1> QED
  BY <1>4, <1>5, <1>7, <1>8, <1>9 DEF FrameInv, Frames

\* The frame that is current is the one of the function that runs.
LEMMA FrameOwn ==
  ASSUME ControlInv, FrameInv
  PROVE  FrameIsOwn
<1> SUFFICES ASSUME x # "error" PROVE fn = Function
  BY DEF FrameIsOwn
<1>1. /\ DOMAIN calls = 1..Len(calls) /\ Len(calls) \in Nat
      /\ IsCurrent(stack, calls, Len(calls), fn)
  BY FrameFacts DEF ControlInv, WellFormed, FrameInv
<1>2. \A k : Runs(k) <=> RunsAt(stack, calls, k)
  BY DEF Runs, RunsAt
<1>3. CASE fn = 0 /\ \A k \in DOMAIN calls : ~Runs(k)
  BY <1>3 DEF Function
<1>4. CASE fn \in DOMAIN calls /\ Runs(fn) /\ \A k \in DOMAIN calls : k > fn => ~Runs(k)
  <2>1. \A k \in DOMAIN calls : Runs(k) /\ (\A m \in DOMAIN calls : m > k => ~Runs(m)) => k = fn
    BY <1>1, <1>4
  <2> QED
    BY <1>4, <2>1 DEF Function
<1> QED
  BY <1>1, <1>2, <1>3, <1>4 DEF IsCurrent

\* interp->fn is the frame of the function whose text runs, in every program
\* and to any depth of calls.
THEOREM FrameAlwaysOwn == CallsSpec => []FrameIsOwn
<1>1. CallsSpec => []ControlInv
  BY CallsControl, ControlSafe, PTL
<1>2. ControlInv /\ FrameInv /\ [CallsNext \/ Finished]_all => FrameInv'
  <2>1. CASE UNCHANGED all
    BY <2>1 DEF all, control, store, FrameInv
  <2> QED
    BY <2>1, FrameStep
<1>3. CallsInit => FrameInv
  BY FrameStart DEF CallsInit, Init
<1>4. ControlInv /\ FrameInv => FrameIsOwn
  BY FrameOwn
<1> QED
  BY <1>1, <1>2, <1>3, <1>4, PTL DEF CallsSpec

\* A step inside a function moves no call: the same ones execute their bodies.
Moves == \A k \in 1..Len(calls) : Runs(k)' = Runs(k)

LEMMA InsideMoves ==
  ASSUME Working, UNCHANGED calls, UNCHANGED stack \/ Inside
  PROVE  Moves
<1>1. /\ DOMAIN stack = 1..Len(stack) /\ Len(stack) \in Nat \ {0} /\ stack \in Seq(Phases)
      /\ stack # <<>>
  BY BelowFacts DEF Working
<1>2. \A k \in 1..Len(calls) : calls[k].at \in 1..Len(stack) /\ stack[calls[k].at] \in Callees
  BY FrameFacts DEF Working
<1> SUFFICES ASSUME NEW i \in 1..Len(stack), stack[i] \in Callees
             PROVE  stack'[i] = stack[i]
  BY <1>2 DEF Moves, Runs
<1>3. CASE UNCHANGED stack
  BY <1>3
<1>4. ASSUME NEW p \in Phases, stack' = Append(stack, p) PROVE stack'[i] = stack[i]
  BY <1>1, <1>4, AppendFacts
<1>5. ASSUME Top(stack) \notin Callees PROVE i \in 1..(Len(stack) - 1)
  <2>1. i # Len(stack)
    BY <1>5 DEF Top
  <2> QED
    BY <1>1, <2>1, AllButLast
<1>6. ASSUME NEW p \in Phases, Top(stack) \notin Callees, stack' = Turn(stack, p)
      PROVE  stack'[i] = stack[i]
  BY <1>1, <1>5, <1>6, TurnFacts
<1>7. ASSUME Top(stack) \notin Callees, stack' = Below(stack) PROVE stack'[i] = stack[i]
  BY <1>1, <1>5, <1>7, BelowFacts
<1> QED
  BY <1>1, <1>3, <1>4, <1>6, <1>7 DEF Inside
-----------------------------------------------------------------------------
(* Memory that is not the call's own.  A program that passes no expression *)
(* has no call among the arguments of another.                             *)
Plain == ~text.expressions =>
           /\ \A i \in 1..(Len(stack) - 1) : stack[i] # "arguments"
           /\ At({"arguments"}) => x = "go"

PlainArguments == ~text.expressions =>
  \A k \in 1..Len(calls) : \A n \in 1..Len(calls[k].args) :
    calls[k].callpar[n] \notin {Freed, Constant}

PlainMove ==
  \/ UNCHANGED stack /\ Top(stack) # "arguments"
  \/ Top(stack) # "arguments" /\ \E p \in Phases \ {"arguments"} : stack' = Append(stack, p)
  \/ \E p \in Phases \ {"arguments"} : stack' = Turn(stack, p)
  \/ stack' = Below(stack)
  \/ stack' = <<>>

LEMMA MovePlain ==
  ASSUME Working, Plain, PlainMove, UNCHANGED text
  PROVE  Plain'
<1> SUFFICES ASSUME ~text.expressions
             PROVE  /\ \A i \in 1..(Len(stack') - 1) : stack'[i] # "arguments"
                    /\ ~At({"arguments"})'
  BY DEF Plain
<1>1. /\ DOMAIN stack = 1..Len(stack) /\ Len(stack) \in Nat \ {0} /\ stack \in Seq(Phases)
      /\ stack # <<>>
  BY BelowFacts DEF Working
<1>2. /\ \A i \in 1..(Len(stack) - 1) : stack[i] # "arguments"
  BY DEF Plain
<1>4. ASSUME Top(stack) # "arguments" PROVE \A i \in 1..Len(stack) : stack[i] # "arguments"
  BY <1>1, <1>2, <1>4, AllButLast DEF Top
<1>5. CASE UNCHANGED stack /\ Top(stack) # "arguments"
  BY <1>2, <1>5 DEF At
<1>6. ASSUME NEW p \in Phases \ {"arguments"}, Top(stack) # "arguments", stack' = Append(stack, p)
      PROVE  /\ \A i \in 1..(Len(stack') - 1) : stack'[i] # "arguments"
             /\ ~At({"arguments"})'
  <2>1. /\ Len(stack') = Len(stack) + 1 /\ stack'[Len(stack) + 1] = p
        /\ \A i \in 1..Len(stack) : stack'[i] = stack[i]
    BY <1>1, <1>6, AppendFacts
  <2>2. Len(stack') - 1 = Len(stack)
    BY <1>1, <2>1
  <2> QED
    BY <1>4, <1>6, <2>1, <2>2 DEF At, Top
<1>7. ASSUME NEW p \in Phases \ {"arguments"}, stack' = Turn(stack, p)
      PROVE  /\ \A i \in 1..(Len(stack') - 1) : stack'[i] # "arguments"
             /\ ~At({"arguments"})'
  <2>1. /\ Len(stack') = Len(stack) /\ Top(stack') = p
        /\ \A i \in 1..(Len(stack) - 1) : stack'[i] = stack[i]
    BY <1>1, <1>7, TurnFacts
  <2> QED
    BY <1>2, <2>1 DEF At
<1>8. ASSUME stack' = Below(stack)
      PROVE  /\ \A i \in 1..(Len(stack') - 1) : stack'[i] # "arguments"
             /\ ~At({"arguments"})'
  <2>1. /\ Len(stack') = Len(stack) - 1 /\ DOMAIN stack' = 1..(Len(stack) - 1)
        /\ \A i \in 1..(Len(stack) - 1) : stack'[i] = stack[i]
        /\ stack' \in Seq(Phases)
    BY <1>1, <1>8, BelowFacts
  <2>2. stack' # <<>> => Len(stack') \in 1..(Len(stack) - 1)
    BY <2>1, EmptySeq, <1>1
  <2>3. \A i \in 1..(Len(stack') - 1) : i \in 1..(Len(stack) - 1)
    BY <1>1, <2>1
  <2> QED
    BY <1>2, <2>1, <2>2, <2>3 DEF At, Top
<1>9. ASSUME stack' = <<>>
      PROVE  /\ \A i \in 1..(Len(stack') - 1) : stack'[i] # "arguments"
             /\ ~At({"arguments"})'
  <2>1. Len(stack') = 0
    BY <1>9
  <2>2. 1..(Len(stack') - 1) = {}
    BY <2>1
  <2> QED
    BY <1>9, <2>2 DEF At
<1> QED
  BY <1>5, <1>6, <1>7, <1>8, <1>9 DEF PlainMove

LEMMA PlainStep ==
  ASSUME ControlInv, FrameInv, Plain, CallsNext \/ Finished
  PROVE  Plain'
<1>1. /\ "arguments" \notin Lists /\ "function" \in Phases \ {"arguments"}
      /\ "arguments" \in Callees
  BY Kinds DEF Callees
<1>2. CASE UNCHANGED control
  BY <1>2 DEF control, Plain, At
<1>3. Finished => UNCHANGED control
  BY DEF Finished, all
<1> SUFFICES ASSUME CallsNext, stack # <<>> PROVE Plain'
  <2>1. CASE stack = <<>> /\ CallsNext
    <3>1. x \in {"over", "error"}
      BY <2>1 DEF ControlInv
    <3>2. UNCHANGED control
      BY <2>1, <3>1 DEF CallsNext, assign, awkgetline, array, awkdelete, Statement, BeginCall,
        Enter, CallIn, PassPlain, PassResult, Argument, StartBody, Body, EndCall, Result, Other, jump, Value,
        NextStatement, Returned, Abandon, Error, At
    <3> QED
      BY <1>2, <3>2
  <2> QED
    BY <1>2, <1>3, <2>1
<1>4. Working /\ UNCHANGED text
  BY DEF ControlInv, WellFormed, Working, FrameInv, CallsNext
<1>5. ASSUME Inside PROVE Plain'
  <2>1. PlainMove
    BY <1>1, <1>5 DEF Inside, PlainMove
  <2> QED
    BY <1>4, <2>1, MovePlain
<1>6. ASSUME NEW c, assign(c) \/ awkgetline(c) \/ array(c) \/ awkdelete(c) PROVE Plain'
  <2>1. Inside
    BY <1>1, <1>6 DEF assign, awkgetline, array, awkdelete, Statement, At, Inside
  <2> QED
    BY <1>5, <2>1
<1>7. CASE BeginCall
  <2> SUFFICES ASSUME ~text.expressions
               PROVE  /\ \A i \in 1..(Len(stack') - 1) : stack'[i] # "arguments"
                      /\ At({"arguments"})' => x' = "go"
    BY <1>4 DEF Plain
  <2>1. stack' = Append(stack, "arguments") /\ x' = "go" /\ Top(stack) # "arguments"
    BY <1>1, <1>7 DEF BeginCall, Enter, CallIn, At
  <2>2. /\ DOMAIN stack = 1..Len(stack) /\ Len(stack) \in Nat \ {0} /\ stack \in Seq(Phases)
        /\ "arguments" \in Phases
    BY <1>4, BelowFacts, Kinds DEF Working
  <2>3. /\ Len(stack') - 1 = Len(stack)
        /\ \A i \in 1..Len(stack) : stack'[i] = stack[i]
    BY <2>1, <2>2, AppendFacts
  <2>4. \A i \in 1..Len(stack) : stack[i] # "arguments"
    BY <2>1, <2>2, AllButLast DEF Plain, Top
  <2> QED
    BY <2>1, <2>3, <2>4
<1>8. CASE PassPlain
  BY <1>2, <1>8 DEF PassPlain
<1>9. CASE PassResult
  <2>1. text.expressions
    BY <1>9 DEF PassResult, Argument, Plain, At
  <2> QED
    BY <1>4, <2>1 DEF Plain
<1>10. CASE StartBody
  <2>1. PlainMove
    BY <1>1, <1>10 DEF StartBody, Body, GoTo, PlainMove
  <2> QED
    BY <1>4, <2>1, MovePlain
<1>11. CASE EndCall
  <2>1. PlainMove
    BY <1>11 DEF EndCall, Result, Return, PlainMove
  <2> QED
    BY <1>4, <2>1, MovePlain
<1>12. CASE Abandon
  <2>1. PlainMove
    BY <1>12 DEF Abandon, Error, FATAL, PlainMove
  <2> QED
    BY <1>4, <2>1, MovePlain
<1> QED
  BY <1>4, <1>5, <1>6, <1>7, <1>8, <1>9, <1>10, <1>11, <1>12, OtherInside DEF CallsNext
-----------------------------------------------------------------------------
(* The cells.  A parameter has a cell of its own, with a value, or is the  *)
(* cell of the array it was passed: that of a variable, or of a parameter  *)
(* of a call further out.  That cell stays an array unless a record is     *)
(* read into it.                                                           *)
Values == Scalars \cup Arrays

HasCell(k, n) == n \in 1..Len(calls[k].args) /\ calls[k].args[n] = Own(k, n)

\* c is the cell of a variable, or of a parameter of the first m calls.
Owned(c, m) ==
  \/ \E g \in Globals : c = Global(g)
  \/ \E k \in 1..m : \E n \in 1..Len(calls[k].args) : c = Own(k, n) /\ HasCell(k, n)

Bound(k, n) ==
  LET a == calls[k].args[n]
      p == calls[k].callpar[n]
  IN \/ /\ a = Own(k, n) /\ cell[a] \in Values
        /\ p \in {Null, Freed, Constant} \/ Owned(p, k - 1)
     \/ /\ a = p /\ Owned(p, k - 1) /\ cell[p] \in Values
        /\ cell[p] \in Arrays \/ text.getlines

CallTyped(c) == /\ c.ndef \in 0..MaxParams
                /\ c.args \in Seq(Cells) /\ c.callpar \in Seq(Cells \cup {Null, Freed})
                /\ Len(c.args) = Len(c.callpar) /\ Len(c.args) <= c.ndef

CallSound(k) == /\ CallTyped(calls[k])
                /\ Runs(k) => Len(calls[k].args) = calls[k].ndef
                /\ \A n \in 1..Len(calls[k].args) : Bound(k, n)

CellsTyped == /\ cell \in [Cells -> Values \cup {NoValue}]
              /\ \A g \in Globals : cell[Global(g)] \in Values
              /\ cell[Constant] \in Scalars

CellsSound == CellsTyped /\ Len(calls) <= text.calls /\ \A k \in 1..Len(calls) : CallSound(k)

MemoryInv == fault = "none" => CellsSound

\* What a step may do to a cell that calls share.
Persists(c) == cell'[c] \in Values /\ (cell[c] \in Arrays => cell'[c] \in Arrays \/ text.getlines)

\* A working interpreter, its memory in order.
Sound == ControlInv /\ Working /\ CellsSound /\ fault = "none"
-----------------------------------------------------------------------------
LEMMA Bounds ==
  /\ 0 \notin Globals /\ MaxParams \in Nat /\ MaxCalls \in Nat
  /\ \A p \in Programs : /\ p.names \subseteq Globals
                         /\ p.params \in 0..MaxParams /\ p.calls \in 0..MaxCalls
BY CallsAssumption

\* Cells are told apart.
LEMMA CellsApart ==
  /\ Null # Freed /\ Null # Constant /\ Freed # Constant
  /\ \A g \in Globals : Global(g) \notin {Null, Freed, Constant}
  /\ \A n : \A k \in Nat \ {0} : Own(k, n) \notin {Null, Freed, Constant}
  /\ \A g, h \in Globals : Global(g) = Global(h) => g = h
  /\ \A n : \A k \in Nat \ {0} : \A g : Own(k, n) # Global(g)
  /\ \A j, k, m, n : Own(j, m) = Own(k, n) => j = k /\ m = n
<1>1. Null # Freed /\ Null # Constant /\ Freed # Constant
  BY DEF Null, Freed, Constant
<1>2. \A g \in Globals : Global(g) \notin {Null, Freed, Constant}
  BY Bounds DEF Null, Freed, Constant, Global
<1>3. \A n : \A k \in Nat \ {0} : Own(k, n) \notin {Null, Freed, Constant}
  BY DEF Null, Freed, Constant, Own
<1>4. \A n : \A k \in Nat \ {0} : \A g : Own(k, n) # Global(g)
  BY DEF Own, Global
<1>5. \A g, h \in Globals : Global(g) = Global(h) => g = h
  BY DEF Global
<1>6. \A j, k, m, n : Own(j, m) = Own(k, n) => j = k /\ m = n
  BY DEF Own
<1> QED
  BY <1>1, <1>2, <1>3, <1>4, <1>5, <1>6

LEMMA ValuesApart ==
  /\ Scalars \cap Arrays = {} /\ NoValue \notin Values /\ "shared" \notin Values
  /\ "scalar" \in Scalars /\ "array" \in Arrays /\ "empty array" \in Arrays
  /\ Scalars \subseteq Values /\ Arrays \subseteq Values
BY DEF Values, Scalars, Arrays, NoValue

LEMMA CellsAre ==
  /\ Constant \in Cells
  /\ \A g \in Globals : Global(g) \in Cells
  /\ \A k \in 1..MaxCalls, n \in 1..MaxParams : Own(k, n) \in Cells
  /\ \A c \in Cells : c \notin {Null, Freed}
  /\ \A c \in Cells : c = Constant \/ (\E g \in Globals : c = Global(g))
                        \/ \E k \in 1..MaxCalls, n \in 1..MaxParams : c = Own(k, n)
<1>1. \A c \in Cells : c = Constant \/ (\E g \in Globals : c = Global(g))
                        \/ \E k \in 1..MaxCalls, n \in 1..MaxParams : c = Own(k, n)
  BY DEF Cells
<1>2. \A k \in 1..MaxCalls : k \in Nat \ {0}
  BY Bounds
<1>3. \A c \in Cells : c \notin {Null, Freed}
  BY <1>1, <1>2, CellsApart
<1> QED
  BY <1>1, <1>3 DEF Cells

\* The sizes of calls.
LEMMA CallSizes ==
  ASSUME Sound
  PROVE  /\ DOMAIN calls = 1..Last /\ Last \in Nat /\ Last <= MaxCalls
         /\ \A k \in 1..Last :
              /\ k \in 1..MaxCalls /\ k \in Nat \ {0}
              /\ Len(calls[k].args) \in Nat /\ DOMAIN calls[k].args = 1..Len(calls[k].args)
              /\ DOMAIN calls[k].callpar = 1..Len(calls[k].args)
              /\ Len(calls[k].args) <= calls[k].ndef /\ calls[k].ndef \in 0..MaxParams
              /\ \A n \in 1..Len(calls[k].args) : n \in 1..MaxParams
<1>1. DOMAIN calls = 1..Last /\ Last \in Nat
  BY FrameFacts DEF Sound, Working, Last
<1>2. Last <= MaxCalls
  <2>1. Last <= text.calls /\ text.calls \in 0..MaxCalls /\ MaxCalls \in Nat
    BY Bounds DEF Sound, ControlInv, CellsSound, Last
  <2> QED
    BY ONLY <1>1, <2>1
<1> SUFFICES ASSUME NEW k \in 1..Last
             PROVE  /\ k \in 1..MaxCalls /\ k \in Nat \ {0}
                    /\ Len(calls[k].args) \in Nat /\ DOMAIN calls[k].args = 1..Len(calls[k].args)
                    /\ DOMAIN calls[k].callpar = 1..Len(calls[k].args)
                    /\ Len(calls[k].args) <= calls[k].ndef /\ calls[k].ndef \in 0..MaxParams
                    /\ \A n \in 1..Len(calls[k].args) : n \in 1..MaxParams
  BY <1>1, <1>2
<1>3. k \in 1..MaxCalls /\ k \in Nat \ {0}
  BY <1>1, <1>2, Bounds
<1>4. CallTyped(calls[k])
  BY DEF Sound, CellsSound, CallSound, Last
<1>5. /\ Len(calls[k].args) \in Nat /\ DOMAIN calls[k].args = 1..Len(calls[k].args)
      /\ DOMAIN calls[k].callpar = 1..Len(calls[k].args)
  BY <1>4, LenProperties DEF CallTyped
<1>6. Len(calls[k].args) <= calls[k].ndef /\ calls[k].ndef \in 0..MaxParams
  BY <1>4 DEF CallTyped
<1>7. \A n \in 1..Len(calls[k].args) : n \in 1..MaxParams
  BY ONLY <1>5, <1>6, Bounds
<1> QED
  BY <1>3, <1>5, <1>6, <1>7

\* Cells that can be named are cells of variables or parameters, with values.
LEMMA OwnedFacts ==
  ASSUME Sound, NEW m \in 0..Last, NEW c, Owned(c, m)
  PROVE  /\ c \in Cells /\ c \notin {Null, Freed, Constant} /\ cell[c] \in Values
         /\ Owned(c, Last)
         /\ \A n : \A k \in (m + 1)..Last : c # Own(k, n)
<1>1. Last \in Nat /\ m \in Nat
  BY CallSizes
<1>2. CASE \E g \in Globals : c = Global(g)
  <2>1. \A k \in (m + 1)..Last : k \in Nat \ {0}
    BY <1>1
  <2> QED
    BY <1>2, <2>1, CellsAre, CellsApart DEF Sound, CellsSound, CellsTyped, Owned
<1>3. ASSUME NEW k \in 1..m, NEW n \in 1..Len(calls[k].args), c = Own(k, n), HasCell(k, n)
      PROVE  /\ c \in Cells /\ c \notin {Null, Freed, Constant} /\ cell[c] \in Values
             /\ Owned(c, Last)
             /\ \A i : \A j \in (m + 1)..Last : c # Own(j, i)
  <2>1. k \in 1..Last
    BY <1>1
  <2>2. k \in 1..MaxCalls /\ k \in Nat \ {0} /\ n \in 1..MaxParams
    BY <2>1, CallSizes
  <2>3. Bound(k, n)
    BY <2>1 DEF Sound, CellsSound, CallSound, Last
  <2>4. cell[c] \in Values
    BY <1>3, <2>3, ValuesApart DEF Bound, HasCell
  <2>5. \A j \in (m + 1)..Last : j # k
    BY <1>1
  <2> QED
    BY <1>3, <2>1, <2>2, <2>4, <2>5, CellsAre, CellsApart DEF Owned
<1> QED
  BY <1>2, <1>3 DEF Owned

\* The first m calls keep their arguments, and no value of theirs turns from
\* an array into a scalar by anything but getline.
LEMMA KeepsCalls ==
  ASSUME Sound, NEW m \in 0..Last, UNCHANGED text,
         \A k \in 1..m : /\ calls'[k].args = calls[k].args /\ calls'[k].ndef = calls[k].ndef
                         /\ calls'[k].callpar = calls[k].callpar
                         /\ Runs(k)' <=> Runs(k),
         \A c : Owned(c, m) => Persists(c)
  PROVE  /\ \A k \in 1..m : CallSound(k)'
         /\ \A j \in 0..m : \A c : Owned(c, j)' <=> Owned(c, j)
         /\ \A k \in 1..m : \A n : HasCell(k, n)' <=> HasCell(k, n)
<1>1. Last \in Nat /\ m \in Nat /\ \A k \in 1..m : k \in 1..Last
  BY CallSizes
<1>2. \A k \in 1..m : \A n : HasCell(k, n)' <=> HasCell(k, n)
  BY DEF HasCell
<1>3. ASSUME NEW j \in 0..m, NEW c PROVE Owned(c, j)' <=> Owned(c, j)
  <2>1. \A k \in 1..j : k \in 1..m
    BY <1>1
  <2> QED
    BY <1>2, <2>1 DEF Owned
<1>4. ASSUME NEW j \in 0..m, NEW c, Owned(c, j) PROVE Owned(c, m)
  <2>1. \A k \in 1..j : k \in 1..m
    BY <1>1
  <2> QED
    BY <1>4, <2>1 DEF Owned
<1>5. ASSUME NEW k \in 1..m PROVE CallSound(k)'
  <2>1. CallSound(k)
    BY <1>1 DEF Sound, CellsSound, Last
  <2>2. k - 1 \in 0..m /\ k \in 0..m /\ k \in 1..k
    BY <1>1
  <2>3. CallTyped(calls[k])'
    BY <2>1 DEF CallSound, CallTyped
  <2>4. ASSUME NEW n \in 1..Len(calls[k].args) PROVE Bound(k, n)'
    <3>1. Bound(k, n)
      BY <2>1 DEF CallSound
    <3>2. calls'[k].args[n] = calls[k].args[n] /\ calls'[k].callpar[n] = calls[k].callpar[n]
      OBVIOUS
    <3>3. \A c : Owned(c, k - 1)' <=> Owned(c, k - 1)
      BY <1>3, <2>2
    <3>4. CASE calls[k].args[n] = Own(k, n)
      <4>1. Owned(Own(k, n), k)
        BY <3>4, <2>2 DEF Owned, HasCell
      <4>2. cell'[Own(k, n)] \in Values
        BY <4>1, <1>4, <2>2 DEF Persists
      <4> QED
        BY <3>1, <3>2, <3>3, <3>4, <4>2 DEF Bound
    <3>5. CASE calls[k].args[n] # Own(k, n)
      <4>1. /\ calls[k].args[n] = calls[k].callpar[n] /\ Owned(calls[k].callpar[n], k - 1)
            /\ cell[calls[k].callpar[n]] \in Arrays \/ text.getlines
        BY <3>1, <3>5 DEF Bound
      <4>2. /\ cell'[calls[k].callpar[n]] \in Values
            /\ cell'[calls[k].callpar[n]] \in Arrays \/ text'.getlines
        BY <4>1, <1>4, <2>2 DEF Persists
      <4> QED
        BY <3>2, <3>3, <4>1, <4>2 DEF Bound
    <3> QED
      BY <3>4, <3>5
  <2> QED
    BY <2>1, <2>3, <2>4 DEF CallSound
<1> QED
  BY <1>2, <1>3, <1>5
-----------------------------------------------------------------------------
(* Names as Environments has them.                                         *)
LEMMA FrameRuns ==
  ASSUME Sound
  PROVE  /\ Function = fn /\ fn \in 0..Last
         /\ fn # 0 => Runs(fn)
         /\ \A k \in 1..Last : k > fn => ~Runs(k)
<1>1. x # "error" /\ FrameInv
  BY DEF Sound, Working, ControlInv, FrameInv
<1>2. Function = fn
  BY <1>1, FrameOwn DEF Sound, FrameIsOwn
<1>3. IsCurrent(stack, calls, Last, fn) /\ Last \in Nat
  BY FrameFacts DEF Sound, Working, Last
<1>4. \A k : Runs(k) <=> RunsAt(stack, calls, k)
  BY DEF Runs, RunsAt
<1> QED
  BY <1>2, <1>3, <1>4 DEF IsCurrent

LEMMA ScopesAre ==
  ASSUME Sound
  PROVE  /\ DOMAIN Scopes = 1..Last /\ Env!Depth = Last
         /\ \A k \in 1..Last :
              /\ Scopes[k].running <=> Runs(k)
              /\ DOMAIN Scopes[k].params = 1..Len(calls[k].args)
              /\ \A n \in 1..Len(calls[k].args) : Scopes[k].params[n] = Parameter(k, n)
<1>1. DOMAIN calls = 1..Last /\ Last \in Nat
  BY CallSizes
<1>2. Scopes = [k \in 1..Last |-> Scope(k)]
  BY <1>1 DEF Scopes
<1>3. DOMAIN Scopes = 1..Last /\ Len(Scopes) = Last
  BY <1>1, <1>2
<1>4. ASSUME NEW k \in 1..Last
      PROVE  /\ Scopes[k].running <=> Runs(k)
             /\ DOMAIN Scopes[k].params = 1..Len(calls[k].args)
             /\ \A n \in 1..Len(calls[k].args) : Scopes[k].params[n] = Parameter(k, n)
  <2>1. /\ Scopes[k].running = Runs(k)
        /\ Scopes[k].params = [n \in DOMAIN calls[k].args |-> Parameter(k, n)]
    BY <1>2 DEF Scope
  <2> QED
    BY <2>1, CallSizes
<1> QED
  BY <1>3, <1>4 DEF Env!Depth

LEMMA CurrentIs ==
  ASSUME Sound
  PROVE  Env!Current = fn
<1>1. Env!Running = {k \in 1..Last : Runs(k)}
  BY ScopesAre DEF Env!Running
<1>2. Last \in Nat
  BY CallSizes
<1>3. CASE fn = 0
  <2>1. Env!Running = {}
    BY <1>1, <1>3, FrameRuns
  <2> QED
    BY <1>3, <2>1 DEF Env!Current
<1>4. CASE fn # 0
  <2>1. fn \in Env!Running /\ \A m \in Env!Running : m <= fn
    BY <1>1, <1>2, <1>4, FrameRuns
  <2>2. \A k \in Env!Running : (\A m \in Env!Running : m <= k) => k = fn
    BY <1>1, <1>2, <2>1
  <2> QED
    BY <2>1, <2>2 DEF Env!Current
<1> QED
  BY <1>3, <1>4

\* What a name can stand for.
LEMMA NamedOwned ==
  ASSUME Sound, NEW y \in Named
  PROVE  Owned(y, fn)
<1>1. \A g \in text.names : g \in Globals
  BY Bounds DEF Sound, ControlInv
<1>2. ASSUME NEW n \in 1..Parameters, y = arg(n) PROVE Owned(y, fn)
  <2>1. fn # 0 /\ Parameters = calls[fn].ndef
    BY FrameRuns DEF Parameters
  <2>2. fn \in 1..Last /\ fn - 1 \in Nat /\ fn \in 1..fn
    BY <2>1, FrameRuns, CallSizes
  <2>3. n \in 1..Len(calls[fn].args) /\ Bound(fn, n)
    BY <2>1, <2>2, FrameRuns DEF Sound, CellsSound, CallSound, Last
  <2>4. CASE y = Own(fn, n)
    BY <1>2, <2>2, <2>3, <2>4 DEF Owned, HasCell, arg
  <2>5. CASE y # Own(fn, n)
    <3>1. Owned(y, fn - 1)
      BY <1>2, <2>3, <2>5 DEF Bound, arg
    <3>2. \A k \in 1..(fn - 1) : k \in 1..fn
      BY <2>2
    <3> QED
      BY <3>1, <3>2 DEF Owned
  <2> QED
    BY <2>4, <2>5
<1> QED
  BY <1>1, <1>2 DEF Named, Owned

LEMMA AtMeans ==
  ASSUME Sound, NEW c, Owned(c, Last)
  PROVE  Env!At(c) = cell[c]
<1>1. ASSUME NEW g \in Globals, c = Global(g) PROVE Env!At(c) = cell[c]
  <2>1. c[1] = 0 /\ c[2] = g
    BY <1>1 DEF Global
  <2> QED
    BY <1>1, <2>1 DEF Env!At, Variables
<1>2. ASSUME NEW k \in 1..Last, NEW n \in 1..Len(calls[k].args), c = Own(k, n), HasCell(k, n)
      PROVE  Env!At(c) = cell[c]
  <2>1. c[1] = k /\ c[2] = n /\ k # 0
    BY <1>2, CallSizes DEF Own
  <2>2. Env!At(c) = Scopes[k].params[n].value
    BY <2>1 DEF Env!At
  <2>3. Scopes[k].params[n] = Parameter(k, n)
    BY ScopesAre
  <2>4. Parameter(k, n).value = cell[c]
    BY <1>2 DEF Parameter, HasCell
  <2> QED
    BY <2>2, <2>3, <2>4
<1> QED
  BY <1>1, <1>2 DEF Owned

LEMMA NamedMeans ==
  ASSUME Sound, NEW y \in Named
  PROVE  y \in Env!Named /\ Owned(y, Last) /\ Env!At(y) = cell[y]
<1>1. Owned(y, fn) /\ Owned(y, Last) /\ y \notin {Null, Freed, Constant}
  BY NamedOwned, OwnedFacts, FrameRuns
<1>2. Env!At(y) = cell[y]
  BY <1>1, AtMeans
<1>3. \A g \in text.names : g \in Globals
  BY Bounds DEF Sound, ControlInv
<1>4. ASSUME NEW g \in text.names, y = Global(g) PROVE y \in Env!Named
  BY <1>3, <1>4 DEF Env!Named, Env!Place, Global
<1>5. ASSUME NEW n \in 1..Parameters, y = arg(n) PROVE y \in Env!Named
  <2>1. fn # 0 /\ Parameters = calls[fn].ndef
    BY FrameRuns DEF Parameters
  <2>2. fn \in 1..Last
    BY <2>1, FrameRuns, CallSizes
  <2>3. n \in 1..Len(calls[fn].args) /\ Bound(fn, n)
    BY <2>1, <2>2, FrameRuns DEF Sound, CellsSound, CallSound, Last
  <2>4. n \in DOMAIN Scopes[fn].params /\ Scopes[fn].params[n] = Parameter(fn, n)
    BY <2>2, <2>3, ScopesAre
  <2>5. Env!Resolve(n) = y
    <3>1. Env!Resolve(n) = IF Parameter(fn, n).value = "shared" THEN Parameter(fn, n).home ELSE <<fn, n>>
      BY <2>4, CurrentIs DEF Env!Resolve, Env!Shared
    <3>2. CASE y = Own(fn, n)
      <4>1. Parameter(fn, n).value = cell[y]
        BY <1>5, <3>2 DEF Parameter, arg
      <4>2. cell[y] # "shared"
        BY <1>1, OwnedFacts, ValuesApart, FrameRuns
      <4> QED
        BY <3>1, <3>2, <4>1, <4>2 DEF Own
    <3>3. CASE y # Own(fn, n)
      <4>1. Parameter(fn, n).value = "shared" /\ calls[fn].callpar[n] = y
        BY <1>5, <2>3, <3>3 DEF Parameter, arg, Bound
      <4>2. Parameter(fn, n).home = y
        BY <1>1, <4>1 DEF Parameter
      <4> QED
        BY <3>1, <4>1, <4>2
    <3> QED
      BY <3>2, <3>3
  <2> QED
    BY <2>1, <2>4, <2>5, CurrentIs DEF Env!Named
<1> QED
  BY <1>1, <1>2, <1>4, <1>5 DEF Named
-----------------------------------------------------------------------------
\* A cell that can be named is given a value.
LEMMA SetMeans ==
  ASSUME Sound, NEW c, Owned(c, Last), NEW v \in Values, Set(c, v), UNCHANGED calls, Moves
  PROVE  Env!Write(c, v)
<1>1. cell' = [cell EXCEPT ![c] = v] /\ c \in DOMAIN cell
  BY OwnedFacts, CallSizes DEF Set, Sound, CellsSound, CellsTyped
<1>2. /\ DOMAIN calls = 1..Last /\ DOMAIN calls' = 1..Last
      /\ Scopes = [k \in 1..Last |-> Scope(k)] /\ Scopes' = [k \in 1..Last |-> Scope(k)']
  BY CallSizes DEF Scopes
<1>3. \A k \in 1..Last : Runs(k)' = Runs(k)
  BY DEF Moves, Last
<1>4. ASSUME NEW k \in 1..Last, \A n \in 1..Len(calls[k].args) : Parameter(k, n)' = Parameter(k, n)
      PROVE  Scope(k)' = Scope(k)
  BY <1>3, <1>4, CallSizes DEF Scope
<1>5. ASSUME NEW k \in 1..Last, NEW n \in 1..Len(calls[k].args), c # Own(k, n)
      PROVE  Parameter(k, n)' = Parameter(k, n)
  BY <1>1, <1>5 DEF Parameter
<1>6. ASSUME NEW g \in Globals, c = Global(g) PROVE Env!Write(c, v)
  <2>1. c[1] = 0 /\ c[2] = g
    BY <1>6 DEF Global
  <2>2. Variables' = [Variables EXCEPT ![g] = v]
    <3>1. \A h \in Globals : cell'[Global(h)] = IF h = g THEN v ELSE cell[Global(h)]
      BY <1>1, <1>6, CellsApart, CellsAre
    <3> QED
      BY <3>1 DEF Variables
  <2>3. \A k \in 1..Last : Scope(k)' = Scope(k)
    BY <1>4, <1>5, <1>6, CallSizes, CellsApart
  <2>4. Scopes' = Scopes
    BY <1>2, <2>3
  <2> QED
    BY <2>1, <2>2, <2>4 DEF Env!Write
<1>7. ASSUME NEW j \in 1..Last, NEW m \in 1..Len(calls[j].args), c = Own(j, m), HasCell(j, m)
      PROVE  Env!Write(c, v)
  <2>1. c[1] = j /\ c[2] = m /\ j # 0 /\ j \in Nat \ {0}
    BY <1>7, CallSizes DEF Own
  <2>2. Variables' = Variables
    <3>1. \A g \in Globals : cell'[Global(g)] = cell[Global(g)]
      BY <1>1, <1>7, <2>1, CellsApart
    <3> QED
      BY <3>1 DEF Variables
  <2>3. ASSUME NEW k \in 1..Last, k # j PROVE Scope(k)' = Scope(k)
    BY <1>4, <1>5, <1>7, <2>3, CellsApart
  <2>4. \A n \in 1..Len(calls[j].args) : n # m => Parameter(j, n)' = Parameter(j, n)
    BY <1>5, <1>7, CellsApart
  <2>5. Parameter(j, m)' = [Parameter(j, m) EXCEPT !.value = v]
    <3>1. calls[j].args[m] = Own(j, m) /\ cell'[Own(j, m)] = v
      BY <1>1, <1>7 DEF HasCell
    <3> QED
      BY <3>1 DEF Parameter
  <2>6. Scope(j)' = [Scope(j) EXCEPT !.params = [Scope(j).params EXCEPT ![m] =
                                              [Scope(j).params[m] EXCEPT !.value = v]]]
    <3> DEFINE P == [n \in 1..Len(calls[j].args) |-> Parameter(j, n)]
    <3> DEFINE Q == [n \in 1..Len(calls[j].args) |-> Parameter(j, n)']
    <3>1. Scope(j) = [running |-> Runs(j), params |-> P] /\ Scope(j)' = [running |-> Runs(j)', params |-> Q]
      BY CallSizes DEF Scope
    <3>2. Q = [P EXCEPT ![m] = [P[m] EXCEPT !.value = v]]
      BY <2>4, <2>5
    <3> HIDE DEF P, Q
    <3> QED
      BY <1>3, <3>1, <3>2
  <2>7. Scopes' = [Scopes EXCEPT ![j].params[m].value = v]
    BY <1>2, <2>3, <2>6
  <2> QED
    BY <2>1, <2>2, <2>7 DEF Env!Write
<1> QED
  BY <1>6, <1>7 DEF Owned
-----------------------------------------------------------------------------
\* What a step does to the memory of a working interpreter: it stays in order,
\* and the step is one of Environments.
Meant == /\ CellsSound' \/ fault' # "none"
         /\ PlainArguments'
         /\ Env!Next \/ UNCHANGED <<Variables, Scopes, Defined>>

\* A meant step without a fault, from the new cells and what happened to names.
LEMMA Ordered ==
  ASSUME Sound, PlainArguments, UNCHANGED <<text, calls, fault>>, CellsTyped', Moves,
         \A c : Owned(c, Last) => Persists(c)
  PROVE  CellsSound' /\ PlainArguments'
<1>1. Last \in 0..Last /\ Last \in Nat
  BY CallSizes
<1>2. \A k \in 1..Last : CallSound(k)'
  BY <1>1, KeepsCalls DEF Moves, Last
<1>3. Len(calls') <= text'.calls
  BY DEF Sound, CellsSound
<1> QED
  BY <1>2, <1>3 DEF CellsSound, PlainArguments, Last

LEMMA SetOrdered ==
  ASSUME Sound, PlainArguments, UNCHANGED <<text, calls, fault>>, Moves,
         NEW c, Owned(c, Last), NEW v \in Values, Set(c, v),
         cell[c] \in Arrays => v \in Arrays \/ text.getlines
  PROVE  CellsSound' /\ PlainArguments'
<1>1. c \in Cells /\ c # Constant
  BY OwnedFacts, CallSizes
<1>2. cell' = [cell EXCEPT ![c] = v] /\ CellsTyped
  BY DEF Set, Sound, CellsSound
<1>3. cell' \in [Cells -> Values \cup {NoValue}] /\ \A d \in Cells : cell'[d] = IF d = c THEN v ELSE cell[d]
  BY <1>1, <1>2 DEF CellsTyped
<1>4. CellsTyped'
  BY <1>1, <1>2, <1>3, CellsAre DEF CellsTyped
<1>5. ASSUME NEW d, Owned(d, Last) PROVE Persists(d)
  <2>1. d \in Cells /\ cell[d] \in Values
    BY <1>5, OwnedFacts, CallSizes
  <2> QED
    BY <1>3, <2>1 DEF Persists
<1> QED
  BY <1>4, <1>5, Ordered

LEMMA SetStep ==
  ASSUME Sound, PlainArguments, UNCHANGED text, NEW c \in Named,
         assign(c) \/ awkgetline(c) \/ array(c) \/ awkdelete(c)
  PROVE  Meant
<1>1. UNCHANGED <<stack, calls, fn, fault>> /\ Top(stack) # "arguments"
  BY Kinds DEF assign, awkgetline, array, awkdelete, Statement, At
<1>2. Moves /\ c \in Env!Named /\ Owned(c, Last) /\ Env!At(c) = cell[c]
  BY <1>1, InsideMoves, NamedMeans DEF Sound
<1>3. Defined = TRUE /\ Defined' = TRUE
  BY <1>1 DEF Sound, Defined
<1>4. ASSUME NEW v \in Values, cell[c] \in Arrays => v \in Arrays \/ text.getlines, Set(c, v)
      PROVE  CellsSound' /\ PlainArguments' /\ Env!Write(c, v)
  BY <1>1, <1>2, <1>4, SetOrdered, SetMeans
<1>5. CASE assign(c)
  <2>1. PICK v \in Scalars : Set(c, v) /\ cell[c] \notin Arrays
    BY <1>5 DEF assign, isarr
  <2>2. CellsSound' /\ PlainArguments' /\ Env!Write(c, v)
    BY <2>1, <1>4, ValuesApart
  <2>3. Env!Assign
    BY <1>2, <2>1, <2>2 DEF Env!Assign
  <2> QED
    BY <1>3, <2>2, <2>3 DEF Meant, Env!Next
<1>6. ASSUME NEW v \in Arrays, Set(c, v) PROVE Meant
  <2>1. CellsSound' /\ PlainArguments' /\ Env!Write(c, v)
    BY <1>4, <1>6, ValuesApart
  <2>2. Env!UseAsArray
    BY <1>2, <2>1 DEF Env!UseAsArray
  <2> QED
    BY <1>3, <2>1, <2>2 DEF Meant, Env!Next
<1>7. CASE awkgetline(c)
  <2>1. PICK v \in Scalars : Set(c, v) /\ text.getlines
    BY <1>7 DEF awkgetline
  <2>2. CellsSound' /\ PlainArguments' /\ Env!Write(c, v)
    BY <2>1, <1>4, ValuesApart
  <2>3. Env!ReadInto
    BY <1>2, <2>2 DEF Env!ReadInto
  <2> QED
    BY <1>3, <2>2, <2>3 DEF Meant, Env!Next
<1> QED
  BY <1>5, <1>6, <1>7, ValuesApart DEF array, awkdelete

\* The other statements change no names.
LEMMA IdleStep ==
  ASSUME Sound, PlainArguments, UNCHANGED <<text, calls, cell, fault>>, Moves
  PROVE  Meant
<1>1. CellsTyped'
  BY DEF Sound, CellsSound, CellsTyped
<1>2. CellsSound' /\ PlainArguments'
  BY <1>1, Ordered, OwnedFacts, CallSizes DEF Persists
<1>3. UNCHANGED Variables /\ UNCHANGED Defined
  BY DEF Variables, Defined
<1>4. \A k \in DOMAIN calls : Scope(k)' = Scope(k)
  <2>1. \A k \in 1..Last : Runs(k)' = Runs(k)
    BY DEF Moves, Last
  <2>2. \A k : \A n : Parameter(k, n)' = Parameter(k, n)
    BY DEF Parameter
  <2> QED
    BY <2>1, <2>2, CallSizes DEF Scope
<1>5. UNCHANGED Scopes
  BY <1>4 DEF Scopes
<1> QED
  BY <1>2, <1>3, <1>5 DEF Meant

LEMMA AbandonStep ==
  ASSUME Sound, Abandon, UNCHANGED text
  PROVE  Meant
<1>1. /\ calls' = <<>> /\ fault' = fault
      /\ cell' = [c \in Cells |-> IF c[1] = 0 THEN cell[c] ELSE NoValue]
  BY DEF Abandon
<1>2. /\ cell' \in [Cells -> Values \cup {NoValue}]
      /\ cell'[Constant] = cell[Constant]
      /\ \A g \in Globals : cell'[Global(g)] = cell[Global(g)]
  <2>1. Constant[1] = 0 /\ \A g \in Globals : Global(g)[1] = 0
    BY DEF Constant, Global
  <2>2. cell \in [Cells -> Values \cup {NoValue}]
    BY DEF Sound, CellsSound, CellsTyped
  <2> QED
    BY <1>1, <2>1, <2>2, CellsAre
<1>3. CellsTyped'
  BY <1>2 DEF Sound, CellsSound, CellsTyped
<1>4. Len(calls') = 0 /\ 1..0 = {} /\ DOMAIN calls' = {}
  BY <1>1
<1>5. Len(calls') <= text'.calls
  <2>1. text.calls \in 0..MaxCalls
    BY Bounds DEF Sound, ControlInv
  <2> QED
    BY <1>4, <2>1
<1>6. CellsSound' /\ PlainArguments'
  BY <1>3, <1>4, <1>5 DEF CellsSound, PlainArguments
<1>7. Scopes' = <<>>
  BY <1>4 DEF Scopes
<1>8. Variables' = Variables
  BY <1>2 DEF Variables
<1>9. Env!Stop
  BY <1>7, <1>8 DEF Env!Stop
<1>10. Defined = TRUE /\ Defined' = TRUE
  BY <1>1 DEF Sound, Defined
<1> QED
  BY <1>6, <1>9, <1>10 DEF Meant, Env!Next

LEMMA AppendIs ==
  ASSUME NEW S, NEW s \in Seq(S), NEW e \in S, NEW n, n = Len(s) + 1
  PROVE  Append(s, e) = [k \in 1..n |-> IF k = n THEN e ELSE s[k]]
<1> DEFINE t == Append(s, e)
<1>1. /\ t \in Seq(S) /\ Len(t) = n /\ Len(s) \in Nat
      /\ \A i \in 1..Len(s) : t[i] = s[i]
      /\ t[n] = e
  BY AppendProperties, LenProperties
<1>2. DOMAIN t = 1..n /\ t = [k \in DOMAIN t |-> t[k]]
  BY <1>1, LenProperties
<1>3. \A k \in 1..n : k # n => k \in 1..Len(s)
  BY <1>1
<1> HIDE DEF t
<1>4. \A k \in 1..n : t[k] = IF k = n THEN e ELSE s[k]
  BY <1>1, <1>3
<1>5. t = [k \in 1..n |-> IF k = n THEN e ELSE s[k]]
  BY <1>2, <1>4
<1> QED
  BY <1>5 DEF t

LEMMA BeginStep ==
  ASSUME Sound, PlainArguments, BeginCall, UNCHANGED text
  PROVE  Meant
<1>1. PICK ndef \in 0..text.params :
        calls' = Append(calls, [at |-> Len(stack) + 1, ndef |-> ndef,
                                args |-> <<>>, callpar |-> <<>>, prev |-> 0])
  BY DEF BeginCall
<1>0. PICK last : last = Last + 1
  OBVIOUS
<1>2. /\ stack' = Append(stack, "arguments") /\ UNCHANGED <<cell, fault>> /\ Last < text.calls
  BY DEF BeginCall, Enter, CallIn
<1> DEFINE new == [at |-> Len(stack) + 1, ndef |-> ndef, args |-> <<>>, callpar |-> <<>>, prev |-> 0]
<1>3. /\ new.at = Len(stack) + 1 /\ new.ndef = ndef /\ new.args = <<>> /\ new.callpar = <<>>
  OBVIOUS
<1> HIDE DEF new
<1>4. PICK S : calls \in Seq(S) /\ new \in S
  <2>1. PICK R : calls \in Seq(CallRecord(R))
    BY DEF Sound, Working, Frames
  <2>2. calls \in Seq(CallRecord(R) \cup {new})
    BY <2>1, SeqMonotonic
  <2> QED
    BY <2>2
<1>5. /\ Last \in Nat /\ DOMAIN calls' = 1..last /\ Len(calls') = last
      /\ \A k \in 1..Last : calls'[k] = calls[k]
      /\ calls'[last] = new
  BY <1>0, <1>1, <1>4, AppendProperties, LenProperties DEF new, Last
<1>6. /\ stack \in Seq(Phases) /\ stack'[Len(stack) + 1] = "arguments"
      /\ \A i \in 1..Len(stack) : stack'[i] = stack[i]
  BY <1>2, Kinds, AppendFacts DEF Sound, Working
<1>7. \A k \in 1..Last : Runs(k)' = Runs(k)
  <2>1. \A k \in 1..Last : calls[k].at \in 1..Len(stack)
    BY FrameFacts DEF Sound, Working, Last
  <2> QED
    BY <1>5, <1>6, <2>1 DEF Runs
<1>8. Runs(last)' = FALSE
  BY <1>3, <1>5, <1>6 DEF Runs
<1>9. CellsTyped'
  BY <1>2 DEF Sound, CellsSound, CellsTyped
<1>10. \A k \in 1..Last : CallSound(k)'
  <2>1. \A c : Owned(c, Last) => cell[c] \in Values
    BY OwnedFacts, <1>5
  <2>2. Last \in 0..Last
    BY <1>5
  <2> QED
    BY <1>2, <1>5, <1>7, <2>1, <2>2, KeepsCalls DEF Persists
<1>11. CallSound(last)'
  <2>1. ndef \in 0..MaxParams
    <3>1. text.params \in 0..MaxParams /\ MaxParams \in Nat
      BY Bounds DEF Sound, ControlInv
    <3> QED
      BY ONLY <3>1, ndef \in 0..text.params
  <2>2. <<>> \in Seq(Cells) /\ <<>> \in Seq(Cells \cup {Null, Freed}) /\ Len(<<>>) = 0
    OBVIOUS
  <2>3. 0 <= ndef
    BY <2>1
  <2>4. CallTyped(calls'[last])
    BY <1>3, <1>5, <2>1, <2>2, <2>3 DEF CallTyped
  <2>5. 1..Len(calls'[last].args) = {}
    BY <1>3, <1>5, <2>2
  <2> QED
    BY <1>8, <2>4, <2>5 DEF CallSound
<1>12. /\ \A k \in 1..last : k \in 1..Last \/ k = last
       /\ \A k \in 1..Last : k # last /\ k \in 1..last
       /\ last \in Nat
  BY <1>0, <1>5
<1>13. last <= text.calls
  <2>1. text.calls \in 0..MaxCalls
    BY Bounds DEF Sound, ControlInv
  <2> QED
    BY ONLY <1>0, <1>2, <1>5, <2>1
<1>14. CellsSound'
  BY <1>2, <1>5, <1>9, <1>10, <1>11, <1>12, <1>13 DEF CellsSound
<1>15. PlainArguments'
  <2>1. 1..Len(calls'[last].args) = {}
    BY <1>3, <1>5
  <2> QED
    BY <1>5, <1>12, <2>1 DEF PlainArguments, Last
<1>16. Scopes' = Append(Scopes, [running |-> FALSE, params |-> <<>>])
  <2> DEFINE scope == [running |-> FALSE, params |-> <<>>]
  <2>1. Scopes' = [k \in 1..last |-> Scope(k)']
    BY <1>5 DEF Scopes
  <2>2. Scope(last)' = scope
    <3>1. DOMAIN calls'[last].args = {}
      BY <1>3, <1>5
    <3>2. [n \in DOMAIN calls'[last].args |-> Parameter(last, n)'] = <<>>
      BY <3>1
    <3>3. Scope(last)' = [running |-> Runs(last)',
                              params |-> [n \in DOMAIN calls'[last].args |-> Parameter(last, n)']]
      BY DEF Scope
    <3> QED
      BY <1>8, <3>2, <3>3
  <2>3. \A k \in 1..Last : Scope(k)' = Scope(k)
    <3>1. \A k \in 1..Last : \A n : Parameter(k, n)' = Parameter(k, n)
      BY <1>2, <1>5 DEF Parameter
    <3> QED
      BY <1>5, <1>7, <3>1 DEF Scope
  <2>4. Scopes = [k \in 1..Last |-> Scope(k)]
    BY CallSizes DEF Scopes
  <2> HIDE DEF scope
  <2>5. Scopes \in Seq({Scope(k) : k \in 1..Last} \cup {scope}) /\ Len(Scopes) = Last
    BY <1>5, <2>4
  <2>6. Append(Scopes, scope) = [k \in 1..last |-> IF k = last THEN scope ELSE Scopes[k]]
    BY <1>0, <2>5, AppendIs
  <2>7. \A k \in 1..last : Scope(k)' = IF k = last THEN scope ELSE Scopes[k]
    BY <1>5, <1>12, <2>2, <2>3, <2>4
  <2>8. Scopes' = Append(Scopes, scope)
    BY <2>1, <2>6, <2>7
  <2> QED
    BY <2>8 DEF scope
<1>17. Variables' = Variables /\ Defined = TRUE /\ Defined' = TRUE
  BY <1>2 DEF Variables, Defined, Sound
<1>18. Env!Call
  BY <1>16, <1>17 DEF Env!Call
<1> QED
  BY <1>14, <1>15, <1>17, <1>18 DEF Meant, Env!Next
-----------------------------------------------------------------------------
(* The last call gets an argument, or its body begins.                     *)

\* The last call is call l, its cells are the only ones that change.
OnlyLast(l) ==
  /\ l = Last /\ l # 0 /\ UNCHANGED <<text, fault>>
  /\ DOMAIN calls' = 1..l /\ Len(calls') = l
  /\ \A k \in 1..(l - 1) : calls'[k] = calls[k] /\ Runs(k)' = Runs(k)
  /\ cell' \in [Cells -> Values \cup {NoValue}]
  /\ \A c \in Cells : (\A n : c # Own(l, n)) => cell'[c] = cell[c]

LEMMA LastKeeps ==
  ASSUME Sound, NEW l, OnlyLast(l)
  PROVE  /\ l \in Nat \ {0} /\ l - 1 \in 0..Last /\ l \in 1..Last
         /\ \A k \in 1..l : k \in 1..(l - 1) \/ k = l
         /\ \A k \in 1..(l - 1) : CallSound(k)' /\ k \in 1..l /\ k # l
         /\ \A c : Owned(c, l - 1)' <=> Owned(c, l - 1)
         /\ \A c : Owned(c, l - 1) => cell'[c] = cell[c]
         /\ CellsTyped'
<1>1. l \in Nat \ {0} /\ l - 1 \in 0..Last /\ l \in 1..Last /\ l = Last
  BY CallSizes DEF OnlyLast
<1>2. \A k \in 1..l : k \in 1..(l - 1) \/ k = l
  BY <1>1
<1>3. ASSUME NEW c, Owned(c, l - 1) PROVE cell'[c] = cell[c] /\ cell[c] \in Values
  <2>1. c \in Cells /\ cell[c] \in Values /\ \A n : \A k \in (l - 1 + 1)..Last : c # Own(k, n)
    BY <1>1, <1>3, OwnedFacts
  <2>2. l \in (l - 1 + 1)..Last
    BY <1>1
  <2> QED
    BY <2>1, <2>2 DEF OnlyLast
<1>4. /\ \A k \in 1..(l - 1) : CallSound(k)'
      /\ \A j \in 0..(l - 1) : \A c : Owned(c, j)' <=> Owned(c, j)
  BY <1>1, <1>3, KeepsCalls DEF OnlyLast, Persists
<1>5. l - 1 \in 0..(l - 1) /\ \A k \in 1..(l - 1) : k \in 1..l /\ k # l
  BY <1>1
<1>6. CellsTyped'
  <2>1. \A n : Constant # Own(l, n)
    BY <1>1, CellsApart
  <2>2. \A g \in Globals : \A n : Global(g) # Own(l, n)
    BY <1>1, CellsApart
  <2> QED
    BY <2>1, <2>2, CellsAre DEF OnlyLast, Sound, CellsSound, CellsTyped
<1> QED
  BY <1>1, <1>2, <1>3, <1>4, <1>5, <1>6

LEMMA LastMeans ==
  ASSUME Sound, NEW l, OnlyLast(l), CallSound(l)'
  PROVE  /\ CellsSound'
         /\ Variables' = Variables /\ Defined = TRUE /\ Defined' = TRUE
         /\ Scopes' = [Scopes EXCEPT ![l] = Scope(l)']
<1>1. CellsSound'
  <2>1. \A k \in 1..l : CallSound(k)'
    BY LastKeeps
  <2>2. Len(calls') <= text'.calls /\ Len(calls') = l
    BY DEF OnlyLast, Sound, CellsSound, Last
  <2> QED
    BY <2>1, <2>2, LastKeeps DEF CellsSound
<1>2. Variables' = Variables
  <2>1. \A g \in Globals : \A n : Global(g) # Own(l, n)
    BY LastKeeps, CellsApart
  <2> QED
    BY <2>1, CellsAre DEF OnlyLast, Variables
<1>3. Defined = TRUE /\ Defined' = TRUE
  BY DEF OnlyLast, Defined, Sound
<1>4. ASSUME NEW k \in 1..(l - 1) PROVE Scope(k)' = Scope(k)
  <2>1. k \in 1..Last /\ k \in 1..MaxCalls /\ k # l
    BY CallSizes, LastKeeps DEF OnlyLast
  <2>2. ASSUME NEW n \in 1..Len(calls[k].args) PROVE Parameter(k, n)' = Parameter(k, n)
    <3>1. Own(k, n) \in Cells /\ \A i : Own(k, n) # Own(l, i)
      BY <2>1, CallSizes, CellsAre, CellsApart
    <3> QED
      BY <3>1 DEF OnlyLast, Parameter
  <2>3. Runs(k)' = Runs(k) /\ calls'[k] = calls[k]
    BY DEF OnlyLast
  <2> QED
    BY <2>1, <2>2, <2>3, CallSizes DEF Scope
<1>5. Scopes = [k \in 1..l |-> Scope(k)] /\ Scopes' = [k \in 1..l |-> Scope(k)']
  BY CallSizes DEF OnlyLast, Scopes
<1>6. \A k \in 1..l : k # l => Scope(k)' = Scope(k)
  BY <1>4, LastKeeps
<1> QED
  BY <1>1, <1>2, <1>3, <1>5, <1>6, LastKeeps

\* While arguments are evaluated the last call does not run.
LEMMA LastWaits ==
  ASSUME Sound, Top(stack) = "arguments"
  PROVE  /\ Last # 0 /\ calls[Last].at = Len(stack) /\ Runs(Last) = FALSE
         /\ fn \in 0..(Last - 1)
<1>1. Last \in Nat \ {0} /\ calls[Last].at = Len(stack)
  BY LastIsTop DEF Sound, Working, Callees, Last
<1>2. Runs(Last) = FALSE
  BY <1>1 DEF Runs, Top
<1>3. fn \in 0..Last /\ fn # Last
  BY <1>1, <1>2, FrameRuns
<1> QED
  BY <1>1, <1>2, <1>3

\* A scope with other parameters.
LEMMA OtherParams ==
  ASSUME NEW r, NEW P, NEW Q
  PROVE  /\ [[running |-> r, params |-> P] EXCEPT !.params = Q] = [running |-> r, params |-> Q]
         /\ [running |-> r, params |-> P].params = P
OBVIOUS

\* What an argument can be: what a name stands for, or an expression.
Passable(y, v) ==
  \/ y \in Named /\ v = cell[y]
  \/ y \in {Constant, Freed} /\ v \in Scalars /\ text.expressions

LEMMA PassStep ==
  ASSUME Sound, PlainArguments, UNCHANGED <<text, stack, fn, fault>>, Top(stack) = "arguments",
         NEW y, NEW v, Passable(y, v), Pass(y, v)
  PROVE  Meant
<1>1. PICK l : l = Last
  OBVIOUS
<1>2. PICK n : n = Len(calls[l].args) + 1
  OBVIOUS
<1>3. PICK t : t = IF v \in Arrays THEN y ELSE Own(l, n)
  OBVIOUS
<1>4. /\ n <= calls[l].ndef
      /\ calls' = [calls EXCEPT ![l].args = Append(@, t), ![l].callpar = Append(@, y)]
      /\ cell' = IF v \in Arrays THEN cell ELSE [cell EXCEPT ![t] = v]
  BY <1>1, <1>2, <1>3 DEF Pass
<1>5. l # 0 /\ calls[l].at = Len(stack) /\ Runs(l) = FALSE /\ fn \in 0..(l - 1)
  BY <1>1, LastWaits
<1>6. /\ DOMAIN calls = 1..l /\ l \in Nat \ {0} /\ l \in 1..l /\ l \in 1..MaxCalls
      /\ Len(calls[l].args) \in Nat /\ n \in Nat \ {0} /\ calls[l].ndef \in 0..MaxParams
      /\ n \in 1..MaxParams
      /\ \A i \in 1..n : i \in 1..Len(calls[l].args) \/ i = n
      /\ \A i \in 1..Len(calls[l].args) : i # n /\ i \in 1..n
  <2>1. /\ DOMAIN calls = 1..l /\ l \in Nat /\ l \in 1..l /\ l \in 1..MaxCalls
        /\ Len(calls[l].args) \in Nat /\ calls[l].ndef \in 0..MaxParams
    <3>1. l \in Nat /\ l \in 1..l
      BY <1>1, <1>5, CallSizes
    <3> QED
      BY <1>1, <3>1, CallSizes
  <2> QED
    BY ONLY <1>2, <1>4, <1>5, <2>1, Bounds
<1>7. y \in Named => /\ Owned(y, l - 1) /\ y \in Cells /\ y \notin {Null, Freed, Constant}
                     /\ cell[y] \in Values /\ \A i : y # Own(l, i)
  <2> SUFFICES ASSUME y \in Named
               PROVE  /\ Owned(y, l - 1) /\ y \in Cells /\ y \notin {Null, Freed, Constant}
                      /\ cell[y] \in Values /\ \A i : y # Own(l, i)
    OBVIOUS
  <2>1. Owned(y, fn)
    BY NamedOwned
  <2>2. Owned(y, l - 1)
    <3>1. \A k \in 1..fn : k \in 1..(l - 1)
      BY <1>5, <1>6
    <3> QED
      BY <2>1, <3>1 DEF Owned
  <2>3. l - 1 \in 0..Last /\ l \in (l - 1 + 1)..Last
    BY <1>1, <1>6
  <2> QED
    BY <2>2, <2>3, OwnedFacts
<1>8. /\ v \in Values /\ (v \in Arrays => y \in Named)
      /\ t \in Cells /\ y \in Cells \cup {Null, Freed}
      /\ v \notin Arrays => t = Own(l, n)
      /\ v \in Arrays => t = y
  BY <1>3, <1>6, <1>7, ValuesApart, CellsAre DEF Passable
<1>9. CallTyped(calls[l]) /\ CellsTyped
  BY <1>1, <1>6 DEF Sound, CellsSound, CallSound, Last
<1> DEFINE a == Append(calls[l].args, t)
<1> DEFINE b == Append(calls[l].callpar, y)
<1>10. /\ a \in Seq(Cells) /\ b \in Seq(Cells \cup {Null, Freed})
       /\ Len(a) = n /\ Len(b) = n /\ DOMAIN a = 1..n
       /\ a[n] = t /\ b[n] = y
       /\ \A i \in 1..Len(calls[l].args) : a[i] = calls[l].args[i] /\ b[i] = calls[l].callpar[i]
  BY <1>2, <1>8, <1>9, AppendProperties, LenProperties DEF CallTyped
<1>11. /\ DOMAIN calls' = 1..l /\ Len(calls') = l
       /\ \A k \in 1..(l - 1) : calls'[k] = calls[k]
       /\ calls'[l].args = a /\ calls'[l].callpar = b
       /\ calls'[l].ndef = calls[l].ndef /\ calls'[l].at = calls[l].at
  <2>1. PICK R : calls \in Seq(CallRecord(R))
    BY DEF Sound, Working, Frames
  <2>2. calls[l] \in CallRecord(R)
    BY <1>6, <2>1
  <2>3. calls' = [calls EXCEPT ![l] = [calls[l] EXCEPT !.args = a, !.callpar = b]]
    <3>1. calls' = [calls EXCEPT ![l].args = a, ![l].callpar = b]
      BY <1>4
    <3> HIDE DEF a, b
    <3> QED
      BY <1>6, <2>2, <3>1 DEF CallRecord
  <2> HIDE DEF a, b
  <2>4. calls'[l] = [calls[l] EXCEPT !.args = a, !.callpar = b] /\ DOMAIN calls' = 1..l
    BY <1>6, <2>3
  <2>5. \A k \in 1..(l - 1) : calls'[k] = calls[k]
    BY <1>6, <2>3
  <2>6. Len(calls') = l
    <3>1. Len(calls) = l
      BY <1>1 DEF Last
    <3> QED
      BY <1>6, <2>1, <2>3, <3>1
  <2> QED
    BY <2>2, <2>4, <2>5, <2>6 DEF CallRecord
<1> HIDE DEF a, b
<1>12. \A k \in 1..l : Runs(k)' = Runs(k)
  <2>1. \A k \in 1..l : k # l => k \in 1..(l - 1)
    BY <1>6
  <2> QED
    BY <1>11, <2>1 DEF Runs
<1>13. /\ cell' \in [Cells -> Values \cup {NoValue}]
       /\ \A c \in Cells : c # Own(l, n) => cell'[c] = cell[c]
       /\ v \notin Arrays => cell'[Own(l, n)] = v
  BY <1>4, <1>8, <1>9 DEF CellsTyped
<1>14. OnlyLast(l)
  <2>1. \A k \in 1..(l - 1) : k \in 1..l
    BY <1>6
  <2> QED
    BY <1>1, <1>5, <1>11, <1>12, <1>13, <2>1 DEF OnlyLast
<1>15. CallSound(l)'
  <2>1. CallTyped(calls'[l])
    BY <1>4, <1>9, <1>10, <1>11 DEF CallTyped
  <2>2. Runs(l)' = FALSE
    BY <1>5, <1>6, <1>12
  <2>3. ASSUME NEW i \in 1..Len(calls[l].args) PROVE Bound(l, i)'
    <3>1. Bound(l, i)
      BY <1>1, <1>6 DEF Sound, CellsSound, CallSound, Last
    <3>2. calls'[l].args[i] = calls[l].args[i] /\ calls'[l].callpar[i] = calls[l].callpar[i]
      BY <1>10, <1>11
    <3>3. Own(l, i) \in Cells /\ Own(l, i) # Own(l, n)
      BY <1>1, <1>6, CallSizes, CellsAre, CellsApart
    <3>4. cell'[Own(l, i)] = cell[Own(l, i)]
      BY <1>13, <3>3
    <3> QED
      BY <3>1, <3>2, <3>4, <1>14, LastKeeps DEF Bound
  <2>4. Bound(l, n)'
    <3>1. calls'[l].args[n] = t /\ calls'[l].callpar[n] = y
      BY <1>10, <1>11
    <3>2. y \in Named => Owned(y, l - 1)' /\ cell'[y] = cell[y]
      BY <1>7, <1>14, LastKeeps
    <3>3. CASE v \in Arrays
      <4>1. y \in Named /\ t = y /\ cell[y] = v
        BY <1>8, <3>3, ValuesApart DEF Passable
      <4> QED
        BY <3>1, <3>2, <3>3, <4>1, ValuesApart DEF Bound
    <3>4. CASE v \notin Arrays
      <4>1. t = Own(l, n) /\ cell'[t] \in Values
        BY <1>8, <1>13, <3>4
      <4>2. y \in {Null, Freed, Constant} \/ Owned(y, l - 1)'
        BY <3>2 DEF Passable
      <4> QED
        BY <3>1, <4>1, <4>2 DEF Bound
    <3> QED
      BY <3>3, <3>4
  <2>5. Len(calls'[l].args) = n
    BY <1>10, <1>11
  <2> QED
    BY <1>6, <2>1, <2>2, <2>3, <2>4, <2>5 DEF CallSound
<1>16. /\ CellsSound'
       /\ Variables' = Variables /\ Defined = TRUE /\ Defined' = TRUE
       /\ Scopes' = [Scopes EXCEPT ![l] = Scope(l)']
  BY <1>14, <1>15, LastMeans
<1>17. PlainArguments'
  <2>1. ~text.expressions => y \notin {Freed, Constant}
    BY <1>7 DEF Passable
  <2>2. ASSUME ~text.expressions, NEW k \in 1..l, NEW i \in 1..Len(calls'[k].args)
        PROVE  calls'[k].callpar[i] \notin {Freed, Constant}
    <3>1. CASE k \in 1..(l - 1)
      BY <1>1, <1>6, <1>11, <2>2, <3>1 DEF PlainArguments, Last
    <3>2. CASE k = l
      BY <1>1, <1>6, <1>10, <1>11, <2>1, <2>2, <3>2 DEF PlainArguments, Last
    <3> QED
      BY <1>6, <3>1, <3>2
  <2> QED
    BY <1>11, <2>2 DEF PlainArguments
<1>18. PICK p : p = [home |-> IF y \in {Freed, Constant} THEN Freed ELSE y,
                     value |-> IF v \in Arrays THEN "shared" ELSE v]
  OBVIOUS
<1>19. Scope(l)' = [Scope(l) EXCEPT !.params = Append(@, p)]
  <2> DEFINE P == [i \in 1..Len(calls[l].args) |-> Parameter(l, i)]
  <2> DEFINE Q == [i \in 1..n |-> Parameter(l, i)']
  <2> DEFINE r == Runs(l)
  <2>1. Scope(l) = [running |-> r, params |-> P]
    BY <1>1, <1>5, <1>6, CallSizes DEF Scope
  <2>2. Scope(l)' = [running |-> r, params |-> Q]
    <3>1. Runs(l)' = r
      BY <1>6, <1>12
    <3>2. DOMAIN calls'[l].args = 1..n
      BY <1>10, <1>11
    <3> QED
      BY <3>1, <3>2 DEF Scope
  <2>3. Parameter(l, n)' = p
    <3>1. calls'[l].args[n] = t /\ calls'[l].callpar[n] = y
      BY <1>10, <1>11
    <3>2. v \in Arrays => t # Own(l, n)
      BY <1>7, <1>8
    <3> QED
      BY <1>8, <1>13, <1>18, <3>1, <3>2 DEF Parameter
  <2>4. ASSUME NEW i \in 1..Len(calls[l].args) PROVE Parameter(l, i)' = Parameter(l, i)
    <3>1. Own(l, i) \in Cells /\ Own(l, i) # Own(l, n)
      BY <1>1, <1>6, CallSizes, CellsAre, CellsApart
    <3>2. cell'[Own(l, i)] = cell[Own(l, i)]
      BY <1>13, <3>1
    <3> QED
      BY <1>10, <1>11, <3>2 DEF Parameter
  <2>5. Q = Append(P, p)
    <3> DEFINE S == {P[i] : i \in 1..Len(calls[l].args)} \cup {p}
    <3>1. P \in Seq(S) /\ Len(P) = Len(calls[l].args)
      BY <1>6
    <3> HIDE DEF P, S
    <3>2. p \in S
      BY DEF S
    <3>3. Append(P, p) = [i \in 1..n |-> IF i = n THEN p ELSE P[i]]
      BY <1>2, <3>1, <3>2, AppendIs
    <3>4. \A i \in 1..n : Parameter(l, i)' = IF i = n THEN p ELSE P[i]
      BY <1>6, <2>3, <2>4 DEF P
    <3> QED
      BY <3>3, <3>4
  <2> HIDE DEF P, Q, r
  <2>6. Scope(l).params = P
    BY ONLY <2>1, OtherParams
  <2>7. [Scope(l) EXCEPT !.params = Q] = [running |-> r, params |-> Q]
    BY ONLY <2>1, OtherParams
  <2> QED
    BY ONLY <2>2, <2>5, <2>6, <2>7
<1>20. Scopes' = [Scopes EXCEPT ![l].params = Append(@, p)]
  <2>1. Scopes[l] = Scope(l)
    BY <1>6 DEF Scopes
  <2> QED
    BY <1>16, <1>19, <2>1
<1>21. Env!Depth = l /\ l > 0 /\ ~Env!Top.running
  <2>1. Env!Depth = l /\ (Scopes[l].running <=> Runs(l))
    BY <1>1, <1>6, ScopesAre
  <2> QED
    BY <1>5, <1>6, <2>1 DEF Env!Top
<1>22. Env!Bind(p)
  BY <1>16, <1>20, <1>21 DEF Env!Bind
<1>23. Env!Pass
  <2>1. CASE y \in Named /\ v = cell[y]
    <3>1. y \in Env!Named /\ Env!At(y) = v
      BY <2>1, NamedMeans
    <3>2. p = [home |-> y, value |-> IF Env!At(y) \in Arrays THEN "shared" ELSE Env!At(y)]
      BY <1>7, <1>18, <2>1, <3>1
    <3> QED
      BY <1>21, <1>22, <3>1, <3>2 DEF Env!Pass, Env!Shared
  <2>2. CASE y \in {Constant, Freed} /\ v \in Scalars
    <3>1. p = [home |-> <<0>>, value |-> v]
      BY <1>18, <2>2, ValuesApart DEF Freed
    <3> QED
      BY <1>21, <1>22, <2>2, <3>1 DEF Env!Pass, Env!Expression
  <2> QED
    BY <2>1, <2>2 DEF Passable
<1> QED
  BY <1>16, <1>17, <1>23 DEF Meant, Env!Next
-----------------------------------------------------------------------------
LEMMA ConcatIs ==
  ASSUME NEW S, NEW s \in Seq(S), NEW e \in S, NEW m \in Nat, NEW n, n = Len(s) + m
  PROVE  s \o [k \in 1..m |-> e] = [k \in 1..n |-> IF k <= Len(s) THEN s[k] ELSE e]
<1> DEFINE u == [k \in 1..m |-> e]
<1> DEFINE t == s \o u
<1>1. u \in Seq(S) /\ Len(u) = m /\ \A k \in 1..m : u[k] = e
  OBVIOUS
<1> HIDE DEF u
<1>2. /\ t \in Seq(S) /\ Len(t) = n /\ Len(s) \in Nat
      /\ \A i \in 1..n : t[i] = IF i <= Len(s) THEN s[i] ELSE u[i - Len(s)]
  BY <1>1, ConcatProperties, LenProperties
<1>3. DOMAIN t = 1..n /\ t = [k \in DOMAIN t |-> t[k]]
  BY <1>2, LenProperties
<1>4. \A k \in 1..n : ~(k <= Len(s)) => k - Len(s) \in 1..m
  BY <1>2
<1> HIDE DEF t
<1>5. \A k \in 1..n : t[k] = IF k <= Len(s) THEN s[k] ELSE e
  BY <1>1, <1>2, <1>4
<1>6. t = [k \in 1..n |-> IF k <= Len(s) THEN s[k] ELSE e]
  BY <1>3, <1>5
<1> QED
  BY <1>6 DEF t, u

\* The cells that begin with k.
LEMMA CellOf ==
  ASSUME NEW c \in Cells
  PROVE  c = <<c[1], c[2]>> /\ (c[1] = 0 <=> c = Constant \/ \E g \in Globals : c = Global(g))
<1>1. \A k \in 1..MaxCalls : k # 0
  BY Bounds
<1> QED
  BY <1>1, CellsAre DEF Constant, Global, Own

\* The last call turns into a body.
LEMMA TurnRuns ==
  ASSUME Sound, Top(stack) = "arguments", stack' = Turn(stack, "function"),
         Len(calls') = Last, \A k \in 1..Last : calls'[k].at = calls[k].at
  PROVE  /\ \A k \in 1..(Last - 1) : Runs(k)' = Runs(k)
         /\ Runs(Last) = FALSE /\ RunsAt(stack', calls', Last) = TRUE
<1>1. /\ Last \in Nat \ {0} /\ calls[Last].at = Len(stack)
      /\ \A k \in 1..(Last - 1) : calls[k].at \in 1..(Len(stack) - 1)
  BY LastIsTop DEF Sound, Working, Callees, Last
<1>2. /\ stack'[Len(stack)] = "function"
      /\ \A i \in 1..(Len(stack) - 1) : stack'[i] = stack[i]
  BY Kinds, TurnFacts DEF Sound, Working
<1>3. Last \in 1..Last /\ \A k \in 1..(Last - 1) : k \in 1..Last
  BY <1>1
<1>4. \A k \in 1..(Last - 1) : Runs(k)' = Runs(k)
  BY <1>1, <1>2, <1>3 DEF Runs
<1>5. RunsAt(stack', calls', Last) = TRUE
  BY <1>1, <1>2, <1>3 DEF RunsAt
<1> QED
  BY <1>4, <1>5, LastWaits

LEMMA StartStep ==
  ASSUME Sound, PlainArguments, StartBody, UNCHANGED text
  PROVE  Meant
<1>1. PICK l : l = Last
  OBVIOUS
<1>2. PICK g : g = Len(calls[l].args)
  OBVIOUS
<1>3. PICK d : d = calls[l].ndef
  OBVIOUS
<1>4. Top(stack) = "arguments" /\ stack' = Turn(stack, "function") /\ UNCHANGED <<text, fault>>
  BY DEF StartBody, Body, At, GoTo
<1>5. l # 0 /\ calls[l].at = Len(stack) /\ Runs(l) = FALSE
  BY <1>1, <1>4, LastWaits
<1>6. /\ DOMAIN calls = 1..l /\ l \in Nat \ {0} /\ l \in 1..l /\ l \in 1..MaxCalls /\ Len(calls) = l
      /\ g \in Nat /\ d \in 0..MaxParams /\ g <= d
  <2>1. l \in Nat /\ l \in 1..l
    BY <1>1, <1>5, CallSizes
  <2> QED
    BY <1>1, <1>2, <1>3, <1>5, <2>1, CallSizes DEF Last
<1>7. /\ \A i \in 1..d : i \in 1..MaxParams /\ (i \in 1..g <=> i <= g) /\ (i \in (g + 1)..d <=> ~(i <= g))
      /\ \A i \in 1..g : i \in 1..d /\ i <= g
      /\ d \in Nat /\ d - g \in Nat /\ d = g + (d - g)
  BY ONLY <1>6, Bounds
<1>8. CallTyped(calls[l]) /\ CellsTyped /\ \A i \in 1..g : Bound(l, i)
  BY <1>1, <1>2, <1>6 DEF Sound, CellsSound, CallSound, Last
<1> DEFINE a == [i \in 1..d |-> IF i <= g THEN calls[l].args[i] ELSE Own(l, i)]
<1> DEFINE b == [i \in 1..d |-> IF i <= g THEN calls[l].callpar[i] ELSE Null]
<1>9. /\ calls' = [calls EXCEPT ![l] = [calls[l] EXCEPT !.args = a, !.callpar = b, !.prev = fn]]
      /\ cell' = [c \in Cells |-> IF c[1] = l /\ c[2] \in (g + 1)..d THEN "scalar" ELSE cell[c]]
  BY <1>1, <1>2, <1>3 DEF StartBody, Unset
<1>10. /\ a \in Seq(Cells) /\ b \in Seq(Cells \cup {Null, Freed})
       /\ Len(a) = d /\ Len(b) = d /\ DOMAIN a = 1..d
  <2>1. /\ calls[l].args \in [1..g -> Cells] /\ calls[l].callpar \in [1..g -> Cells \cup {Null, Freed}]
    BY <1>2, <1>8, LenProperties DEF CallTyped
  <2>2. \A i \in 1..d : Own(l, i) \in Cells
    BY <1>6, <1>7, CellsAre
  <2>3. a \in [1..d -> Cells] /\ b \in [1..d -> Cells \cup {Null, Freed}]
    BY <1>7, <2>1, <2>2
  <2> HIDE DEF a, b
  <2> QED
    BY <1>7, <2>3
<1>11. \A i \in 1..d : /\ a[i] = IF i <= g THEN calls[l].args[i] ELSE Own(l, i)
                       /\ b[i] = IF i <= g THEN calls[l].callpar[i] ELSE Null
  OBVIOUS
<1> HIDE DEF a, b
<1>12. /\ DOMAIN calls' = 1..l /\ Len(calls') = l
       /\ \A k \in 1..(l - 1) : calls'[k] = calls[k]
       /\ calls'[l].args = a /\ calls'[l].callpar = b
       /\ calls'[l].ndef = d /\ calls'[l].at = calls[l].at
  <2>1. PICK R : calls \in Seq(CallRecord(R))
    BY DEF Sound, Working, Frames
  <2>2. calls[l] \in CallRecord(R)
    BY <1>6, <2>1
  <2>3. calls'[l] = [calls[l] EXCEPT !.args = a, !.callpar = b, !.prev = fn] /\ DOMAIN calls' = 1..l
    BY <1>6, <1>9
  <2>4. \A k \in 1..(l - 1) : calls'[k] = calls[k]
    BY <1>6, <1>9
  <2>5. Len(calls') = l
    BY <1>6, <1>9, <2>1
  <2> QED
    BY <1>3, <2>2, <2>3, <2>4, <2>5 DEF CallRecord
<1>13. /\ \A k \in 1..(l - 1) : Runs(k)' = Runs(k)
       /\ RunsAt(stack', calls', l) = TRUE
  <2>1. \A k \in 1..l : calls'[k].at = calls[k].at
    <3>1. \A k \in 1..l : k \in 1..(l - 1) \/ k = l
      BY <1>6
    <3> QED
      BY <1>12, <3>1
  <2> QED
    BY <1>1, <1>4, <1>12, <2>1, TurnRuns
<1>14. /\ cell' \in [Cells -> Values \cup {NoValue}]
       /\ \A i \in 1..d : ~(i <= g) => cell'[Own(l, i)] = "scalar"
       /\ \A c \in Cells : (\A i \in 1..d : ~(i <= g) => c # Own(l, i)) => cell'[c] = cell[c]
  <2>1. cell \in [Cells -> Values \cup {NoValue}] /\ "scalar" \in Values
    BY <1>8, ValuesApart DEF CellsTyped
  <2>2. \A i \in 1..d : Own(l, i) \in Cells /\ Own(l, i)[1] = l /\ Own(l, i)[2] = i
    BY <1>6, <1>7, CellsAre DEF Own
  <2>3. ASSUME NEW c \in Cells, \A i \in 1..d : ~(i <= g) => c # Own(l, i)
        PROVE  cell'[c] = cell[c]
    <3>1. c[1] = l /\ c[2] \in (g + 1)..d => c = Own(l, c[2])
      BY CellOf DEF Own
    <3>2. \A i \in (g + 1)..d : i \in 1..d /\ ~(i <= g)
      BY <1>6, <1>7
    <3> QED
      BY <1>9, <2>3, <3>1, <3>2
  <2>4. cell' \in [Cells -> Values \cup {NoValue}]
    BY <1>9, <2>1
  <2> QED
    BY <1>7, <1>9, <2>2, <2>3, <2>4
<1>15. OnlyLast(l)
  BY <1>1, <1>4, <1>5, <1>12, <1>13, <1>14 DEF OnlyLast
<1>16. CallSound(l)'
  <2>1. CallTyped(calls'[l])
    BY <1>6, <1>10, <1>12 DEF CallTyped
  <2>2. ASSUME NEW i \in 1..g PROVE Bound(l, i)'
    <3>1. calls'[l].args[i] = calls[l].args[i] /\ calls'[l].callpar[i] = calls[l].callpar[i]
      BY <1>7, <1>11, <1>12
    <3>2. Own(l, i) \in Cells /\ \A j \in 1..d : ~(j <= g) => Own(l, i) # Own(l, j)
      BY <1>6, <1>7, CellsAre, CellsApart
    <3>3. cell'[Own(l, i)] = cell[Own(l, i)]
      BY <1>14, <3>2
    <3> QED
      BY <1>8, <1>15, <3>1, <3>3, LastKeeps DEF Bound
  <2>3. ASSUME NEW i \in 1..d, ~(i <= g) PROVE Bound(l, i)'
    <3>1. calls'[l].args[i] = Own(l, i) /\ calls'[l].callpar[i] = Null
      BY <1>11, <1>12, <2>3
    <3>2. cell'[Own(l, i)] \in Values
      BY <1>14, <2>3, ValuesApart
    <3> QED
      BY <3>1, <3>2 DEF Bound
  <2> QED
    BY <1>7, <1>10, <1>12, <2>1, <2>2, <2>3 DEF CallSound
<1>17. /\ CellsSound'
       /\ Variables' = Variables /\ Defined = TRUE /\ Defined' = TRUE
       /\ Scopes' = [Scopes EXCEPT ![l] = Scope(l)']
  BY <1>15, <1>16, LastMeans
<1>18. PlainArguments'
  <2> SUFFICES ASSUME ~text.expressions, NEW k \in 1..l, NEW i \in 1..Len(calls'[k].args)
               PROVE  calls'[k].callpar[i] \notin {Freed, Constant}
    BY <1>4, <1>12 DEF PlainArguments
  <2>1. CASE k \in 1..(l - 1)
    BY <1>1, <1>6, <1>12, <2>1 DEF PlainArguments, Last
  <2>2. CASE k = l
    <3>1. i \in 1..d
      BY <1>10, <1>12, <2>2
    <3>2. CASE i <= g
      BY <1>1, <1>2, <1>6, <1>7, <1>11, <1>12, <2>2, <3>1, <3>2 DEF PlainArguments, Last
    <3>3. CASE ~(i <= g)
      BY <1>11, <1>12, <2>2, <3>1, <3>3, CellsApart
    <3> QED
      BY <3>2, <3>3
  <2> QED
    BY <1>6, <2>1, <2>2
<1>19. Env!Depth = l /\ l > 0 /\ ~Env!Top.running /\ Env!Top = Scope(l)
  <2>1. Env!Depth = l /\ (Scopes[l].running <=> Runs(l))
    BY <1>1, <1>6, ScopesAre
  <2>2. Scopes[l] = Scope(l)
    BY <1>6 DEF Scopes
  <2> QED
    BY <1>5, <1>6, <2>1, <2>2 DEF Env!Top
<1>20. Scope(l)' = [running |-> TRUE,
                    params  |-> Env!Top.params \o [i \in 1..(d - g) |-> Env!Local]]
  <2> DEFINE P == [i \in 1..g |-> Parameter(l, i)]
  <2> DEFINE Q == [i \in 1..d |-> Parameter(l, i)']
  <2> DEFINE e == Env!Local
  <2>1. Env!Top.params = P
    BY <1>1, <1>2, <1>6, <1>19, CallSizes DEF Scope
  <2>2. Scope(l)' = [running |-> TRUE, params |-> Q]
    <3>1. Runs(l)' = TRUE
      BY <1>13 DEF Runs, RunsAt
    <3>2. DOMAIN calls'[l].args = 1..d
      BY <1>10, <1>12
    <3>3. Scope(l)' = [running |-> Runs(l)',
                       params  |-> [i \in DOMAIN calls'[l].args |-> Parameter(l, i)']]
      BY DEF Scope
    <3> QED
      BY <3>1, <3>2, <3>3
  <2>3. ASSUME NEW i \in 1..g PROVE Parameter(l, i)' = Parameter(l, i)
    <3>1. calls'[l].args[i] = calls[l].args[i] /\ calls'[l].callpar[i] = calls[l].callpar[i]
      BY <1>7, <1>11, <1>12
    <3>2. Own(l, i) \in Cells /\ \A j \in 1..d : ~(j <= g) => Own(l, i) # Own(l, j)
      BY <1>6, <1>7, CellsAre, CellsApart
    <3>3. cell'[Own(l, i)] = cell[Own(l, i)]
      BY <1>14, <3>2
    <3> QED
      BY <3>1, <3>3 DEF Parameter
  <2>4. ASSUME NEW i \in 1..d, ~(i <= g) PROVE Parameter(l, i)' = e
    <3>1. calls'[l].args[i] = Own(l, i) /\ calls'[l].callpar[i] = Null
      BY <1>11, <1>12, <2>4
    <3>2. cell'[Own(l, i)] = "scalar" /\ Null \notin {Freed, Constant}
      BY <1>14, <2>4, CellsApart
    <3> QED
      BY <3>1, <3>2 DEF Parameter, Env!Local, Env!Nothing, Null
  <2>5. Q = P \o [i \in 1..(d - g) |-> e]
    <3> DEFINE S == {P[i] : i \in 1..g} \cup {e}
    <3>1. P \in Seq(S) /\ Len(P) = g
      BY <1>6
    <3> HIDE DEF P, S, e
    <3>2. e \in S
      BY DEF S
    <3>3. P \o [i \in 1..(d - g) |-> e] = [i \in 1..d |-> IF i <= g THEN P[i] ELSE e]
      BY <1>7, <3>1, <3>2, ConcatIs
    <3>4. \A i \in 1..d : Parameter(l, i)' = IF i <= g THEN P[i] ELSE e
      BY <1>7, <2>3, <2>4 DEF P
    <3> QED
      BY <3>3, <3>4
  <2> HIDE DEF P, Q
  <2> QED
    BY <2>1, <2>2, <2>5
<1>21. Env!Start
  <2>1. d - g \in 0..MaxParams
    BY ONLY <1>6, <1>7, Bounds
  <2> QED
    BY <1>17, <1>19, <1>20, <2>1 DEF Env!Start
<1> QED
  BY <1>17, <1>18, <1>21 DEF Meant, Env!Next
-----------------------------------------------------------------------------
LEMMA ArgumentStep ==
  ASSUME Sound, Plain, PlainArguments, PassPlain \/ PassResult, UNCHANGED text
  PROVE  Meant
<1>1. cell[Constant] \in Scalars
  BY DEF Sound, CellsSound, CellsTyped
<1>2. CASE PassPlain
  <2>1. UNCHANGED <<text, stack, fn, fault>> /\ Top(stack) = "arguments"
    BY <1>2 DEF PassPlain, control, At
  <2>2. PICK y, v : Passable(y, v) /\ Pass(y, v)
    BY <1>1, <1>2 DEF PassPlain, Passable
  <2> QED
    BY <2>1, <2>2, PassStep
<1>3. CASE PassResult
  <2>1. UNCHANGED <<text, fn, fault>> /\ Top(stack) = "arguments" /\ x # "go"
        /\ stack' = Turn(stack, "arguments")
    BY <1>3 DEF PassResult, Argument, At, GoTo
  <2>2. UNCHANGED stack
    BY <2>1, Kinds, TopTurned DEF Sound, Working
  <2>3. text.expressions
    BY <1>3, <2>1 DEF Plain, PassResult, Argument
  <2>4. CASE UNCHANGED <<calls, cell>>
    <3>1. Moves
      BY <2>2, <2>4, InsideMoves DEF Sound
    <3> QED
      BY <2>1, <2>4, <3>1, IdleStep
  <2>5. CASE ~UNCHANGED <<calls, cell>>
    <3>1. PICK y, v : Passable(y, v) /\ Pass(y, v)
      BY <1>3, <2>3, <2>5, ValuesApart DEF PassResult, Passable
    <3> QED
      BY <2>1, <2>2, <3>1, PassStep
  <2> QED
    BY <2>4, <2>5
<1> QED
  BY <1>2, <1>3
-----------------------------------------------------------------------------
(* The end of a call.  Arrays that were made of its parameters move to     *)
(* where these came from, the first one of each place.                     *)
Made(l, c, m) == {n \in 1..m : calls[l].callpar[n] = c /\ HasCell(l, n) /\ isarr(Own(l, n))}
First(S) == CHOOSE n \in S : \A m \in S : n <= m
Copied(l, m) == [c \in Cells |-> IF cell[c] \notin Arrays /\ Made(l, c, m) # {}
                                 THEN cell[Own(l, First(Made(l, c, m)))] ELSE cell[c]]

\* f is the copying of the parameters one by one.
Copying(call, f) ==
  f = [n \in 0..call.ndef |->
        IF n = 0 THEN cell
        ELSE IF ComesOut(f[n - 1], call, n)
             THEN [f[n - 1] EXCEPT ![call.callpar[n]] = f[n - 1][call.args[n]]]
             ELSE f[n - 1]]

LEMMA Least ==
  ASSUME NEW S, S \subseteq Nat, S # {}
  PROVE  \E n \in S : \A m \in S : n <= m
<1> DEFINE R == {ss \in Nat \X Nat : ss[1] < ss[2]}
<1>1. IsWellFoundedOn(R, Nat)
  BY NatLessThanWellFounded DEF OpToRel
<1>2. PICK n \in S : \A y \in S : ~(<<y, n>> \in R)
  BY <1>1, WFMin
<1>3. ASSUME NEW y \in S PROVE n <= y
  <2>1. <<y, n>> \in Nat \X Nat /\ <<y, n>>[1] = y /\ <<y, n>>[2] = n
    OBVIOUS
  <2>2. ~(y < n)
    BY <2>1, <1>2
  <2> QED
    BY <2>2
<1> QED
  BY <1>3

LEMMA FirstFacts ==
  ASSUME NEW S, S \subseteq Nat, S # {}
  PROVE  /\ First(S) \in S /\ \A m \in S : First(S) <= m
         /\ \A n \in S : (\A m \in S : n <= m) => n = First(S)
<1>1. \E n \in S : \A m \in S : n <= m
  BY Least
<1>2. First(S) \in S /\ \A m \in S : First(S) <= m
  BY <1>1 DEF First
<1>3. ASSUME NEW n \in S, \A m \in S : n <= m PROVE n = First(S)
  <2>1. n <= First(S) /\ First(S) <= n /\ n \in Nat /\ First(S) \in Nat
    BY <1>2, <1>3
  <2> QED
    BY ONLY <2>1
<1> QED
  BY <1>2, <1>3

\* The function exists, and is this one.
LEMMA CopyingOnly ==
  ASSUME NEW call, call.ndef \in Nat, NEW F, Copying(call, F)
  PROVE  CopiedBack(call) = F
<1>1. CopiedBack(call) = CHOOSE f : Copying(call, f)
  BY DEF CopiedBack, Copying
<1>2. PICK f : Copying(call, f) /\ CopiedBack(call) = f
  <2>1. Copying(call, CHOOSE f : Copying(call, f))
    OBVIOUS
  <2> QED
    BY <1>1, <2>1
<1> DEFINE N == call.ndef
<1> DEFINE Differ == {n \in 0..N : f[n] # F[n]}
<1>3. ASSUME NEW g, Copying(call, g)
      PROVE  /\ g = [n \in 0..N |-> g[n]] /\ g[0] = cell
             /\ \A n \in 1..N : g[n] = IF ComesOut(g[n - 1], call, n)
                  THEN [g[n - 1] EXCEPT ![call.callpar[n]] = g[n - 1][call.args[n]]]
                  ELSE g[n - 1]
  <2>1. 0 \in 0..N /\ \A n \in 1..N : n \in 0..N /\ n # 0
    OBVIOUS
  <2> QED
    BY <1>3, <2>1 DEF Copying
<1> HIDE DEF N
<1>4. f[0] = F[0] /\ \A n \in 1..N : f[n - 1] = F[n - 1] => f[n] = F[n]
  <2>1. f[0] = F[0]
    BY <1>2, <1>3
  <2>2. ASSUME NEW n \in 1..N, f[n - 1] = F[n - 1] PROVE f[n] = F[n]
    <3> DEFINE After(v) == IF ComesOut(v, call, n)
                           THEN [v EXCEPT ![call.callpar[n]] = v[call.args[n]]] ELSE v
    <3>1. f[n] = After(f[n - 1]) /\ F[n] = After(F[n - 1])
      BY <1>2, <1>3
    <3> HIDE DEF After
    <3> QED
      BY <2>2, <3>1
  <2> QED
    BY <2>1, <2>2
<1>5. N \in Nat
  BY DEF N
<1>6. Differ = {}
  <2> SUFFICES ASSUME Differ # {} PROVE FALSE
    OBVIOUS
  <2>1. Differ \subseteq Nat
    BY <1>5
  <2>2. PICK n \in Differ : \A m \in Differ : n <= m
    BY <2>1, Least
  <2>3. n \in 1..N /\ n - 1 \in 0..N /\ ~(n <= n - 1)
    BY <1>4, <1>5, <2>2
  <2>4. f[n - 1] = F[n - 1]
    BY <2>2, <2>3
  <2> QED
    BY <1>4, <2>2, <2>3, <2>4
<1>7. f = [n \in 0..N |-> f[n]] /\ F = [n \in 0..N |-> F[n]]
  BY <1>2, <1>3
<1>8. \A n \in 0..N : f[n] = F[n]
  BY <1>6
<1> QED
  BY <1>2, <1>7, <1>8

\* The innermost call ends.
LEMMA LastRuns ==
  ASSUME Sound, Top(stack) = "function"
  PROVE  /\ Last # 0 /\ Last \in Nat \ {0} /\ Last \in 1..Last
         /\ Runs(Last) = TRUE /\ Len(calls[Last].args) = calls[Last].ndef
         /\ \A k \in 1..(Last - 1) : calls[k].at \in 1..(Len(stack) - 1)
<1>1. /\ Last \in Nat \ {0} /\ calls[Last].at = Len(stack)
      /\ \A k \in 1..(Last - 1) : calls[k].at \in 1..(Len(stack) - 1)
  BY LastIsTop DEF Sound, Working, Callees, Last
<1>2. Runs(Last) = TRUE /\ Last \in 1..Last
  BY <1>1 DEF Runs, Top
<1>3. Len(calls[Last].args) = calls[Last].ndef
  BY <1>1, <1>2 DEF Sound, CellsSound, CallSound, Last
<1> QED
  BY <1>1, <1>2, <1>3

\* What the parameters of the last call were passed.
Ending(l) == Sound /\ l = Last /\ l # 0 /\ Len(calls[l].args) = calls[l].ndef

LEMMA EndingFacts ==
  ASSUME NEW l, Ending(l)
  PROVE  /\ l \in Nat \ {0} /\ l \in 1..MaxCalls /\ l - 1 \in 0..Last /\ calls[l].ndef \in Nat
         /\ \A n \in 1..calls[l].ndef :
              /\ n \in 1..Len(calls[l].args) /\ n \in 1..MaxParams
              /\ Bound(l, n) /\ calls[l].args[n] \in Cells
              /\ calls[l].callpar[n] \in Cells \cup {Null, Freed}
              /\ \A i : calls[l].callpar[n] # Own(l, i)
<1>1. l \in 1..Last /\ l \in Nat \ {0} /\ l = Last /\ l - 1 \in 0..Last /\ l \in (l - 1 + 1)..Last
  BY CallSizes DEF Ending
<1>2. /\ l \in 1..MaxCalls /\ calls[l].ndef \in 0..MaxParams /\ Len(calls[l].args) = calls[l].ndef
      /\ \A n \in 1..calls[l].ndef : n \in 1..MaxParams
      /\ DOMAIN calls[l].args = 1..calls[l].ndef /\ DOMAIN calls[l].callpar = 1..calls[l].ndef
  BY <1>1, CallSizes DEF Ending
<1>3. CallTyped(calls[l]) /\ \A n \in 1..calls[l].ndef : Bound(l, n)
  BY <1>1, <1>2 DEF Ending, Sound, CellsSound, CallSound, Last
<1>4. \A n \in 1..calls[l].ndef : /\ calls[l].args[n] \in Cells
                                  /\ calls[l].callpar[n] \in Cells \cup {Null, Freed}
  <2>1. \A S : \A s \in Seq(S) : \A n \in DOMAIN s : s[n] \in S
    OBVIOUS
  <2> QED
    BY <1>2, <1>3, <2>1 DEF CallTyped
<1>5. ASSUME NEW n \in 1..calls[l].ndef, NEW i PROVE calls[l].callpar[n] # Own(l, i)
  <2>1. calls[l].callpar[n] \in {Null, Freed, Constant} \/ Owned(calls[l].callpar[n], l - 1)
    BY <1>3 DEF Bound
  <2>2. ASSUME Owned(calls[l].callpar[n], l - 1) PROVE calls[l].callpar[n] # Own(l, i)
    BY <1>1, <2>2, OwnedFacts DEF Ending
  <2> QED
    BY <1>1, <2>1, <2>2, CellsApart
<1> QED
  BY <1>1, <1>2, <1>3, <1>4, <1>5

\* The cells that come out keep their values while they are copied.
LEMMA CopiedKeeps ==
  ASSUME NEW l, Ending(l), NEW n \in 1..calls[l].ndef, NEW m \in 0..calls[l].ndef,
         calls[l].args[n] = Own(l, n)
  PROVE  Copied(l, m)[Own(l, n)] = cell[Own(l, n)]
<1>1. Own(l, n) \in Cells /\ \A k \in 1..m : calls[l].callpar[k] # Own(l, n)
  BY EndingFacts
<1>2. Made(l, Own(l, n), m) = {}
  BY <1>1 DEF Made
<1> QED
  BY <1>1, <1>2 DEF Copied

LEMMA MadeGrows ==
  ASSUME NEW l, Ending(l), NEW n \in 1..calls[l].ndef, NEW c
  PROVE  /\ Made(l, c, n) \subseteq Nat /\ Made(l, c, n - 1) \subseteq 1..(n - 1)
         /\ \A k \in Made(l, c, n) : isarr(Own(l, k))
         /\ Made(l, c, n) = Made(l, c, n - 1) \cup
              IF calls[l].callpar[n] = c /\ HasCell(l, n) /\ isarr(Own(l, n)) THEN {n} ELSE {}
<1>1. calls[l].ndef \in Nat /\ \A k \in 1..n : k \in 1..(n - 1) \/ k = n
  BY EndingFacts
<1>2. n \in 1..n /\ \A k \in 1..(n - 1) : k \in 1..n
  BY <1>1
<1> QED
  BY <1>1, <1>2 DEF Made

\* One more parameter.
LEMMA CopiedOne ==
  ASSUME NEW l, Ending(l), NEW n \in 1..calls[l].ndef
  PROVE  Copied(l, n) = IF ComesOut(Copied(l, n - 1), calls[l], n)
                        THEN [Copied(l, n - 1) EXCEPT
                                ![calls[l].callpar[n]] = Copied(l, n - 1)[calls[l].args[n]]]
                        ELSE Copied(l, n - 1)
<1>1. PICK v : v = Copied(l, n - 1)
  OBVIOUS
<1>2. PICK p : p = calls[l].callpar[n]
  OBVIOUS
<1>3. PICK t : t = calls[l].args[n]
  OBVIOUS
<1>4. /\ IF t = Own(l, n) THEN v[t] = cell[t] ELSE t = p
      /\ t \in Cells /\ n \in 1..Len(calls[l].args)
      /\ p \in Cells \cup {Null, Freed} /\ n \in Nat /\ ~(n <= n - 1)
  <2>1. n - 1 \in 0..calls[l].ndef
    BY EndingFacts
  <2>2. t = Own(l, n) => v[t] = cell[t]
    BY <1>1, <1>3, <2>1, CopiedKeeps
  <2>3. t # Own(l, n) => t = p
    BY <1>2, <1>3, EndingFacts DEF Bound
  <2> QED
    BY <1>2, <1>3, <2>2, <2>3, EndingFacts
<1>5. ComesOut(v, calls[l], n) <=>
        t = Own(l, n) /\ p \in Cells /\ cell[t] \in Arrays /\ v[p] \notin Arrays
  BY <1>2, <1>3, <1>4, CellsAre DEF ComesOut
<1>6. ASSUME NEW c \in Cells, c # p PROVE Copied(l, n)[c] = v[c]
  <2>1. Made(l, c, n) = Made(l, c, n - 1)
    BY <1>2, <1>6, MadeGrows
  <2> QED
    BY <1>1, <2>1 DEF Copied
<1>7. p \in Cells => v[p] = IF cell[p] \notin Arrays /\ Made(l, p, n - 1) # {}
                            THEN cell[Own(l, First(Made(l, p, n - 1)))] ELSE cell[p]
  BY <1>1 DEF Copied
<1>8. p \in Cells => Copied(l, n)[p] = IF cell[p] \notin Arrays /\ Made(l, p, n) # {}
                                       THEN cell[Own(l, First(Made(l, p, n)))] ELSE cell[p]
  BY DEF Copied
<1>9. Copied(l, n) = [c \in Cells |-> Copied(l, n)[c]] /\ v = [c \in Cells |-> v[c]]
  BY <1>1 DEF Copied
<1>10. CASE t = Own(l, n) /\ p \in Cells /\ cell[t] \in Arrays /\ v[p] \notin Arrays
  <2>1. cell[p] \notin Arrays
    BY <1>7, <1>10
  <2>2. HasCell(l, n)
    BY <1>3, <1>4, <1>10 DEF HasCell
  <2>3. Made(l, p, n - 1) = {}
    <3> SUFFICES ASSUME Made(l, p, n - 1) # {} PROVE FALSE
      OBVIOUS
    <3>1. First(Made(l, p, n - 1)) \in Made(l, p, n - 1) /\ Made(l, p, n - 1) \subseteq Made(l, p, n)
      BY MadeGrows, FirstFacts
    <3>2. isarr(Own(l, First(Made(l, p, n - 1))))
      BY <3>1, MadeGrows
    <3> QED
      BY <1>7, <1>10, <2>1, <3>2 DEF isarr
  <2>4. Made(l, p, n) = {n}
    BY <1>2, <1>10, <2>2, <2>3, MadeGrows DEF isarr
  <2>5. First(Made(l, p, n)) = n
    <3>1. Made(l, p, n) \subseteq Nat /\ Made(l, p, n) # {}
      BY <1>4, <2>4
    <3>2. First(Made(l, p, n)) \in Made(l, p, n)
      BY ONLY <3>1, FirstFacts
    <3> QED
      BY <2>4, <3>2
  <2>6. Copied(l, n)[p] = v[t]
    BY <1>4, <1>8, <1>10, <2>1, <2>4, <2>5
  <2>7. Copied(l, n) = [v EXCEPT ![p] = v[t]]
    BY <1>6, <1>9, <1>10, <2>6
  <2> QED
    BY <1>1, <1>2, <1>3, <1>5, <1>10, <2>7
<1>11. CASE ~(t = Own(l, n) /\ p \in Cells /\ cell[t] \in Arrays /\ v[p] \notin Arrays)
  <2>1. ASSUME p \in Cells PROVE Copied(l, n)[p] = v[p]
    <3>1. CASE cell[p] \in Arrays
      BY <1>7, <1>8, <2>1, <3>1
    <3>2. CASE ~(HasCell(l, n) /\ isarr(Own(l, n)))
      <4>1. Made(l, p, n) = Made(l, p, n - 1)
        BY <3>2, MadeGrows
      <4> QED
        BY <1>7, <1>8, <2>1, <4>1
    <3>3. CASE cell[p] \notin Arrays /\ HasCell(l, n) /\ isarr(Own(l, n))
      <4>1. v[p] \in Arrays
        BY <1>3, <1>11, <2>1, <3>3 DEF HasCell, isarr
      <4>2. Made(l, p, n - 1) # {}
        BY <1>7, <2>1, <3>3, <4>1
      <4>3. Made(l, p, n) = Made(l, p, n - 1) \cup {n} /\ Made(l, p, n - 1) \subseteq 1..(n - 1)
            /\ Made(l, p, n) \subseteq Nat
        BY <1>2, <3>3, MadeGrows
      <4>4. First(Made(l, p, n)) = First(Made(l, p, n - 1))
        <5> DEFINE S == Made(l, p, n - 1)
        <5> DEFINE T == Made(l, p, n)
        <5>1. S \subseteq Nat /\ S # {} /\ T \subseteq Nat /\ T # {} /\ T = S \cup {n} /\ S \subseteq 1..(n - 1)
          BY <4>2, <4>3
        <5> HIDE DEF S, T
        <5>2. First(S) \in S /\ \A m \in S : First(S) <= m
          BY <5>1, FirstFacts
        <5>3. First(S) <= n
          <6>1. First(S) \in 1..(n - 1)
            BY <5>1, <5>2
          <6> QED
            BY ONLY <6>1, <1>4
        <5>4. First(S) \in T /\ \A m \in T : First(S) <= m
          BY <5>1, <5>2, <5>3
        <5>5. First(S) = First(T)
          BY <5>1, <5>4, FirstFacts
        <5> QED
          BY <5>5 DEF S, T
      <4>5. Made(l, p, n) # {}
        BY <4>3
      <4> QED
        BY <1>7, <1>8, <2>1, <4>2, <4>4, <4>5
    <3> QED
      BY <3>1, <3>2, <3>3
  <2>2. Copied(l, n) = v
    BY <1>6, <1>9, <2>1
  <2> QED
    BY <1>1, <1>5, <1>11, <2>2
<1> QED
  BY <1>10, <1>11

LEMMA CopiedBackIs ==
  ASSUME NEW l, Ending(l)
  PROVE  CopiedBack(calls[l]) = [n \in 0..calls[l].ndef |-> Copied(l, n)]
<1> DEFINE F == [n \in 0..calls[l].ndef |-> Copied(l, n)]
<1>1. calls[l].ndef \in Nat
  BY EndingFacts
<1>2. Copied(l, 0) = cell
  <2>1. \A c : Made(l, c, 0) = {}
    BY DEF Made
  <2>2. cell = [c \in Cells |-> cell[c]]
    BY DEF Ending, Sound, CellsSound, CellsTyped
  <2> QED
    BY <2>1, <2>2 DEF Copied
<1>3. ASSUME NEW n \in 0..calls[l].ndef, n # 0
      PROVE  F[n] = IF ComesOut(F[n - 1], calls[l], n)
                    THEN [F[n - 1] EXCEPT ![calls[l].callpar[n]] = F[n - 1][calls[l].args[n]]]
                    ELSE F[n - 1]
  <2>1. n \in 1..calls[l].ndef /\ n - 1 \in 0..calls[l].ndef
    BY <1>1, <1>3
  <2>2. F[n] = Copied(l, n) /\ F[n - 1] = Copied(l, n - 1)
    BY <2>1
  <2> HIDE DEF F
  <2>3. F[n] = IF ComesOut(Copied(l, n - 1), calls[l], n)
                    THEN [Copied(l, n - 1) EXCEPT ![calls[l].callpar[n]] = Copied(l, n - 1)[calls[l].args[n]]]
                    ELSE Copied(l, n - 1)
    BY <2>1, <2>2, CopiedOne
  <2> QED
    BY <2>2, <2>3
<1>4. DOMAIN F = 0..calls[l].ndef /\ F = [n \in 0..calls[l].ndef |-> F[n]] /\ F[0] = cell
  BY <1>1, <1>2
<1> HIDE DEF F
<1>5. Copying(calls[l], F)
  BY <1>3, <1>4 DEF Copying
<1> QED
  BY <1>1, <1>5, CopyingOnly DEF F

\* What Environments sees at the end of a call.
LEMMA EndMeans ==
  ASSUME NEW l, Ending(l), Runs(l) = TRUE
  PROVE  /\ Env!Depth = l /\ Env!Top.running
         /\ \A c : c \notin {Null, Freed, Constant} => Env!MadeFor(c) = Made(l, c, calls[l].ndef)
         /\ Env!MadeFor(Env!Expression) = {} <=>
              \A n \in 1..calls[l].ndef : calls[l].callpar[n] \in {Freed, Constant}
                                            => ~isarr(calls[l].args[n])
         /\ \A n \in 1..calls[l].ndef : Env!Top.params[n] = Parameter(l, n)
<1>1. l \in 1..Last /\ l \in Nat \ {0} /\ l = Last /\ Len(calls[l].args) = calls[l].ndef
  BY CallSizes DEF Ending
<1>2. Env!Depth = l /\ Env!Top = Scopes[l] /\ Env!Top.running
      /\ DOMAIN Env!Top.params = 1..calls[l].ndef
      /\ \A n \in 1..calls[l].ndef : Env!Top.params[n] = Parameter(l, n)
  BY <1>1, ScopesAre DEF Ending, Env!Top
<1>3. ASSUME NEW n \in 1..calls[l].ndef
      PROVE  /\ Parameter(l, n).home = IF calls[l].callpar[n] \in {Freed, Constant} THEN Freed
                                       ELSE calls[l].callpar[n]
             /\ Parameter(l, n).value \in Arrays <=> HasCell(l, n) /\ isarr(Own(l, n))
  BY <1>1, ValuesApart DEF Parameter, HasCell, isarr, Values
<1>4. ASSUME NEW c, c \notin {Null, Freed, Constant}
      PROVE  Env!MadeFor(c) = Made(l, c, calls[l].ndef)
  <2>1. \A n \in 1..calls[l].ndef : Parameter(l, n).home = c <=> calls[l].callpar[n] = c
    BY <1>3, <1>4
  <2> QED
    BY <1>2, <1>3, <2>1 DEF Env!MadeFor, Made
<1>5. Env!MadeFor(Env!Expression) = {} <=>
        \A n \in 1..calls[l].ndef : calls[l].callpar[n] \in {Freed, Constant}
                                      => ~isarr(calls[l].args[n])
  <2>1. ASSUME NEW n \in 1..calls[l].ndef
        PROVE  /\ Parameter(l, n).home = Freed <=> calls[l].callpar[n] \in {Freed, Constant}
               /\ calls[l].callpar[n] \in {Freed, Constant} => calls[l].args[n] = Own(l, n)
    <3>1. Bound(l, n) /\ l - 1 \in 0..Last
      BY EndingFacts
    <3>2. calls[l].callpar[n] \in {Freed, Constant} => ~Owned(calls[l].callpar[n], l - 1)
      BY <3>1, OwnedFacts DEF Ending
    <3> QED
      BY <1>3, <3>1, <3>2 DEF Bound
  <2>2. \A n \in 1..calls[l].ndef :
          Parameter(l, n).home = Freed /\ Parameter(l, n).value \in Arrays
            <=> calls[l].callpar[n] \in {Freed, Constant} /\ isarr(calls[l].args[n])
    BY <1>1, <1>3, <2>1 DEF HasCell
  <2> QED
    BY <1>2, <2>2 DEF Env!MadeFor, Env!Expression, Freed
<1> QED
  BY <1>2, <1>4, <1>5

\* A shared cell that is freed is one that is no array and is not made one by
\* an earlier parameter.
LEMMA OverwrittenMeans ==
  ASSUME NEW l, Ending(l), Runs(l) = TRUE
  PROVE  Env!Overwritten = {} <=> \A n \in 1..calls[l].ndef : ~FreesArgument(calls[l], n)
<1>1. /\ l \in 1..Last /\ calls[l].ndef \in Nat /\ l - 1 \in 0..Last
      /\ DOMAIN Env!Top.params = 1..calls[l].ndef
      /\ \A n \in 1..calls[l].ndef : Env!Top.params[n] = Parameter(l, n)
  <2>1. l \in 1..Last /\ Len(calls[l].args) = calls[l].ndef /\ Sound
    BY CallSizes DEF Ending
  <2>2. Env!Top = Scopes[l]
    BY EndMeans DEF Env!Top
  <2>3. DOMAIN Env!Top.params = 1..calls[l].ndef
    BY <2>1, <2>2, ScopesAre
  <2> QED
    BY <2>1, <2>3, EndingFacts, EndMeans
<1> SUFFICES ASSUME NEW n \in 1..calls[l].ndef
             PROVE  n \in Env!Overwritten <=> FreesArgument(calls[l], n)
  BY <1>1 DEF Env!Overwritten
<1>2. PICK p : p = calls[l].callpar[n]
  OBVIOUS
<1>3. /\ Bound(l, n) /\ n \in Nat /\ n \in 1..Len(calls[l].args) /\ n - 1 \in 0..calls[l].ndef
      /\ \A i : p # Own(l, i)
  BY <1>1, <1>2, EndingFacts
<1>4. CASE calls[l].args[n] = Own(l, n)
  <2>1. ~FreesArgument(calls[l], n)
    BY <1>2, <1>3, <1>4 DEF FreesArgument
  <2>2. Env!Top.params[n].value \in Values
    <3>1. Parameter(l, n).value = cell[Own(l, n)]
      BY <1>4 DEF Parameter
    <3>2. cell[Own(l, n)] \in Values
      BY <1>3, <1>4 DEF Bound
    <3> QED
      BY <1>1, <3>1, <3>2
  <2> QED
    BY <2>1, <2>2, ValuesApart DEF Env!Overwritten, Env!Shared
<1>5. CASE calls[l].args[n] # Own(l, n)
  <2>1. calls[l].args[n] = p /\ Owned(p, l - 1)
    BY <1>2, <1>3, <1>5 DEF Bound
  <2>2. p \in Cells /\ p \notin {Null, Freed, Constant} /\ Owned(p, Last)
    BY <1>1, <2>1, OwnedFacts DEF Ending
  <2>3. Env!At(p) = cell[p] /\ Env!MadeFor(p) = Made(l, p, calls[l].ndef)
    BY <2>2, AtMeans, EndMeans DEF Ending
  <2>4. Env!Top.params[n].home = p /\ Env!Top.params[n].value = Env!Shared
    <3>1. Parameter(l, n).home = p /\ Parameter(l, n).value = "shared"
      BY <1>2, <1>5, <2>2 DEF Parameter
    <3> QED
      BY <1>1, <3>1 DEF Env!Shared
  <2>5. n \in Env!Overwritten <=>
          cell[p] \notin Arrays /\ \A m \in Made(l, p, calls[l].ndef) : n < m
    BY <1>1, <2>3, <2>4 DEF Env!Overwritten
  <2>6. CopiedBack(calls[l])[n - 1][p] = Copied(l, n - 1)[p]
    BY <1>3, CopiedBackIs
  <2>7. FreesArgument(calls[l], n) <=> Copied(l, n - 1)[p] \notin Arrays
    BY <1>2, <2>1, <2>6 DEF FreesArgument
  <2>8. (\A m \in Made(l, p, calls[l].ndef) : n < m) <=> Made(l, p, n - 1) = {}
    <3>1. n \notin Made(l, p, calls[l].ndef)
      BY <1>5 DEF Made, HasCell
    <3>2. \A m \in 1..calls[l].ndef : (m \in 1..(n - 1) <=> ~(n < m) /\ m # n)
      BY <1>1, <1>3
    <3>3. \A m \in 1..(n - 1) : m \in 1..calls[l].ndef
      BY <1>1, <1>3
    <3> QED
      BY <3>1, <3>2, <3>3 DEF Made
  <2>9. Copied(l, n - 1)[p] \notin Arrays <=> cell[p] \notin Arrays /\ Made(l, p, n - 1) = {}
    <3> DEFINE M == Made(l, p, n - 1)
    <3>1. M \subseteq Nat /\ \A m \in M : cell[Own(l, m)] \in Arrays
      BY <1>3 DEF Made, isarr
    <3>2. Copied(l, n - 1)[p] = IF cell[p] \notin Arrays /\ M # {}
                                THEN cell[Own(l, First(M))] ELSE cell[p]
      BY <2>2 DEF Copied
    <3> HIDE DEF M
    <3>3. M # {} => cell[Own(l, First(M))] \in Arrays
      BY <3>1, FirstFacts
    <3> QED
      BY <3>2, <3>3 DEF M
  <2> QED
    BY <2>5, <2>7, <2>8, <2>9
<1> QED
  BY <1>4, <1>5

LEMMA AfterMeans ==
  ASSUME NEW l, Ending(l), Runs(l) = TRUE
  PROVE  /\ \A c : Owned(c, l - 1) => Env!After(c) = Copied(l, calls[l].ndef)[c]
         /\ \A k \in 1..(l - 1) : \A n \in 1..Len(calls[k].args) :
              ~HasCell(k, n) => Env!After(Own(k, n)) = "shared"
<1>1. ASSUME NEW c, Owned(c, l - 1) PROVE Env!After(c) = Copied(l, calls[l].ndef)[c]
  <2>1. /\ c \in Cells /\ c \notin {Null, Freed, Constant} /\ cell[c] \in Values
        /\ Env!At(c) = cell[c]
    BY <1>1, EndingFacts, OwnedFacts, AtMeans DEF Ending
  <2>2. Env!MadeFor(c) = Made(l, c, calls[l].ndef)
    BY <2>1, EndMeans
  <2>3. cell[c] \in Scalars <=> cell[c] \notin Arrays
    BY <2>1, ValuesApart DEF Values
  <2> DEFINE M == Made(l, c, calls[l].ndef)
  <2>4. Env!After(c) = IF cell[c] \notin Arrays /\ M # {} THEN Env!Top.params[First(M)].value
                       ELSE cell[c]
    BY <2>1, <2>2, <2>3 DEF Env!After, First
  <2>5. ASSUME M # {} PROVE Env!Top.params[First(M)].value = cell[Own(l, First(M))]
    <3>1. M \subseteq 1..calls[l].ndef /\ \A n \in M : HasCell(l, n)
      BY DEF Made
    <3>2. M \subseteq Nat
      BY <3>1, EndingFacts
    <3> HIDE DEF M
    <3>3. First(M) \in M
      BY <2>5, <3>2, FirstFacts
    <3>4. HasCell(l, First(M)) /\ Env!Top.params[First(M)] = Parameter(l, First(M))
      BY <3>1, <3>3, EndMeans
    <3> QED
      BY <3>4 DEF Parameter, HasCell
  <2>6. Copied(l, calls[l].ndef)[c] = IF cell[c] \notin Arrays /\ M # {}
                                      THEN cell[Own(l, First(M))] ELSE cell[c]
    BY <2>1 DEF Copied
  <2> HIDE DEF M
  <2> QED
    BY <2>4, <2>5, <2>6
<1>2. ASSUME NEW k \in 1..(l - 1), NEW n \in 1..Len(calls[k].args), ~HasCell(k, n)
      PROVE  Env!After(Own(k, n)) = "shared"
  <2>1. k \in 1..Last /\ k # 0
    BY EndingFacts DEF Ending
  <2>2. Env!At(Own(k, n)) = Scopes[k].params[n].value
    BY <2>1 DEF Env!At, Own
  <2>3. Scopes[k].params[n] = Parameter(k, n)
    BY <2>1, ScopesAre DEF Ending
  <2>4. Parameter(k, n).value = "shared"
    BY <1>2 DEF Parameter, HasCell
  <2> QED
    BY <2>2, <2>3, <2>4, ValuesApart DEF Env!After, Values
<1> QED
  BY <1>1, <1>2

\* Copied values are values, and arrays stay arrays.
LEMMA CopiedSafe ==
  ASSUME NEW l, Ending(l), NEW c \in Cells
  PROVE  /\ Copied(l, calls[l].ndef)[c] = cell[c] \/ Copied(l, calls[l].ndef)[c] \in Arrays
         /\ Copied(l, calls[l].ndef)[c] # cell[c] => cell[c] \notin Arrays
         /\ (\A n \in 1..calls[l].ndef : calls[l].callpar[n] = c => ~isarr(calls[l].args[n]))
              => Copied(l, calls[l].ndef)[c] = cell[c]
<1> DEFINE M == Made(l, c, calls[l].ndef)
<1>1. M \subseteq Nat /\ \A n \in M : isarr(Own(l, n))
  BY EndingFacts DEF Made
<1>2. Copied(l, calls[l].ndef)[c] = IF cell[c] \notin Arrays /\ M # {}
                                    THEN cell[Own(l, First(M))] ELSE cell[c]
  BY DEF Copied
<1>3. (\A n \in 1..calls[l].ndef : calls[l].callpar[n] = c => ~isarr(calls[l].args[n])) => M = {}
  BY DEF Made, HasCell
<1> HIDE DEF M
<1>4. M # {} => cell[Own(l, First(M))] \in Arrays
  BY <1>1, FirstFacts DEF isarr
<1> QED
  BY <1>2, <1>3, <1>4

\* The calls that are left.
LEMMA CallsLeft ==
  ASSUME Sound, Top(stack) = "function", stack' = Below(stack),
         NEW l, l = Last, calls' = SubSeq(calls, 1, l - 1)
  PROVE  /\ DOMAIN calls' = 1..(l - 1) /\ Len(calls') = l - 1
         /\ \A k \in 1..(l - 1) : calls'[k] = calls[k] /\ Runs(k)' = Runs(k)
<1>1. l \in Nat \ {0} /\ \A k \in 1..(l - 1) : calls[k].at \in 1..(Len(stack) - 1)
  BY LastRuns
<1>2. PICK S : calls \in Seq(CallRecord(S))
  BY DEF Sound, Working, Frames
<1> DEFINE q == l - 1
<1> DEFINE C == CallRecord(S)
<1>3. q \in Nat /\ q <= Len(calls) /\ calls' = SubSeq(calls, 1, q) /\ calls \in Seq(C)
  BY <1>1, <1>2 DEF Last
<1> HIDE DEF q, C
<1>4. /\ SubSeq(calls, 1, q) \in Seq(C)
      /\ Len(SubSeq(calls, 1, q)) = IF 1 <= q THEN q - 1 + 1 ELSE 0
      /\ \A i \in 1..(q - 1 + 1) : SubSeq(calls, 1, q)[i] = calls[1 + i - 1]
  BY <1>3, SubSeqProperties
<1>5. Len(calls') = q /\ \A i \in 1..q : calls'[i] = calls[i]
  <2>1. Len(SubSeq(calls, 1, q)) = q /\ \A i \in 1..q : SubSeq(calls, 1, q)[i] = calls[i]
    <3>1. q \in Nat
      BY <1>3
    <3> QED
      BY ONLY <3>1, <1>4
  <2> QED
    BY <1>3, <2>1
<1>6. DOMAIN calls' = 1..q
  BY <1>3, <1>4, <1>5, LenProperties
<1>7. \A i \in 1..(Len(stack) - 1) : stack'[i] = stack[i]
  BY BelowFacts DEF Sound, Working
<1>8. \A k \in 1..q : Runs(k)' = Runs(k)
  BY <1>1, <1>5, <1>7 DEF Runs, q
<1> QED
  BY <1>5, <1>6, <1>8 DEF q

Ills == {"argument was freed", "constant is array", "variable was freed"}

LEMMA TroubleIs ==
  ASSUME NEW call
  PROVE  /\ Trouble(call) \notin Ills <=>
              \A n \in 1..call.ndef :
                /\ call.callpar[n] \in {Freed, Constant} => ~isarr(call.args[n])
                /\ ~FreesArgument(call, n)
         /\ Trouble(call) \in {"argument was freed", "constant is array"} =>
              \E n \in 1..call.ndef : call.callpar[n] \in {Freed, Constant}
         /\ Trouble(call) = "variable was freed" =>
              \E n \in 1..call.ndef : FreesArgument(call, n)
BY DEF Trouble, Ills

LEMMA EndStep ==
  ASSUME Sound, PlainArguments, EndCall, UNCHANGED text
  PROVE  Meant
<1>1. PICK l : l = Last
  OBVIOUS
<1>2. /\ Top(stack) = "function" /\ stack' = Below(stack)
      /\ calls' = SubSeq(calls, 1, l - 1) /\ fault' = Trouble(calls[l])
      /\ cell' = [c \in Cells |-> IF c[1] = l THEN NoValue ELSE CopiedBack(calls[l])[calls[l].ndef][c]]
  BY <1>1 DEF EndCall, Result, At, Return
<1>3. Ending(l) /\ Runs(l) = TRUE /\ l \in Nat \ {0} /\ l \in 1..l
  BY <1>1, <1>2, LastRuns DEF Ending
<1>4. /\ DOMAIN calls' = 1..(l - 1) /\ Len(calls') = l - 1
      /\ \A k \in 1..(l - 1) : calls'[k] = calls[k] /\ Runs(k)' = Runs(k)
  BY <1>1, <1>2, CallsLeft
<1>5. /\ l - 1 \in Nat /\ l - 1 \in 0..Last /\ \A k \in 1..(l - 1) : k \in 1..Last /\ k # l /\ k # 0
  BY <1>1, <1>3
<1>6. PlainArguments'
  BY <1>1, <1>2, <1>4, <1>5 DEF PlainArguments, Last
<1>7. Env!Depth = l /\ Env!Top.running /\ Defined = TRUE /\ l > 0
  <2>1. Env!Depth = l /\ Env!Top.running
    BY <1>3, EndMeans
  <2>2. Defined = TRUE
    BY DEF Sound, Defined
  <2> QED
    BY <1>3, <2>1, <2>2
<1>8. CASE fault' \in Ills
  <2>1. ~Env!Meaningful
    BY <1>2, <1>3, <1>8, TroubleIs, EndMeans, OverwrittenMeans DEF Env!Meaningful
  <2>2. Defined' = FALSE /\ fault' # "none"
    BY <1>8 DEF Defined, Ills
  <2>3. Env!Undefined
    BY <1>7, <2>1, <2>2 DEF Env!Undefined
  <2> QED
    BY <1>6, <1>7, <2>2, <2>3 DEF Meant, Env!Next
<1>9. CASE fault' \notin Ills
  <2> DEFINE C == Copied(l, calls[l].ndef)
  <2>1. \A n \in 1..calls[l].ndef : calls[l].callpar[n] \in {Freed, Constant} => ~isarr(calls[l].args[n])
    BY <1>2, <1>9, TroubleIs
  <2>2. Env!Meaningful /\ Defined' = TRUE
    BY <1>2, <1>3, <1>9, TroubleIs, EndMeans, OverwrittenMeans DEF Defined, Ills, Env!Meaningful
  <2>3. CopiedBack(calls[l])[calls[l].ndef] = C
    <3>1. calls[l].ndef \in 0..calls[l].ndef
      BY <1>3, EndingFacts
    <3> QED
      BY <1>3, <3>1, CopiedBackIs
  <2>4. CellsTyped
    BY DEF Sound, CellsSound
  <2>5. \A c \in Cells : /\ C[c] = cell[c] \/ C[c] \in Arrays
                         /\ C[c] # cell[c] => cell[c] \notin Arrays
    BY <1>3, CopiedSafe
  <2>6. C[Constant] = cell[Constant]
    BY <1>3, <2>1, CellsAre, CopiedSafe
  <2> HIDE DEF C
  <2>7. \A c \in Cells : cell'[c] = IF c[1] = l THEN NoValue ELSE C[c]
    BY <1>2, <2>3
  <2>8. /\ Constant[1] # l /\ \A g \in Globals : Global(g)[1] # l
        /\ \A k \in 1..(l - 1) : \A n : Own(k, n)[1] # l
    BY <1>3, <1>5 DEF Constant, Global, Own
  <2>9. ASSUME NEW c, Owned(c, l - 1)
        PROVE  cell'[c] = C[c] /\ c \in Cells /\ cell[c] \in Values /\ cell'[c] \in Values
               /\ Persists(c)
    <3>1. c \in Cells /\ cell[c] \in Values
      BY <1>5, <2>9, OwnedFacts
    <3>2. c[1] # l
      BY <2>8, <2>9 DEF Owned
    <3> QED
      BY <2>5, <2>7, <3>1, <3>2, ValuesApart DEF Persists
  <2>10. CellsTyped'
    <3>1. cell' \in [Cells -> Values \cup {NoValue}]
      <4>1. \A c \in Cells : C[c] \in Values \cup {NoValue}
        BY <2>4, <2>5, ValuesApart DEF CellsTyped
      <4> QED
        BY <1>2, <2>3, <4>1
    <3>2. \A g \in Globals : Owned(Global(g), l - 1)
      BY DEF Owned
    <3>3. cell'[Constant] = cell[Constant]
      BY <2>6, <2>7, <2>8, CellsAre
    <3> QED
      BY <2>4, <2>9, <3>1, <3>2, <3>3 DEF CellsTyped
  <2>11. CellsSound'
    <3>1. \A k \in 1..(l - 1) : CallSound(k)'
      BY <1>4, <1>5, <2>9, KeepsCalls
    <3>2. l - 1 <= text.calls
      <4>1. Last <= text.calls /\ text.calls \in 0..MaxCalls
        BY Bounds DEF Sound, CellsSound, ControlInv, Last
      <4> QED
        BY ONLY <1>1, <1>3, <4>1, Bounds
    <3> QED
      BY <1>4, <2>10, <3>1, <3>2 DEF CellsSound
  <2>12. Variables' = [g \in Globals |-> Env!After(Env!Place(g))]
    <3>1. ASSUME NEW g \in Globals PROVE cell'[Global(g)] = Env!After(Env!Place(g))
      <4>1. Owned(Global(g), l - 1) /\ Env!Place(g) = Global(g)
        BY DEF Owned, Env!Place, Global
      <4> QED
        BY <1>3, <2>9, <4>1, AfterMeans DEF C
    <3> QED
      BY <3>1 DEF Variables
  <2>13. Scopes' = [k \in 1..(l - 1) |->
           [Scopes[k] EXCEPT !.params =
              [n \in DOMAIN @ |-> [@[n] EXCEPT !.value = Env!After(<<k, n>>)]]]]
    <3>1. Scopes' = [k \in 1..(l - 1) |-> Scope(k)']
      BY <1>4 DEF Scopes
    <3>2. ASSUME NEW k \in 1..(l - 1)
          PROVE  Scope(k)' = [Scopes[k] EXCEPT !.params =
                    [n \in DOMAIN @ |-> [@[n] EXCEPT !.value = Env!After(<<k, n>>)]]]
      <4> DEFINE N == 1..Len(calls[k].args)
      <4> DEFINE P == [n \in N |-> Parameter(k, n)]
      <4> DEFINE Q == [n \in N |-> Parameter(k, n)']
      <4> DEFINE r == Runs(k)
      <4>1. Scopes[k] = [running |-> r, params |-> P]
        BY <1>5, CallSizes DEF Scopes, Scope, Last
      <4>2. Scope(k)' = [running |-> r, params |-> Q]
        <5>1. Runs(k)' = r /\ DOMAIN calls'[k].args = N
          BY <1>4, <1>5, CallSizes
        <5> QED
          BY <5>1 DEF Scope
      <4>3. ASSUME NEW n \in N
            PROVE  Parameter(k, n)' = [Parameter(k, n) EXCEPT !.value = Env!After(<<k, n>>)]
        <5>1. calls'[k] = calls[k] /\ Own(k, n) = <<k, n>>
          BY <1>4 DEF Own
        <5>2. CASE HasCell(k, n)
          <6>1. Owned(Own(k, n), l - 1)
            BY <5>2 DEF Owned, HasCell
          <6>2. cell'[Own(k, n)] = Env!After(<<k, n>>)
            BY <1>3, <2>9, <5>1, <6>1, AfterMeans DEF C
          <6> QED
            BY <5>1, <5>2, <6>2 DEF Parameter, HasCell
        <5>3. CASE ~HasCell(k, n)
          <6>1. Env!After(<<k, n>>) = "shared"
            BY <1>3, <5>1, <5>3, AfterMeans
          <6> QED
            BY <5>1, <5>3, <6>1 DEF Parameter, HasCell
        <5> QED
          BY <5>2, <5>3
      <4>4. Q = [n \in DOMAIN P |-> [P[n] EXCEPT !.value = Env!After(<<k, n>>)]]
        BY <4>3
      <4> HIDE DEF P, Q, r
      <4>5. Scopes[k].params = P
        BY ONLY <4>1, OtherParams
      <4>6. [Scopes[k] EXCEPT !.params = Q] = [running |-> r, params |-> Q]
        BY ONLY <4>1, OtherParams
      <4> QED
        BY <4>2, <4>4, <4>5, <4>6
    <3> QED
      BY <3>1, <3>2
  <2>14. Env!Return
    BY <1>7, <2>2, <2>12, <2>13 DEF Env!Return
  <2> QED
    BY <1>6, <1>7, <2>2, <2>11, <2>14 DEF Meant, Env!Next
<1> QED
  BY <1>8, <1>9
-----------------------------------------------------------------------------
\* A step of a program is a step of its names, and has its memory in order.
LEMMA MemoryStep ==
  ASSUME ControlInv, FrameInv, MemoryInv, Plain, PlainArguments, CallsNext
  PROVE  Sound /\ Meant
<1>1. stack # <<>>
  <2> SUFFICES ASSUME stack = <<>> PROVE FALSE
    OBVIOUS
  <2>1. x \in {"over", "error"}
    BY DEF ControlInv
  <2> QED
    BY <2>1 DEF CallsNext, assign, awkgetline, array, awkdelete, Statement, BeginCall,
      Enter, CallIn, PassPlain, PassResult, Argument, StartBody, Body, EndCall, Result, Other, jump, Value,
      NextStatement, Returned, Abandon, Error, At
<1>2. Sound /\ UNCHANGED text
  BY <1>1 DEF Sound, ControlInv, WellFormed, Working, FrameInv, MemoryInv, CallsNext
<1>3. CASE Other
  <2>1. Moves /\ UNCHANGED <<calls, cell, fault>>
    BY <1>2, <1>3, OtherInside, InsideMoves DEF Sound, Other
  <2> QED
    BY <1>2, <2>1, IdleStep
<1> QED
  BY <1>2, <1>3, SetStep, BeginStep, ArgumentStep, StartStep, EndStep, AbandonStep DEF CallsNext

LEMMA FaultStep ==
  ASSUME Sound, PlainArguments, FaultCauses, CallsNext
  PROVE  FaultCauses'
<1>1. UNCHANGED text
  BY DEF CallsNext
<1>2. CASE UNCHANGED fault
  BY <1>1, <1>2 DEF FaultCauses
<1>3. CASE EndCall
  <2>1. /\ fault' = Trouble(calls[Last]) /\ Top(stack) = "function"
        /\ text.returns => x # "done"
    BY <1>3 DEF EndCall, Result, At
  <2>2. Last \in 1..Last /\ Len(calls[Last].args) = calls[Last].ndef
    BY <2>1, LastRuns
  <2>3. ~text.expressions => \A n \in 1..calls[Last].ndef : calls[Last].callpar[n] \notin {Freed, Constant}
    BY <2>2 DEF PlainArguments, Last
  <2>4. ~text.expressions => fault' \notin {"argument was freed", "constant is array"}
    BY <2>1, <2>3, TroubleIs
  <2>5. fault' = "result was freed" => x = "done"
    BY <2>1 DEF Trouble
  <2>6. ~text.getlines => fault' # "variable was freed"
    <3>1. PICK l : l = Last
      OBVIOUS
    <3>2. Ending(l)
      BY <2>2, <3>1 DEF Ending
    <3>3. ASSUME ~text.getlines, NEW n \in 1..calls[l].ndef, FreesArgument(calls[l], n) PROVE FALSE
      <4> DEFINE p == calls[l].callpar[n]
      <4>1. /\ Bound(l, n) /\ n - 1 \in 0..calls[l].ndef
            /\ p # Own(l, n) /\ p \in Cells \cup {Null, Freed} /\ calls[l].args[n] = p
            /\ calls[l].args[n] \in Cells
        BY <3>2, <3>3, EndingFacts DEF FreesArgument
      <4>2. cell[p] \in Arrays /\ p \in Cells
        BY <3>3, <4>1 DEF Bound
      <4>3. CopiedBack(calls[l])[n - 1][p] = cell[p]
        <5>1. Copied(l, n - 1)[p] = cell[p]
          BY <4>2 DEF Copied
        <5> HIDE DEF p
        <5> QED
          BY <3>2, <4>1, <5>1, CopiedBackIs
      <4> QED
        BY <3>3, <4>1, <4>2, <4>3 DEF FreesArgument
    <3> QED
      BY <2>1, <3>1, <3>3, TroubleIs
  <2> QED
    BY <1>1, <2>1, <2>4, <2>5, <2>6 DEF FaultCauses
<1> QED
  BY <1>2, <1>3 DEF CallsNext, assign, awkgetline, array, awkdelete, BeginCall, PassPlain, PassResult,
    StartBody, Other, Abandon

\* The memory of calls, in every state.
CallsInv == FrameInv /\ MemoryInv /\ Plain /\ PlainArguments /\ FaultCauses

LEMMA CallsInvStep ==
  ASSUME ControlInv, CallsInv, [CallsNext \/ Finished]_all
  PROVE  /\ CallsInv'
         /\ Env!Next \/ UNCHANGED <<Variables, Scopes, Defined>>
<1>1. CASE CallsNext
  <2>1. Sound /\ Meant
    BY <1>1, MemoryStep DEF CallsInv
  <2>2. FrameInv' /\ Plain'
    BY <1>1, FrameStep, PlainStep DEF CallsInv
  <2>3. FaultCauses'
    BY <1>1, <2>1, FaultStep DEF CallsInv
  <2> QED
    BY <2>1, <2>2, <2>3 DEF CallsInv, Meant, MemoryInv
<1>2. CASE UNCHANGED all
  <2>1. UNCHANGED <<text, stack, x, calls, fn, cell, value, fault>>
    BY <1>2 DEF all, control, store
  <2>2. \A k, n : Parameter(k, n)' = Parameter(k, n)
    BY <2>1 DEF Parameter
  <2>3. \A k : Runs(k)' = Runs(k)
    BY <2>1 DEF Runs
  <2>4. \A k : Scope(k)' = Scope(k)
    BY <2>1, <2>2, <2>3 DEF Scope
  <2>5. UNCHANGED <<Variables, Scopes, Defined>>
    BY <2>1, <2>4 DEF Variables, Scopes, Defined
  <2>6. FrameInv' /\ Plain' /\ PlainArguments' /\ FaultCauses'
    BY <2>1 DEF CallsInv, FrameInv, Plain, At, PlainArguments, FaultCauses
  <2>7. \A k, n : HasCell(k, n)' <=> HasCell(k, n)
    BY <2>1 DEF HasCell
  <2>8. \A c, m : Owned(c, m)' <=> Owned(c, m)
    BY <2>1, <2>7 DEF Owned
  <2>9. \A k, n : Bound(k, n) => Bound(k, n)'
    BY <2>1, <2>8 DEF Bound
  <2>10. \A k : CallSound(k) => CallSound(k)'
    BY <2>1, <2>3, <2>9 DEF CallSound
  <2>11. CellsTyped => CellsTyped'
    BY <2>1 DEF CellsTyped
  <2>12. MemoryInv'
    BY <2>1, <2>10, <2>11 DEF CallsInv, MemoryInv, CellsSound
  <2> QED
    BY <2>5, <2>6, <2>12 DEF CallsInv
<1> QED
  BY <1>1, <1>2 DEF Finished

LEMMA CallsInvStart ==
  ASSUME CallsInit, text \in Programs
  PROVE  CallsInv /\ Variables = [g \in Globals |-> "scalar"] /\ Scopes = <<>> /\ Defined = TRUE
<1>1. calls = <<>> /\ fault = "none"
      /\ cell = [c \in Cells |-> IF c[1] = 0 THEN "scalar" ELSE NoValue]
  BY DEF CallsInit
<1>2. Len(calls) = 0 /\ DOMAIN calls = {} /\ 1..0 = {}
  BY <1>1
<1>3. /\ cell \in [Cells -> Values \cup {NoValue}]
      /\ cell[Constant] = "scalar" /\ \A g \in Globals : cell[Global(g)] = "scalar"
  <2>1. Constant[1] = 0 /\ \A g \in Globals : Global(g)[1] = 0
    BY DEF Constant, Global
  <2>2. "scalar" \in Values
    BY ValuesApart
  <2> QED
    BY <1>1, <2>1, <2>2, CellsAre
<1>4. MemoryInv
  <2>1. CellsTyped
    BY <1>3, ValuesApart DEF CellsTyped
  <2>2. 0 <= text.calls
    BY Bounds
  <2> QED
    BY <1>2, <2>1, <2>2 DEF MemoryInv, CellsSound
<1>5. Plain
  <2>1. PICK p : stack = <<p>>
    BY DEF CallsInit, Init
  <2>2. x = "go" /\ \A i \in 1..(Len(stack) - 1) : FALSE
    BY <2>1 DEF CallsInit, Init
  <2> QED
    BY <2>2 DEF Plain
<1>6. PlainArguments /\ FaultCauses
  BY <1>1, <1>2 DEF PlainArguments, FaultCauses
<1>7. Variables = [g \in Globals |-> "scalar"]
  BY <1>3 DEF Variables
<1>8. Scopes = <<>> /\ Defined = TRUE
  BY <1>1, <1>2 DEF Scopes, Defined
<1> QED
  BY <1>4, <1>5, <1>6, <1>7, <1>8, FrameStart DEF CallsInv

LEMMA CallsInvariant == CallsSpec => []ControlInv /\ []CallsInv
<1>1. CallsSpec => []ControlInv
  BY CallsControl, ControlSafe, PTL
<1>2. ControlInv /\ CallsInv /\ [CallsNext \/ Finished]_all => CallsInv'
  BY CallsInvStep
<1>3. CallsInit => CallsInv
  BY CallsInvStart DEF CallsInit, Init
<1> QED
  BY <1>1, <1>2, <1>3, PTL DEF CallsSpec

\* Memory is in order until a fault: every variable and every constant has a
\* value, and a parameter has a cell of its own with a value or is the array
\* of a variable or of a parameter further out, which a record may have been
\* read into since (run.cpp:208-231, 289-315).
THEOREM CallsMemory == CallsSpec => []MemoryInv
BY CallsInvariant, PTL DEF CallsInv

\* Calls touch freed or shared memory only in programs that pass expressions
\* where an array is made, that read records into names, or whose functions end
\* without return (run.cpp:218, 290, 309, 317).
THEOREM CallsFaultCauses == CallsSpec => []FaultCauses
BY CallsInvariant, PTL DEF CallsInv

\* Names mean what they should, through any nesting of calls, jumps and errors:
\* Calls implements Environments (run.cpp:208-231, 289-315).
THEOREM CallsImplementEnvironments == CallsSpec => ImplementsEnvironments
<1>1. CallsInit => Env!Init
  BY CallsInvStart DEF CallsInit, Init, Env!Init
<1>2. ControlInv /\ CallsInv /\ [CallsNext \/ Finished]_all => [Env!Next]_(Env!environment)
  BY CallsInvStep DEF Env!environment
<1> QED
  BY <1>1, <1>2, CallsInvariant, PTL DEF CallsSpec, ImplementsEnvironments, Env!Spec
=============================================================================
