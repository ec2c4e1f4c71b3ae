-------------------------- MODULE FileTableProofs ---------------------------
(***************************************************************************)
(* For core programs the table of open files is a set of connections, and  *)
(* no null or closed stream is used, for every set of names, every size of *)
(* the table and any number of streams and runs.                           *)
(*                                                                         *)
(* For any program and any host no stream is lost, and a null or a closed  *)
(* one is used for the reasons that FaultCauses gives only.                *)
(***************************************************************************)
EXTENDS FileTableProps, WellFoundedInduction, TLAPS

SlotType == [name : Name \cup {"", "-", "/dev/stdout", "/dev/stderr"},
             fp : Nat \cup {NoFile},
             mode : {"none", "GT", "PIPE", "LE", "LT"}, freed : BOOLEAN]

Shape == files \in Seq(SlotType) /\ Len(files) >= 3

\* The host redirects nothing and the program closes no standard stream.
StdSlots == \A i \in Std : files[i] = Slot(StdName[i], i - 1, StdMode[i])

\* A slot with a stream has an open one and a name; a slot without has no name
\* or a freed one.
SoundSlot(sl) ==
  /\ sl.fp # NoFile => /\ sl.fp \in open
                       /\ ~sl.freed
                       /\ sl.mode # "none"
                       /\ sl.name # ""
  /\ sl.fp = NoFile /\ ~sl.freed => sl.name = ""

Sound == \A i \in DOMAIN files : SoundSlot(files[i])

\* No two slots in use have the same stream, nor the same name and mode.
Apart == \A i, j \in Used :
  /\ files[i].fp = files[j].fp => i = j
  /\ files[i].name = files[j].name /\ files[i].mode = files[j].mode => i = j

Opened == /\ made \in Nat /\ made >= 3 /\ made <= MaxStreams + 3
          /\ open \subseteq 0..made - 1

Table == Shape /\ StdSlots /\ Sound /\ Apart /\ Opened

\* A run starts and stays without freed names; a print holds an open stream.
Running == /\ running \in BOOLEAN /\ runs \in Nat
           /\ running => Freed = {}
           /\ pending = NotPrinting \/ pending \in open
           /\ fault = "none"

Inv == Table /\ Running
-----------------------------------------------------------------------------
\* The first slot of a set of slots is one of them.
LEMMA FirstIn ==
  ASSUME NEW S, S \subseteq Nat, S # {}
  PROVE  First(S) \in S
<1> DEFINE R == {ss \in Nat \X Nat : ss[1] < ss[2]}
<1>1. IsWellFoundedOn(R, Nat)
  BY NatLessThanWellFounded DEF OpToRel
<1>2. PICK m \in S : \A y \in S : ~(<<y, m>> \in R)
  BY <1>1, WFMin
<1>3. ASSUME NEW y \in S PROVE m <= y
  <2>1. <<y, m>> \in Nat \X Nat
    OBVIOUS
  <2>2. ~(<<y, m>>[1] < <<y, m>>[2])
    BY <2>1, <1>2
  <2>3. <<y, m>>[1] = y /\ <<y, m>>[2] = m
    OBVIOUS
  <2> HIDE DEF R
  <2>4. ~(y < m)
    BY <2>2, <2>3
  <2> QED
    BY <2>4
<1> QED
  BY <1>3 DEF First

LEMMA Sizes == FOPEN_MAX \in Nat /\ FOPEN_MAX >= 3 /\ MaxStreams \in Nat /\ MaxRuns \in Nat
BY FileAssumption

LEMMA NamesNotEmpty == "" \notin Name
BY FileAssumption

LEMMA SlotParts ==
  ASSUME NEW s, NEW f, NEW m
  PROVE  /\ Slot(s, f, m).name = s /\ Slot(s, f, m).fp = f
         /\ Slot(s, f, m).mode = m /\ ~Slot(s, f, m).freed
BY DEF Slot

\* The slots of the standard streams.
LEMMA StdTyped ==
  \A i \in Std : /\ Slot(StdName[i], i - 1, StdMode[i]) \in SlotType
                /\ StdName[i] # "" /\ StdMode[i] # "none"
                /\ i - 1 \in 0..2
<1> SUFFICES ASSUME NEW i \in Std
             PROVE  /\ Slot(StdName[i], i - 1, StdMode[i]) \in SlotType
                    /\ StdName[i] # "" /\ StdMode[i] # "none"
                    /\ i - 1 \in 0..2
  OBVIOUS
<1>1. StdName[i] \in {"-", "/dev/stdout", "/dev/stderr"}
  BY DEF Std, StdName
<1>2. StdMode[i] \in {"GT", "LT"}
  BY DEF Std, StdMode
<1>3. i - 1 \in 0..2
  BY DEF Std
<1>4. i - 1 \in Nat
  BY <1>3
<1>5. Slot(StdName[i], i - 1, StdMode[i]) \in SlotType
  BY <1>1, <1>2, <1>4 DEF Slot, SlotType
<1>6. StdName[i] # ""
  BY <1>1
<1>7. StdMode[i] # "none"
  BY <1>2
<1> QED
  BY <1>3, <1>5, <1>6, <1>7

LEMMA StdDistinct ==
  /\ \A i, j \in Std : i - 1 = j - 1 => i = j
  /\ \A i, j \in Std : StdName[i] = StdName[j] => i = j
<1>1. ASSUME NEW i \in Std, NEW j \in Std, i - 1 = j - 1 PROVE i = j
  <2>1. i \in Int /\ j \in Int
    BY DEF Std
  <2> QED
    BY <1>1, <2>1
<1>2. ASSUME NEW i \in Std, NEW j \in Std, StdName[i] = StdName[j] PROVE i = j
  <2>1. /\ i = 1 \/ i = 2 \/ i = 3
        /\ j = 1 \/ j = 2 \/ j = 3
    BY DEF Std
  <2>2. StdName[1] = "-" /\ StdName[2] = "/dev/stdout" /\ StdName[3] = "/dev/stderr"
    BY DEF StdName
  <2> QED
    BY <1>2, <2>1, <2>2
<1> QED
  BY <1>1, <1>2

LEMMA StdFacts ==
  ASSUME StdSlots, NEW i \in Std
  PROVE  /\ files[i].fp = i - 1 /\ files[i].fp \in 0..2 /\ files[i].fp # NoFile
         /\ files[i].name = StdName[i] /\ files[i].name # ""
         /\ files[i].mode = StdMode[i] /\ files[i].mode # "none"
         /\ ~files[i].freed
<1>1. /\ files[i].fp = i - 1 /\ files[i].name = StdName[i]
      /\ files[i].mode = StdMode[i] /\ ~files[i].freed
  BY SlotParts DEF StdSlots
<1>2. i - 1 \in 0..2 /\ i - 1 # NoFile
  BY DEF Std, NoFile
<1> QED
  BY <1>1, <1>2, StdTyped

LEMMA VacantFacts == /\ Vacant \in SlotType /\ Vacant.fp = NoFile /\ ~Vacant.freed
                     /\ Vacant.name = "" /\ Vacant.mode = "none"
BY DEF Vacant, Slot, SlotType

LEMMA InitInv == Init => Inv
<1> SUFFICES ASSUME Init PROVE Inv
  OBVIOUS
<1>1. files = [i \in 1..FOPEN_MAX |->
                 IF i \in Std THEN Slot(StdName[i], i - 1, StdMode[i]) ELSE Vacant]
  BY DEF Init
<1>2. \A i \in Std : Slot(StdName[i], i - 1, StdMode[i]) \in SlotType
  BY StdTyped
<1>4. Shape
  <2>1. files \in [1..FOPEN_MAX -> SlotType]
    BY <1>1, <1>2, VacantFacts
  <2> QED
    BY <2>1, Sizes DEF Shape
<1>5. DOMAIN files = 1..FOPEN_MAX /\ Std \subseteq DOMAIN files
  BY <1>1, Sizes DEF Std
<1>6. StdSlots
  BY <1>1, <1>5 DEF StdSlots
<1>7. \A i \in DOMAIN files \ Std : files[i] = Vacant
  BY <1>1
<1>8. Used \subseteq Std
  BY <1>7, VacantFacts DEF Used
<1>9. Freed = {}
  BY <1>6, <1>7, StdFacts, VacantFacts DEF Freed
<1>10. Sound
  <2>1. open = {0, 1, 2}
    BY DEF Init
  <2>2. 0..2 \subseteq open
    BY <2>1
  <2>3. \A i \in Std : SoundSlot(files[i])
    BY <2>2, <1>6, StdFacts DEF SoundSlot
  <2>4. SoundSlot(Vacant)
    BY VacantFacts DEF SoundSlot
  <2> QED
    BY <2>3, <2>4, <1>7 DEF Sound
<1>11. Apart
  <2> SUFFICES ASSUME NEW i \in Std, NEW j \in Std
               PROVE  /\ files[i].fp = files[j].fp => i = j
                      /\ files[i].name = files[j].name => i = j
    BY <1>8 DEF Apart
  <2>1. /\ files[i].fp = i - 1 /\ files[i].name = StdName[i]
        /\ files[j].fp = j - 1 /\ files[j].name = StdName[j]
    BY <1>6, StdFacts
  <2> QED
    BY <2>1, StdDistinct
<1>12. Opened
  <2>1. open = {0, 1, 2} /\ made = 3
    BY DEF Init
  <2> QED
    BY <2>1, Sizes DEF Opened
<1>13. Running
  BY <1>9 DEF Running, Init
<1> QED
  BY <1>4, <1>6, <1>10, <1>11, <1>12, <1>13 DEF Inv, Table
-----------------------------------------------------------------------------
\* Modes of redirections, and the kinds of slots they ask for.
Redirections == {"GT", "APPEND", "PIPE", "LE", "LT"}
Kinds == {"GT", "PIPE", "LE", "LT"}

LEMMA KeptKind == ASSUME NEW a \in Redirections PROVE Kept(a) \in Kinds
BY DEF Redirections, Kinds, Kept

\* While a program runs a slot that bears a name is in use.
LEMMA NamedInUse ==
  ASSUME Inv, running, NEW s \in Name, NEW ghosts
  PROVE  /\ Named(s, ghosts) = {i \in DOMAIN files : files[i].name = s}
         /\ Named(s, ghosts) \subseteq Used
<1>1. \A i \in DOMAIN files : ~files[i].freed
  BY DEF Inv, Running, Freed
<1>2. Named(s, ghosts) = {i \in DOMAIN files : files[i].name = s}
  BY <1>1 DEF Named
<1>3. s # ""
  BY NamesNotEmpty
<1>4. \A i \in DOMAIN files : files[i].name = s => files[i].fp # NoFile
  BY <1>1, <1>3 DEF Inv, Table, Sound, SoundSlot
<1> QED
  BY <1>2, <1>4 DEF Used

\* The slots of a table are numbers.
LEMMA SlotNumbers ==
  ASSUME Shape
  PROVE  /\ DOMAIN files = 1..Len(files) /\ Len(files) \in Nat
         /\ \A i \in DOMAIN files : i \in Nat /\ files[i] \in SlotType
         /\ Std \subseteq DOMAIN files
<1>1. files \in Seq(SlotType) /\ Len(files) >= 3
  BY DEF Shape
<1>2. DOMAIN files = 1..Len(files) /\ Len(files) \in Nat
  BY <1>1
<1>3. \A i \in DOMAIN files : files[i] \in SlotType
  BY <1>1
<1> QED
  BY <1>1, <1>2, <1>3 DEF Std

\* Place is a slot of Room without a stream; Room adds vacant slots only.
LEMMA RoomFacts ==
  ASSUME Shape
  PROVE  /\ Room \in Seq(SlotType) /\ DOMAIN files \subseteq DOMAIN Room
         /\ Place \in DOMAIN Room /\ Len(Room) >= 3
         /\ Place \in DOMAIN files => files[Place].fp = NoFile
         /\ \A i \in DOMAIN Room : Room[i] = IF i \in DOMAIN files THEN files[i] ELSE Vacant
<1>1. CASE Unused # {}
  <2>1. Room = files /\ Place = First(Unused)
    BY <1>1 DEF Room, Place
  <2>2. Unused \subseteq Nat
    BY SlotNumbers DEF Unused
  <2>3. First(Unused) \in Unused
    BY <1>1, <2>2, FirstIn
  <2> QED
    BY <2>1, <2>3 DEF Unused, Shape
<1>2. CASE Unused = {}
  <2> DEFINE n == Len(files) + FOPEN_MAX
  <2>1. Room = [i \in 1..n |-> IF i <= Len(files) THEN files[i] ELSE Vacant]
    BY <1>2 DEF Room
  <2>2. Place = Len(files) + 1
    BY <1>2 DEF Place
  <2>3. Len(files) \in Nat /\ DOMAIN files = 1..Len(files) /\ Len(files) >= 3
    BY SlotNumbers DEF Shape
  <2>4. n \in Nat /\ n >= Len(files) + 1
    BY <2>3, Sizes
  <2>5. \A i \in 1..n : i <= Len(files) <=> i \in DOMAIN files
    BY <2>3
  <2> HIDE DEF n
  <2>6. Room = [i \in 1..n |-> IF i \in DOMAIN files THEN files[i] ELSE Vacant]
    BY <2>1, <2>5
  <2>7. \A i \in DOMAIN files : files[i] \in SlotType
    BY SlotNumbers
  <2>8. Room \in [1..n -> SlotType]
    BY <2>6, <2>7, VacantFacts
  <2>9. Room \in Seq(SlotType) /\ Len(Room) = n /\ DOMAIN Room = 1..n
    BY <2>8, <2>4
  <2>10. Place \in 1..n /\ Place \notin DOMAIN files
    BY <2>2, <2>3, <2>4
  <2> QED
    BY <2>3, <2>4, <2>6, <2>9, <2>10
<1> QED
  BY <1>1, <1>2
-----------------------------------------------------------------------------
(* openfile: the slot of that name and kind, or a new stream in a free one. *)
Known(s, m, f) == /\ UNCHANGED <<files, streams>>
                  /\ \E i \in Used : files[i].name = s /\ files[i].mode = m /\ files[i].fp = f

Opens(s, m, f) == /\ f = made /\ made < MaxStreams
                  /\ open' = open \cup {f} /\ made' = made + 1
                  /\ \A i \in Used : ~(files[i].name = s /\ files[i].mode = m)
                  /\ files' = [Room EXCEPT ![Place] = Slot(s, f, m)]

LEMMA ObtainCases ==
  ASSUME Inv, running, NEW s \in Name, NEW a \in Redirections, NEW f, Obtain(s, a, f)
  PROVE  Known(s, Kept(a), f) \/ Opens(s, Kept(a), f)
<1>1. PICK ghosts \in SUBSET Freed :
        \/ /\ Hits(s, a, ghosts) # {}
           /\ f = files[First(Hits(s, a, ghosts))].fp
           /\ UNCHANGED <<files, streams>>
        \/ /\ Hits(s, a, ghosts) = {}
           /\ IF s = "-" /\ a = "LT"
                THEN f = 0 /\ UNCHANGED streams
                ELSE /\ made < MaxStreams /\ f = made
                     /\ open' = open \cup {f} /\ made' = made + 1
           /\ files' = [Room EXCEPT ![Place] = Slot(s, f, Kept(a))]
  BY DEF Obtain
<1> DEFINE H == Hits(s, a, ghosts)
<1>2. H = {i \in DOMAIN files : files[i].name = s /\ files[i].mode = Kept(a)}
  BY NamedInUse DEF Hits
<1>3. H \subseteq Used
  BY NamedInUse DEF Hits
<1> HIDE DEF H
<1>4. CASE H # {}
  <2>1. H \subseteq Nat
    BY <1>2, SlotNumbers DEF Inv, Table
  <2>2. First(H) \in H
    BY <1>4, <2>1, FirstIn
  <2>3. f = files[First(H)].fp /\ UNCHANGED <<files, streams>>
    BY <1>1, <1>4 DEF H
  <2> QED
    BY <1>2, <1>3, <2>2, <2>3 DEF Known
<1>5. CASE H = {}
  <2>1. ASSUME s = "-", a = "LT" PROVE FALSE
    <3>1. 1 \in Std /\ StdName[1] = "-" /\ StdMode[1] = "LT"
      BY DEF Std, StdName, StdMode
    <3>2. files[1].name = "-" /\ files[1].mode = "LT" /\ 1 \in DOMAIN files
      BY <3>1, StdFacts, SlotNumbers DEF Inv, Table
    <3>3. Kept(a) = "LT"
      BY <2>1 DEF Kept
    <3> QED
      BY <1>2, <1>5, <2>1, <3>2, <3>3
  <2>2. /\ made < MaxStreams /\ f = made
        /\ open' = open \cup {f} /\ made' = made + 1
        /\ files' = [Room EXCEPT ![Place] = Slot(s, f, Kept(a))]
    BY <1>1, <1>5, <2>1 DEF H
  <2>3. \A i \in Used : ~(files[i].name = s /\ files[i].mode = Kept(a))
    BY <1>2, <1>5 DEF Used
  <2> QED
    BY <2>2, <2>3 DEF Opens
<1> QED
  BY <1>4, <1>5

\* The table after a new connection.
LEMMA OpensTable ==
  ASSUME Table, NEW s \in Name, NEW m \in Kinds, NEW f, Opens(s, m, f)
  PROVE  /\ Table'
         /\ Freed' \subseteq Freed
         /\ Used' = Used \cup {Place} /\ Place \notin Used
         /\ \A i \in Used : files'[i] = files[i]
         /\ files'[Place] = Slot(s, f, m)
         /\ \A i \in Used : files[i].fp # f
<1> DEFINE sl == Slot(s, f, m)
<1>1. /\ Room \in Seq(SlotType) /\ DOMAIN files \subseteq DOMAIN Room
      /\ Place \in DOMAIN Room /\ Len(Room) >= 3
      /\ Place \in DOMAIN files => files[Place].fp = NoFile
      /\ \A i \in DOMAIN Room : Room[i] = IF i \in DOMAIN files THEN files[i] ELSE Vacant
  BY RoomFacts DEF Table
<1>2. f = made /\ made \in Nat /\ f \in Nat /\ made < MaxStreams /\ made >= 3
  BY DEF Table, Opened, Opens
<1>3. sl \in SlotType
  BY <1>2, NamesNotEmpty DEF Slot, SlotType, Kinds
<1>4. /\ sl.name = s /\ sl.fp = f /\ sl.mode = m /\ ~sl.freed
      /\ s # "" /\ m # "none" /\ f # NoFile
  <2>1. f # NoFile
    BY <1>2 DEF NoFile
  <2>2. m # "none"
    BY DEF Kinds
  <2>3. s # ""
    BY NamesNotEmpty
  <2>4. sl.name = s /\ sl.fp = f /\ sl.mode = m /\ ~sl.freed
    BY SlotParts
  <2> QED
    BY <2>1, <2>2, <2>3, <2>4
<1> HIDE DEF sl
<1>5. files' = [Room EXCEPT ![Place] = sl]
  BY DEF Opens, sl
<1>6. /\ DOMAIN files' = DOMAIN Room /\ Len(files') = Len(Room) /\ files' \in Seq(SlotType)
      /\ files'[Place] = sl
      /\ \A i \in DOMAIN Room : i # Place => files'[i] = Room[i]
  BY <1>1, <1>3, <1>5
<1>7. \A i \in DOMAIN files' : /\ i = Place => files'[i] = sl
                             /\ i # Place => files'[i] = IF i \in DOMAIN files THEN files[i]
                                                        ELSE Vacant
  BY <1>1, <1>6
<1>8. Place \notin Used
  BY <1>1 DEF Used
<1>9. \A i \in Used : files'[i] = files[i]
  BY <1>1, <1>6, <1>7, <1>8 DEF Used
<1>10. Used' = Used \cup {Place}
  BY <1>1, <1>4, <1>6, <1>7, VacantFacts DEF Used
<1>11. Freed' \subseteq Freed
  BY <1>4, <1>6, <1>7, VacantFacts DEF Freed
<1>12. open' = open \cup {f} /\ made' = made + 1
  BY DEF Opens
<1>13. Shape'
  BY <1>1, <1>6 DEF Shape
<1>14. StdSlots'
  <2>1. ASSUME NEW i \in Std PROVE files'[i] = files[i]
    <3>1. i \in Used
      BY StdFacts, SlotNumbers DEF Table, Used
    <3> QED
      BY <3>1, <1>9
  <2> QED
    BY <2>1 DEF StdSlots, Table
<1>15. Sound'
  <2> SUFFICES ASSUME NEW i \in DOMAIN files' PROVE SoundSlot(files[i])'
    BY DEF Sound
  <2>1. CASE i = Place
    BY <2>1, <1>4, <1>6, <1>12 DEF SoundSlot
  <2>2. CASE i # Place /\ i \in DOMAIN files
    <3>1. SoundSlot(files[i]) /\ files'[i] = files[i]
      BY <2>2, <1>7 DEF Sound, Table
    <3>2. open \subseteq open'
      BY <1>12
    <3> QED
      BY <3>1, <3>2 DEF SoundSlot
  <2>3. CASE i # Place /\ i \notin DOMAIN files
    BY <2>3, <1>7, VacantFacts DEF SoundSlot
  <2> QED
    BY <2>1, <2>2, <2>3
<1>16. \A i \in Used : files[i].fp # f
  <2>1. \A i \in Used : files[i].fp \in open
    BY DEF Table, Sound, SoundSlot, Used
  <2>2. f \notin open
    BY <1>2 DEF Table, Opened
  <2> QED
    BY <2>1, <2>2
<1>17. Apart'
  <2>1. \A i \in Used : ~(files[i].name = s /\ files[i].mode = m)
    BY DEF Opens
  <2> SUFFICES ASSUME NEW i \in Used \cup {Place}, NEW j \in Used \cup {Place}, i # j
               PROVE  /\ files'[i].fp # files'[j].fp
                      /\ ~(files'[i].name = files'[j].name /\ files'[i].mode = files'[j].mode)
    BY <1>10 DEF Apart
  <2>2. CASE i \in Used /\ j \in Used
    BY <2>2, <1>9 DEF Apart, Table
  <2>3. CASE i = Place /\ j \in Used
    BY <2>1, <2>3, <1>4, <1>6, <1>9, <1>16
  <2>4. CASE i \in Used /\ j = Place
    BY <2>1, <2>4, <1>4, <1>6, <1>9, <1>16
  <2> QED
    BY <2>2, <2>3, <2>4
<1>18. Opened'
  BY <1>2, <1>12, Sizes DEF Opened, Table
<1> QED
  BY <1>6, <1>8, <1>9, <1>10, <1>11, <1>13, <1>14, <1>15, <1>16, <1>17, <1>18 DEF Table, sl

\* The table after a step that leaves it alone.
LEMMA SameTable ==
  ASSUME Table, files' = files, open' = open, made' = made
  PROVE  Table' /\ Freed' = Freed /\ Used' = Used
<1>1. Shape' /\ StdSlots'
  BY DEF Table, Shape, StdSlots
<1>2. Sound'
  BY DEF Table, Sound, SoundSlot
<1>3. Used' = Used /\ Freed' = Freed
  BY DEF Used, Freed
<1>4. Apart'
  BY <1>3 DEF Table, Apart
<1>5. Opened'
  BY DEF Table, Opened
<1> QED
  BY <1>1, <1>2, <1>3, <1>4, <1>5 DEF Table

LEMMA SequenceDomain ==
  ASSUME NEW T, NEW q \in Seq(T)
  PROVE  DOMAIN q = 1..Len(q) /\ Len(q) \in Nat
OBVIOUS

LEMMA SameLength ==
  ASSUME NEW m \in Nat, NEW n \in Nat, 1..m = 1..n
  PROVE  m = n
<1>1. ASSUME m < n PROVE FALSE
  BY <1>1
<1>2. ASSUME n < m PROVE FALSE
  BY <1>2
<1> QED
  BY <1>1, <1>2

\* The table after some connections of the program have ended.
LEMMA EndsTable ==
  ASSUME Table, NEW S, S \subseteq Used, S \cap Std = {},
         files' \in Seq(SlotType), DOMAIN files' = DOMAIN files,
         \A i \in S : files'[i].fp = NoFile /\ (files'[i].freed \/ files'[i].name = ""),
         \A i \in DOMAIN files \ S : files'[i] = files[i],
         open' = open \ Streams(S), made' = made
  PROVE  /\ Table'
         /\ Used' = Used \ S
         /\ \A i \in Used' : files'[i] = files[i]
<1>1. Used' = Used \ S /\ Used \subseteq DOMAIN files
  BY DEF Used
<1>2. \A i \in Used' : files'[i] = files[i]
  BY <1>1
<1>3. Shape'
  <2>1. DOMAIN files = 1..Len(files) /\ Len(files) \in Nat /\ Len(files) >= 3
    BY SlotNumbers DEF Table, Shape
  <2>2. DOMAIN files' = 1..Len(files') /\ Len(files') \in Nat
    BY SequenceDomain
  <2>3. Len(files') = Len(files)
    BY <2>1, <2>2, SameLength
  <2> QED
    BY <2>1, <2>3 DEF Shape
<1>4. StdSlots'
  <2>1. Std \subseteq DOMAIN files \ S
    BY SlotNumbers DEF Table
  <2> QED
    BY <2>1 DEF StdSlots, Table
<1>5. Sound'
  <2> SUFFICES ASSUME NEW i \in DOMAIN files PROVE SoundSlot(files[i])'
    BY DEF Sound
  <2>1. CASE i \in S
    BY <2>1 DEF SoundSlot
  <2>2. CASE i \notin S
    <3>1. SoundSlot(files[i]) /\ files'[i] = files[i]
      BY <2>2 DEF Sound, Table
    <3>2. ASSUME files[i].fp # NoFile PROVE files[i].fp \in open'
      <4>1. i \in Used
        BY <3>2 DEF Used
      <4>2. \A j \in S : files[j].fp # files[i].fp
        BY <2>2, <4>1 DEF Apart, Table
      <4> QED
        BY <3>1, <3>2, <4>2 DEF SoundSlot, Streams
    <3> QED
      BY <3>1, <3>2 DEF SoundSlot
  <2> QED
    BY <2>1, <2>2
<1>6. Apart'
  <2> SUFFICES ASSUME NEW i \in Used', NEW j \in Used'
               PROVE  /\ files'[i].fp = files'[j].fp => i = j
                      /\ files'[i].name = files'[j].name /\ files'[i].mode = files'[j].mode
                           => i = j
    BY DEF Apart
  <2>1. i \in Used /\ j \in Used /\ files'[i] = files[i] /\ files'[j] = files[j]
    BY <1>1, <1>2
  <2> QED
    BY <2>1 DEF Apart, Table
<1>7. Opened'
  BY DEF Opened, Table
<1> QED
  BY <1>1, <1>2, <1>3, <1>4, <1>5, <1>6, <1>7 DEF Table

-----------------------------------------------------------------------------
(* The connections of the table, and how they change.                      *)
Line(i) == [name |-> files[i].name, mode |-> files[i].mode, stream |-> files[i].fp]

Conn == {Line(i) : i \in Used}

LEMMA LineParts ==
  ASSUME NEW i
  PROVE  /\ Line(i).name = files[i].name /\ Line(i).mode = files[i].mode
         /\ Line(i).stream = files[i].fp
BY DEF Line

\* What a statement gets is a connection there was, or a new one.
LEMMA ObtainStep ==
  ASSUME Inv, running, NEW s \in Name, NEW a \in Redirections, NEW f, Obtain(s, a, f)
  PROVE  /\ Table' /\ Freed' \subseteq Freed /\ open \subseteq open'
         /\ f \in open' /\ f \in 0..MaxStreams + 2
         /\ \/ View!Connection(s, Kept(a), f) \in Conn /\ Conn' = Conn
            \/ /\ \A c \in Conn : c.stream # f /\ (c.name # s \/ c.mode # Kept(a))
               /\ Conn' = Conn \cup {View!Connection(s, Kept(a), f)}
<1> DEFINE m == Kept(a)
<1>1. m \in Kinds
  BY KeptKind
<1>2. Known(s, m, f) \/ Opens(s, m, f)
  BY ObtainCases
<1> HIDE DEF m
<1>3. CASE Known(s, m, f)
  <2>1. files' = files /\ open' = open /\ made' = made
    BY <1>3 DEF Known, streams
  <2>2. PICK i \in Used : files[i].name = s /\ files[i].mode = m /\ files[i].fp = f
    BY <1>3 DEF Known
  <2>3. Table' /\ Freed' = Freed /\ Used' = Used
    BY <2>1, SameTable DEF Inv
  <2>4. f \in open
    BY <2>2 DEF Inv, Table, Sound, SoundSlot, Used
  <2>5. f \in 0..MaxStreams + 2
    BY <2>4, Sizes DEF Inv, Table, Opened
  <2>6. View!Connection(s, m, f) = Line(i)
    BY <2>2 DEF View!Connection, Line
  <2>7. View!Connection(s, m, f) \in Conn
    BY <2>6 DEF Conn
  <2>8. Conn' = Conn
    BY <2>1, <2>3 DEF Conn, Line
  <2> QED
    BY <2>1, <2>3, <2>4, <2>5, <2>7, <2>8 DEF m
<1>4. CASE Opens(s, m, f)
  <2>1. /\ Table' /\ Freed' \subseteq Freed
        /\ Used' = Used \cup {Place}
        /\ \A i \in Used : files'[i] = files[i]
        /\ files'[Place] = Slot(s, f, m)
        /\ \A i \in Used : files[i].fp # f
    BY <1>1, <1>4, OpensTable DEF Inv
  <2>2. /\ open' = open \cup {f} /\ f = made /\ made < MaxStreams /\ made \in Nat
        /\ \A i \in Used : ~(files[i].name = s /\ files[i].mode = m)
    BY <1>4 DEF Opens, Inv, Table, Opened
  <2>3. f \in 0..MaxStreams + 2
    BY <2>2, Sizes
  <2>4. \A i \in Used : Line(i)' = Line(i)
    BY <2>1 DEF Line
  <2>5. [name |-> files'[Place].name, mode |-> files'[Place].mode, stream |-> files'[Place].fp]
           = View!Connection(s, m, f)
    BY <2>1, SlotParts DEF View!Connection
  <2>6. Conn' = Conn \cup {View!Connection(s, m, f)}
    BY <2>1, <2>4, <2>5 DEF Conn, Line
  <2>7. \A c \in Conn : c.stream # f /\ (c.name # s \/ c.mode # m)
    BY <2>1, <2>2, LineParts DEF Conn
  <2> QED
    BY <2>1, <2>2, <2>3, <2>6, <2>7 DEF m
<1> QED
  BY <1>2, <1>3, <1>4

LEMMA UseStep ==
  ASSUME Inv, running, NEW s \in Name, NEW a \in Redirections, NEW f, Obtain(s, a, f),
         out' = Outcome("use", s, f)
  PROVE  View!Next
<1>1. /\ f \in 0..MaxStreams + 2
      /\ \/ View!Connection(s, Kept(a), f) \in Conn /\ Conn' = Conn
         \/ /\ \A c \in Conn : c.stream # f /\ (c.name # s \/ c.mode # Kept(a))
            /\ Conn' = Conn \cup {View!Connection(s, Kept(a), f)}
  BY ObtainStep
<1>2. View!Use(s, Kept(a), f)
  BY <1>1 DEF View!Use, Conn, Line, Outcome, View!Outcome
<1>3. Kept(a) \in Kinds
  BY KeptKind
<1> QED
  BY <1>1, <1>2, <1>3 DEF View!Next, Kinds

\* Nothing to see: the connections and the outcome stay.
LEMMA Stutters ==
  ASSUME files' = files, out' = out
  PROVE  UNCHANGED View!vars
BY DEF View!vars, Used

LEMMA OpenStream == ASSUME Opened, NEW f \in open PROVE Misuse(f) = "none"
<1>1. ~(f < 0)
  BY DEF Opened
<1> QED
  BY <1>1 DEF Misuse
-----------------------------------------------------------------------------
(* One lemma for each kind of statement, and for the host's run.           *)
LEMMA PrintToStep ==
  ASSUME Inv, NEW s \in Name, NEW a \in Redirections, PrintTo(s, a)
  PROVE  Inv' /\ View!Next
<1>1. PICK f \in NoFile..made : /\ Obtain(s, a, f)
                               /\ pending' = f
                               /\ out' = Outcome("use", s, f)
  BY DEF PrintTo
<1>2. running /\ running' = running /\ runs' = runs /\ fault' = fault
  BY DEF PrintTo
<1>3. Table' /\ Freed' \subseteq Freed /\ f \in open'
  BY <1>1, <1>2, ObtainStep
<1>4. Running'
  BY <1>1, <1>2, <1>3 DEF Inv, Running
<1>5. View!Next
  BY <1>1, <1>2, UseStep
<1> QED
  BY <1>3, <1>4, <1>5 DEF Inv

LEMMA GetlineStep ==
  ASSUME Inv, NEW s \in Name, NEW a \in Redirections, Getline(s, a)
  PROVE  Inv' /\ View!Next
<1>1. PICK f \in NoFile..made :
        /\ Obtain(s, a, f)
        /\ fault' = IF f = NoFile THEN "none" ELSE Misuse(f)'
        /\ out' = Outcome("use", s, f)
  BY DEF Getline
<1>2. running /\ running' = running /\ runs' = runs /\ pending' = pending
  BY DEF Getline
<1>3. Table' /\ Freed' \subseteq Freed /\ open \subseteq open' /\ f \in open'
  BY <1>1, <1>2, ObtainStep
<1>4. Misuse(f)' = "none"
  <2>1. f \in 0..MaxStreams + 2 /\ f \in open'
    BY <1>1, <1>2, ObtainStep
  <2>2. ~(f < 0)
    BY <2>1, Sizes
  <2> QED
    BY <2>1, <2>2 DEF Misuse
<1>5. fault' = "none"
  BY <1>1, <1>4
<1>6. Running'
  BY <1>2, <1>3, <1>5 DEF Inv, Running
<1>7. View!Next
  BY <1>1, <1>2, UseStep
<1> QED
  BY <1>3, <1>6, <1>7 DEF Inv

LEMMA PrintOutStep ==
  ASSUME Inv, PrintOut
  PROVE  Inv' /\ UNCHANGED View!vars
<1>1. /\ pending' = files[2].fp /\ UNCHANGED <<files, open, made, running, runs, fault, out>>
      /\ running
  BY DEF PrintOut, streams
<1>2. Table' /\ Freed' = Freed
  BY <1>1, SameTable DEF Inv
<1>3. 2 \in Std
  BY DEF Std
<1>4. files[2].fp \in open
  BY <1>3, StdFacts, SlotNumbers DEF Inv, Table, Sound, SoundSlot
<1>5. Running'
  BY <1>1, <1>2, <1>4 DEF Inv, Running
<1> QED
  BY <1>1, <1>2, <1>5, Stutters DEF Inv

LEMMA PutStep ==
  ASSUME Inv, Put
  PROVE  Inv' /\ UNCHANGED View!vars
<1>1. pending \in open
  BY DEF Put, Inv, Running
<1>2. Misuse(pending) = "none"
  BY <1>1, OpenStream DEF Inv, Table
<1>3. pending' = NotPrinting /\ UNCHANGED <<files, open, made, running, runs, fault, out>>
  BY <1>2 DEF Put, streams
<1>4. Table' /\ Freed' = Freed
  BY <1>3, SameTable DEF Inv
<1>5. Running'
  BY <1>3, <1>4 DEF Inv, Running
<1> QED
  BY <1>3, <1>4, <1>5, Stutters DEF Inv

\* The slots in use of one connection are no more than one: nothing is closed
\* twice, and only what is open.
LEMMA ClosesWell ==
  ASSUME Table, NEW S, S \subseteq Used
  PROVE  Misclosed(S) = "none"
<1>1. ~ \E i \in S : files[i].fp = NoFile
  BY DEF Used
<1>2. ~Twice(S)
  BY DEF Twice, Table, Apart
<1>3. ~ \E i \in S : files[i].fp \notin open
  BY DEF Table, Sound, SoundSlot, Used
<1> QED
  BY <1>1, <1>2, <1>3 DEF Misclosed

LEMMA CloseStep ==
  ASSUME Inv, NEW s \in Name, CoreClose(s)
  PROVE  Inv' /\ View!Next
<1>1. /\ \A i \in Std : s # StdName[i]
      /\ \A i \in DOMAIN files : files[i].name = s => files[i].fp # pending
      /\ closefile(s) /\ running
  BY DEF CoreClose, closefile
<1>2. PICK ghosts \in SUBSET Freed :
        LET S == Named(s, ghosts)
        IN  IF Misclosed(S) # "none" THEN Fault(Misclosed(S))
            ELSE /\ open' = open \ Streams(S)
                 /\ files' = [i \in DOMAIN files |->
                                IF i \in S THEN [files[i] EXCEPT !.name = "", !.fp = NoFile]
                                ELSE files[i]]
                 /\ out' = Outcome("close", s, IF S = {} THEN -1 ELSE 0)
                 /\ UNCHANGED <<made, running, runs, pending, fault>>
  BY <1>1 DEF closefile
<1> DEFINE S == Named(s, ghosts)
<1>3. S = {i \in DOMAIN files : files[i].name = s} /\ S \subseteq Used
  BY <1>1, NamedInUse
<1>4. Misclosed(S) = "none"
  BY <1>3, ClosesWell DEF Inv
<1>5. /\ open' = open \ Streams(S)
      /\ files' = [i \in DOMAIN files |->
                     IF i \in S THEN [files[i] EXCEPT !.name = "", !.fp = NoFile]
                     ELSE files[i]]
      /\ out' = Outcome("close", s, IF S = {} THEN -1 ELSE 0)
      /\ UNCHANGED <<made, running, runs, pending, fault>>
  BY <1>2, <1>4
<1> HIDE DEF S
<1>6. S \cap Std = {}
  BY <1>1, <1>3, StdFacts DEF Inv, Table
<1>7. \A i \in DOMAIN files : files[i] \in SlotType
  BY SlotNumbers DEF Inv, Table
<1>8. ASSUME NEW i \in DOMAIN files
      PROVE  LET sl == [files[i] EXCEPT !.name = "", !.fp = NoFile]
             IN  sl \in SlotType /\ sl.fp = NoFile /\ sl.name = "" /\ sl.freed = files[i].freed
  BY <1>7 DEF SlotType
<1>9. /\ DOMAIN files' = DOMAIN files
      /\ \A i \in S : /\ files'[i] \in SlotType /\ files'[i].fp = NoFile /\ files'[i].name = ""
                      /\ files'[i].freed = files[i].freed
      /\ \A i \in DOMAIN files \ S : files'[i] = files[i]
  BY <1>3, <1>5, <1>8
<1>10. files' \in Seq(SlotType)
  <2>1. files' \in [1..Len(files) -> SlotType] /\ Len(files) \in Nat
    BY <1>5, <1>7, <1>8, SlotNumbers DEF Inv, Table
  <2> QED
    BY <2>1
<1>11. /\ Table' /\ Used' = Used \ S
       /\ \A i \in Used' : files'[i] = files[i]
  BY <1>3, <1>5, <1>6, <1>9, <1>10, EndsTable DEF Inv
<1>12. Freed' = {}
  <2>1. Freed = {}
    BY <1>1 DEF Inv, Running
  <2> QED
    BY <2>1, <1>3, <1>9 DEF Freed
<1>13. Running'
  <2>1. pending = NotPrinting \/ (pending \in open /\ pending \notin Streams(S))
    BY <1>1, <1>3 DEF Inv, Running, Streams
  <2> QED
    BY <2>1, <1>1, <1>5, <1>12 DEF Inv, Running
<1>14. View!Close(s)
  <2>1. Conn' = {c \in Conn : c.name # s}
    <3>1. \A i \in Used' : Line(i)' = Line(i)
      BY <1>11 DEF Line
    <3>2. Conn' = {Line(i) : i \in Used'}
      BY <3>1 DEF Conn, Line
    <3>3. \A i \in Used : i \in Used' <=> Line(i).name # s
      BY <1>3, <1>11, LineParts DEF Used
    <3> QED
      BY <3>2, <3>3, <1>11 DEF Conn
  <2>2. (\E c \in Conn : c.name = s) <=> S # {}
    <3>1. ASSUME NEW c \in Conn, c.name = s PROVE S # {}
      <4>1. PICK i \in Used : c = Line(i)
        BY DEF Conn
      <4>2. i \in DOMAIN files /\ files[i].name = s
        BY <3>1, <4>1, LineParts DEF Used
      <4> QED
        BY <1>3, <4>2
    <3>2. ASSUME NEW i \in S PROVE \E c \in Conn : c.name = s
      <4>1. Line(i) \in Conn /\ Line(i).name = s
        BY <1>3, LineParts DEF Conn
      <4> QED
        BY <4>1
    <3> QED
      BY <3>1, <3>2
  <2>3. out' = View!Outcome("close", s, IF \E c \in Conn : c.name = s THEN 0 ELSE -1)
    BY <1>5, <2>2 DEF Outcome, View!Outcome
  <2> QED
    BY <2>1, <2>3 DEF View!Close, Conn, Line
<1> QED
  BY <1>11, <1>13, <1>14 DEF Inv, View!Next

LEMMA CloseallStep ==
  ASSUME Inv, closeall
  PROVE  Inv' /\ View!Next
<1> DEFINE S == Closing
<1>1. S = Used \ Std
  <2>1. \A i \in Std : files[i].fp = i - 1
    BY StdFacts DEF Inv, Table
  <2> QED
    BY <2>1 DEF Closing, Used
<1>2. Misclosed(S) = "none"
  BY <1>1, ClosesWell DEF Inv
<1>3. /\ open' = open \ Streams(S)
      /\ files' = [i \in DOMAIN files |->
                     IF i \in S THEN [files[i] EXCEPT !.fp = NoFile, !.freed = i \notin Std]
                     ELSE files[i]]
      /\ running' = FALSE /\ pending' = NotPrinting
      /\ out' = Outcome("end", "", -1)
      /\ UNCHANGED <<made, runs, fault>>
  BY <1>2 DEF closeall
<1> HIDE DEF S
<1>4. \A i \in DOMAIN files : files[i] \in SlotType
  BY SlotNumbers DEF Inv, Table
<1>5. ASSUME NEW i \in DOMAIN files
      PROVE  LET sl == [files[i] EXCEPT !.fp = NoFile, !.freed = i \notin Std]
             IN  sl \in SlotType /\ sl.fp = NoFile /\ (i \notin Std => sl.freed)
  BY <1>4 DEF SlotType
<1>6. /\ DOMAIN files' = DOMAIN files
      /\ \A i \in S : files'[i].fp = NoFile /\ files'[i].freed
      /\ \A i \in DOMAIN files \ S : files'[i] = files[i]
  <2>1. S \subseteq DOMAIN files /\ S \cap Std = {}
    BY <1>1 DEF Used
  <2> QED
    BY <2>1, <1>3, <1>5
<1>7. files' \in Seq(SlotType)
  <2>1. files' \in [1..Len(files) -> SlotType] /\ Len(files) \in Nat
    BY <1>3, <1>4, <1>5, SlotNumbers DEF Inv, Table
  <2> QED
    BY <2>1
<1>8. /\ Table' /\ Used' = Used \ S
      /\ \A i \in Used' : files'[i] = files[i]
  BY <1>1, <1>3, <1>6, <1>7, EndsTable DEF Inv
<1>9. Running'
  BY <1>3 DEF Inv, Running
<1>10. View!End
  <2>1. Used' = Std
    BY <1>1, <1>8, StdFacts, SlotNumbers DEF Inv, Table, Used
  <2>2. \A i \in Std : Line(i)' = [name |-> StdName[i], mode |-> StdMode[i], stream |-> i - 1]
    <3> SUFFICES ASSUME NEW i \in Std
                 PROVE  Line(i)' = [name |-> StdName[i], mode |-> StdMode[i], stream |-> i - 1]
      OBVIOUS
    <3>1. files'[i] = files[i]
      BY <1>8, <2>1
    <3>2. files[i].name = StdName[i] /\ files[i].mode = StdMode[i] /\ files[i].fp = i - 1
      BY StdFacts DEF Inv, Table
    <3> QED
      BY <3>1, <3>2 DEF Line
  <2>3. Conn' = {[name |-> StdName[i], mode |-> StdMode[i], stream |-> i - 1] : i \in Std}
    BY <2>1, <2>2 DEF Conn
  <2>4. out' = View!Outcome("end", "", -1)
    BY <1>3 DEF Outcome, View!Outcome
  <2> QED
    BY <2>3, <2>4 DEF View!End, Conn, Line
<1> QED
  BY <1>8, <1>9, <1>10 DEF Inv, View!Next

LEMMA RunStep ==
  ASSUME Inv, Freed = {}, Run
  PROVE  Inv' /\ UNCHANGED View!vars
<1> DEFINE shut == {i \in Std : files[i].fp = NoFile}
           home == {i \in shut : files[i].name = StdName[i]}
<1>1. shut = {}
  BY StdFacts DEF Inv, Table
<1>2. \E found \in SUBSET (shut \ home) :
         /\ files' = [i \in DOMAIN files |->
              IF i \in home THEN [files[i] EXCEPT !.fp = i - 1]
              ELSE IF i \in found THEN [files[i] EXCEPT !.fp = made + i - 1]
              ELSE files[i]]
         /\ open' = open \cup {made + i - 1 : i \in found}
         /\ made' = IF found = {} THEN made ELSE made + 3
         /\ running' = TRUE /\ runs' = runs + 1
         /\ UNCHANGED <<pending, fault, out>>
  BY <1>1 DEF Run
<1>3. home = {}
  BY <1>1
<1> HIDE DEF home
<1>4. /\ files' = [i \in DOMAIN files |-> files[i]]
      /\ open' = open /\ made' = made
      /\ running' = TRUE /\ runs' = runs + 1
      /\ UNCHANGED <<pending, fault, out>>
  BY <1>1, <1>2, <1>3
<1>5. files' = files
  <2>1. files = [i \in 1..Len(files) |-> files[i]] /\ DOMAIN files = 1..Len(files)
    BY DEF Inv, Table, Shape
  <2> QED
    BY <2>1, <1>4
<1>6. Table' /\ Freed' = Freed
  BY <1>4, <1>5, SameTable DEF Inv
<1>7. Running'
  BY <1>4, <1>6 DEF Inv, Running
<1> QED
  BY <1>4, <1>5, <1>6, <1>7, Stutters DEF Inv
-----------------------------------------------------------------------------
\* A step of a core program keeps the invariant and is a step, or none, of
\* the connections.
LEMMA CoreStep ==
  ASSUME Inv, [Core]_vars
  PROVE  Inv' /\ [View!Next]_(View!vars)
<1>1. CASE UNCHANGED vars
  <2>1. UNCHANGED <<files, open, made, running, runs, pending, fault, out>>
    BY <1>1 DEF vars, streams
  <2>2. Table' /\ Freed' = Freed
    BY <2>1, SameTable DEF Inv
  <2>3. Running'
    BY <2>1, <2>2 DEF Inv, Running
  <2> QED
    BY <2>1, <2>2, <2>3, Stutters DEF Inv
<1>2. ASSUME NEW s \in Name, NEW a \in Redirections, PrintTo(s, a)
      PROVE  Inv' /\ View!Next
  BY <1>2, PrintToStep
<1>3. ASSUME NEW s \in Name, NEW a \in Redirections, Getline(s, a)
      PROVE  Inv' /\ View!Next
  BY <1>3, GetlineStep
<1>4. CASE Statement
  BY <1>2, <1>3, <1>4 DEF Statement, Writes, Reads, Redirections
<1>5. CASE PrintOut
  BY <1>5, PrintOutStep
<1>6. CASE Put
  BY <1>6, PutStep
<1>7. CASE closeall
  BY <1>7, CloseallStep
<1>8. CASE \E s \in Name : CoreClose(s)
  BY <1>8, CloseStep
<1>9. CASE Freed = {} /\ Run
  BY <1>9, RunStep
<1> QED
  BY <1>1, <1>4, <1>5, <1>6, <1>7, <1>8, <1>9 DEF Core

LEMMA Invariant == CoreSpec => []Inv
<1>1. Init => Inv
  BY InitInv
<1>2. Inv /\ [Core]_vars => Inv'
  BY CoreStep
<1> QED
  BY <1>1, <1>2, PTL DEF CoreSpec

\* The slots and streams of a core program are what openfile, closefile and
\* closeall take them for, however often the table grows.
THEOREM FilesTypeOK == CoreSpec => []TypeOK
<1>1. Inv => TypeOK
  <2> SUFFICES ASSUME Inv PROVE TypeOK
    OBVIOUS
  <2>1. files \in Seq(SlotType) /\ Len(files) >= 3
    BY DEF Inv, Table, Shape
  <2>2. open \subseteq 0..(made - 1) /\ made \in Nat
    BY DEF Inv, Table, Opened
  <2>3. pending \in Nat \cup {NoFile, NotPrinting}
    <3>1. pending = NotPrinting \/ pending \in open
      BY DEF Inv, Running
    <3>2. open \subseteq Nat
      BY <2>2
    <3> QED
      BY <3>1, <3>2
  <2> QED
    BY <2>1, <2>2, <2>3 DEF Inv, Running, TypeOK, SlotType
<1> QED
  BY <1>1, Invariant, PTL

\* No print, close or end of a run of a core program uses a null stream or
\* one that is closed, in the first run or in a later one.
THEOREM FilesNoFault == CoreSpec => []NoFault
<1>1. Inv => NoFault
  BY DEF Inv, Running, NoFault
<1> QED
  BY <1>1, Invariant, PTL

\* To a core program the table is a set of connections: a name and a kind of
\* redirection stand for one stream until it is closed.
THEOREM FilesImplementConnections == CoreSpec => ImplementsConnections
<1>1. Init => View!Init
  <2> SUFFICES ASSUME Init PROVE View!Init
    OBVIOUS
  <2>1. Inv /\ Used \subseteq DOMAIN files
    BY InitInv DEF Used
  <2>2. \A i \in DOMAIN files \ Std : files[i] = Vacant
    BY DEF Init
  <2>3. Used = Std
    BY <2>1, <2>2, VacantFacts, StdFacts, SlotNumbers DEF Inv, Table, Used
  <2>4. \A i \in Std : Line(i) = [name |-> StdName[i], mode |-> StdMode[i], stream |-> i - 1]
    BY <2>1, StdFacts DEF Inv, Table, Line
  <2>5. Conn = {[name |-> StdName[i], mode |-> StdMode[i], stream |-> i - 1] : i \in Std}
    BY <2>3, <2>4 DEF Conn
  <2>6. out = View!Outcome("none", "", -1)
    BY DEF Init, Outcome, View!Outcome
  <2> QED
    BY <2>5, <2>6 DEF View!Init, Conn, Line
<1>2. Inv /\ [Core]_vars => [View!Next]_(View!vars)
  BY CoreStep
<1> QED
  BY <1>1, <1>2, Invariant, PTL DEF CoreSpec, ImplementsConnections, View!Spec
-----------------------------------------------------------------------------
(* Any program and any host (FullSpec).  A slot may have lost its stream or *)
(* kept a freed name, and the streams of the process may be closed or in    *)
(* more than one slot; those the library opened are never shared nor lost.  *)

\* Slot i holds sl.
FullSlot(i, sl) ==
  /\ sl.freed => sl.fp = NoFile /\ i \notin Std
  /\ sl.name = "" => sl.fp = NoFile
  /\ i \notin Std /\ sl.fp = NoFile /\ ~sl.freed => sl.name = ""
  /\ sl.fp # NoFile => sl.fp \in open \cup 0..2 /\ sl.fp < made

FullSlots == \A i \in DOMAIN files : FullSlot(i, files[i])

Process(f) == f \in {NoFile, 0, 1, 2}

Unshared == \A i, j \in DOMAIN files :
              files[i].fp = files[j].fp => i = j \/ Process(files[i].fp)

Numbered == made \in Nat /\ made >= 3 /\ open \subseteq 0..made - 1

FullTable == Shape /\ FullSlots /\ Unshared /\ Numbered /\ NoLeak

FullRunning == /\ running \in BOOLEAN /\ runs \in Nat
               /\ pending \in Nat \cup {NoFile, NotPrinting}
               /\ fault \in {"none", "null", "closed"}

FullInv == FullTable /\ FullRunning

\* Slot i stays as it was, or is one that the table has grown by.
Stays(i) == files'[i] = IF i \in DOMAIN files THEN files[i] ELSE Vacant

\* What becomes of the table when the slots C change: they get streams of the
\* process or new ones, and no stream they leave stays open.
LEMMA Changed ==
  ASSUME FullTable, NEW C,
         files' \in Seq(SlotType), DOMAIN files \subseteq DOMAIN files', Len(files') >= 3,
         made' \in Nat, made <= made', open' \subseteq 0..made' - 1,
         \A i \in DOMAIN files' : i \in C \/ Stays(i),
         \A i \in C \cap DOMAIN files' : FullSlot(i, files[i])',
         \A i \in C \cap DOMAIN files' : Process(files'[i].fp) \/ files'[i].fp >= made,
         \A i, j \in C \cap DOMAIN files' :
           files'[i].fp = files'[j].fp => i = j \/ Process(files'[i].fp),
         \A f \in open : f \in open' \/ Process(f)
                           \/ \E i \in C \cap DOMAIN files : files[i].fp = f,
         \A i \in C \cap DOMAIN files : Process(files[i].fp) \/ files[i].fp \notin open'
                                          \/ files'[i].fp = files[i].fp,
         \A f \in open' : f \in open \/ Process(f)
                            \/ \E i \in C \cap DOMAIN files' : files'[i].fp = f
  PROVE  FullTable'
<1>1. Shape'
  BY DEF Shape
<1>7. made \in Nat /\ made >= 3
  BY DEF FullTable, Numbered
<1>2. Numbered'
  <2>1. made' >= 3
    BY ONLY <1>7, made' \in Nat, made <= made'
  <2> QED
    BY <2>1 DEF Numbered
<1>3. \A i \in DOMAIN files : files[i].fp # NoFile => files[i].fp \in Nat /\ files[i].fp < made
  BY SlotNumbers DEF FullTable, SlotType, FullSlots, FullSlot
<1>4. FullSlots'
  <2> SUFFICES ASSUME NEW i \in DOMAIN files', i \notin C PROVE FullSlot(i, files[i])'
    BY DEF FullSlots
  <2>1. CASE i \notin DOMAIN files
    <3>1. files'[i] = Vacant
      BY <2>1 DEF Stays
    <3> QED
      BY <3>1, VacantFacts DEF FullSlot
  <2>2. CASE i \in DOMAIN files
    <3>1. files'[i] = files[i] /\ FullSlot(i, files[i])
      BY <2>2 DEF Stays, FullTable, FullSlots
    <3>2. ASSUME files[i].fp # NoFile PROVE files[i].fp \in open' \cup 0..2
      <4>1. files[i].fp \in open \cup 0..2
        BY <3>1, <3>2 DEF FullSlot
      <4>2. ASSUME NEW j \in C \cap DOMAIN files, files[j].fp = files[i].fp
            PROVE  Process(files[i].fp)
        BY <2>2, <4>2 DEF FullTable, Unshared
      <4>3. Process(files[i].fp) => files[i].fp \in 0..2
        BY <3>2 DEF Process
      <4> QED
        BY <4>1, <4>2, <4>3
    <3>3. files[i].fp # NoFile => files[i].fp < made'
      <4>1. files[i].fp # NoFile => files[i].fp \in Nat /\ files[i].fp < made
        BY ONLY <1>3, <2>2
      <4> QED
        BY ONLY <4>1, <1>7, made' \in Nat, made <= made'
    <3> QED
      BY <3>1, <3>2, <3>3 DEF FullSlot
  <2> QED
    BY <2>1, <2>2
<1>5. Unshared'
  <2> SUFFICES ASSUME NEW i \in DOMAIN files', NEW j \in DOMAIN files', i # j,
                      files'[i].fp = files'[j].fp
               PROVE  Process(files'[i].fp)
    BY DEF Unshared
  <2>1. \A k \in DOMAIN files' \ C : Process(files'[k].fp)
                                      \/ (k \in DOMAIN files /\ files'[k].fp = files[k].fp)
    BY VacantFacts DEF Stays, Process
  <2>2. \A k \in DOMAIN files : files[k].fp >= made => Process(files[k].fp)
    <3> SUFFICES ASSUME NEW k \in DOMAIN files, files[k].fp # NoFile
                 PROVE  ~(files[k].fp >= made)
      BY DEF Process
    <3>1. files[k].fp \in Nat /\ files[k].fp < made
      BY ONLY <1>3, k \in DOMAIN files, files[k].fp # NoFile
    <3> QED
      BY ONLY <3>1, <1>7
  <2>3. CASE i \in C /\ j \in C
    BY <2>3
  <2>4. CASE i \in C /\ j \notin C
    BY <2>1, <2>2, <2>4
  <2>5. CASE i \notin C /\ j \in C
    BY <2>1, <2>2, <2>5
  <2>6. CASE i \notin C /\ j \notin C
    BY <2>1, <2>6 DEF FullTable, Unshared
  <2> QED
    BY <2>3, <2>4, <2>5, <2>6
<1>6. NoLeak'
  <2> SUFFICES ASSUME NEW f \in open', ~Process(f)
               PROVE  \E i \in DOMAIN files' : files'[i].fp = f
    <3>1. \A f \in open' : f \in 0..2 <=> Process(f)
      <4>1. \A f \in open' : f \in Int /\ f # NoFile
        BY <1>2 DEF Numbered, NoFile
      <4> QED
        BY <4>1 DEF Process
    <3> QED
      BY <3>1 DEF NoLeak
  <2>1. CASE \E i \in C \cap DOMAIN files' : files'[i].fp = f
    BY <2>1
  <2>2. CASE f \in open
    <3>1. PICK i \in DOMAIN files : files[i].fp = f
      <4>1. f \notin 0..2
        BY DEF Process
      <4> QED
        BY <2>2, <4>1 DEF FullTable, NoLeak
    <3>2. files'[i].fp = f
      BY <3>1 DEF Stays
    <3> QED
      BY <3>1, <3>2
  <2> QED
    BY <2>1, <2>2
<1> QED
  BY <1>1, <1>2, <1>4, <1>5, <1>6 DEF FullTable

LEMMA SameFull ==
  ASSUME FullTable, UNCHANGED <<files, open, made>>
  PROVE  FullTable'
<1>1. Shape' /\ Numbered' /\ NoLeak' /\ Unshared'
  BY DEF FullTable, Shape, Numbered, NoLeak, Unshared
<1>2. FullSlots'
  BY DEF FullTable, FullSlots, FullSlot
<1> QED
  BY <1>1, <1>2 DEF FullTable

LEMMA FullFault ==
  ASSUME FullInv, NEW f \in {"null", "closed"}, Fault(f)
  PROVE  FullInv'
BY SameFull DEF Fault, FullInv, FullRunning, streams

LEMMA MisuseKinds == \A f : Misuse(f) \in {"none", "null", "closed"}
BY DEF Misuse

LEMMA MisclosedKinds == \A S : Misclosed(S) \in {"none", "null", "closed"}
BY DEF Misclosed

\* openfile in a table of any program.
LEMMA FullObtain ==
  ASSUME FullTable, NEW s \in Name, NEW a \in Redirections, NEW f, Obtain(s, a, f)
  PROVE  FullTable'
<1>1. PICK ghosts \in SUBSET Freed :
        \/ UNCHANGED <<files, streams>>
        \/ /\ IF s = "-" /\ a = "LT"
                THEN f = 0 /\ UNCHANGED streams
                ELSE /\ made < MaxStreams /\ f = made
                     /\ open' = open \cup {f} /\ made' = made + 1
           /\ files' = [Room EXCEPT ![Place] = Slot(s, f, Kept(a))]
  BY DEF Obtain
<1>2. CASE UNCHANGED <<files, streams>>
  BY <1>2, SameFull DEF streams
<1>3. ASSUME files' = [Room EXCEPT ![Place] = Slot(s, f, Kept(a))],
             \/ f = 0 /\ open' = open /\ made' = made
             \/ f = made /\ open' = open \cup {f} /\ made' = made + 1
      PROVE  FullTable'
  <2> DEFINE sl == Slot(s, f, Kept(a))
  <2>1. /\ Room \in Seq(SlotType) /\ DOMAIN files \subseteq DOMAIN Room
        /\ Place \in DOMAIN Room /\ Len(Room) >= 3
        /\ Place \in DOMAIN files => files[Place].fp = NoFile
        /\ \A i \in DOMAIN Room : Room[i] = IF i \in DOMAIN files THEN files[i] ELSE Vacant
    BY RoomFacts DEF FullTable
  <2>2. made \in Nat /\ made >= 3 /\ open \subseteq 0..made - 1
    BY DEF FullTable, Numbered
  <2>3. f \in Nat /\ made' \in Nat /\ made <= made' /\ f < made' /\ open' \subseteq 0..made' - 1
        /\ f \in open' \cup 0..2
    <3>1. CASE f = 0 /\ open' = open /\ made' = made
      <4>1. f \in 0..2
        BY ONLY <3>1
      <4> QED
        BY ONLY <2>2, <3>1, <4>1
    <3>2. CASE f = made /\ open' = open \cup {f} /\ made' = made + 1
      <4>1. f \in Nat /\ made' \in Nat /\ made <= made' /\ f < made'
        BY ONLY <2>2, <3>2
      <4>2. open' \subseteq 0..made' - 1
        BY ONLY <2>2, <3>2
      <4> QED
        BY ONLY <3>2, <4>1, <4>2
    <3> QED
      BY <1>3, <3>1, <3>2
  <2>4. /\ sl.name = s /\ sl.fp = f /\ sl.mode = Kept(a) /\ ~sl.freed /\ s # ""
    <3>1. s # ""
      BY NamesNotEmpty
    <3>2. /\ sl.name = s /\ sl.fp = f /\ sl.mode = Kept(a) /\ ~sl.freed
      BY SlotParts
    <3> QED
      BY <3>1, <3>2
  <2>5. sl \in SlotType
    BY <2>3, KeptKind DEF Slot, SlotType, Kinds
  <2>6. f # NoFile
    BY <2>3 DEF NoFile
  <2> HIDE DEF sl
  <2>7. files' = [Room EXCEPT ![Place] = sl]
    BY <1>3 DEF sl
  <2>8. /\ DOMAIN files' = DOMAIN Room /\ Len(files') = Len(Room) /\ files' \in Seq(SlotType)
        /\ files'[Place] = sl
        /\ \A i \in DOMAIN Room : i # Place => files'[i] = Room[i]
    BY <2>1, <2>5, <2>7
  <2>9. \A i \in DOMAIN files' : i \in {Place} \/ Stays(i)
    BY <2>1, <2>8 DEF Stays
  <2>10. \A i \in {Place} \cap DOMAIN files' : FullSlot(i, files[i])'
    BY <2>3, <2>4, <2>6, <2>8 DEF FullSlot
  <2>11. Process(f) \/ f >= made
    BY <1>3, <2>2 DEF Process
  <2>12. \A g \in open' : g \in open \/ g = f
    BY <1>3
  <2>13. \A g \in open : g \in open'
    BY <1>3
  <2>14. \A i \in {Place} \cap DOMAIN files : Process(files[i].fp)
    BY <2>1 DEF Process
  <2>15. files'[Place].fp = f /\ Place \in DOMAIN files'
    BY <2>1, <2>4, <2>8
  <2> QED
    BY <2>1, <2>3, <2>8, <2>9, <2>10, <2>11, <2>12, <2>13, <2>14, <2>15, Changed
<1> QED
  BY <1>1, <1>2, <1>3 DEF streams

\* Streams are closed and their slots emptied.
LEMMA FullCloses ==
  ASSUME FullTable, NEW S, S \subseteq DOMAIN files,
         files' \in Seq(SlotType), DOMAIN files' = DOMAIN files,
         \A i \in S : /\ files'[i].fp = NoFile
                      /\ IF files'[i].freed THEN i \notin Std
                         ELSE i \in Std \/ files'[i].name = "",
         \A i \in DOMAIN files \ S : files'[i] = files[i],
         open' = open \ Streams(S), made' = made
  PROVE  FullTable'
<1>1. Len(files') >= 3
  <2>1. DOMAIN files = 1..Len(files) /\ Len(files) \in Nat /\ Len(files) >= 3
    BY SlotNumbers DEF FullTable, Shape
  <2>2. DOMAIN files' = 1..Len(files') /\ Len(files') \in Nat
    BY SequenceDomain
  <2> QED
    BY <2>1, <2>2, SameLength
<1>2. made' \in Nat /\ made <= made' /\ open' \subseteq 0..made' - 1
  <2>1. made \in Nat /\ open \subseteq 0..made - 1
    BY DEF FullTable, Numbered
  <2>2. made <= made' /\ open' \subseteq open
    BY ONLY <2>1, made' = made, open' = open \ Streams(S)
  <2> QED
    BY <2>1, <2>2
<1>3. \A i \in DOMAIN files' : i \in S \/ Stays(i)
  BY DEF Stays
<1>4. \A i \in S \cap DOMAIN files' : FullSlot(i, files[i])'
  BY DEF FullSlot
<1>5. /\ \A i \in S \cap DOMAIN files' : Process(files'[i].fp) \/ files'[i].fp >= made
      /\ \A i, j \in S \cap DOMAIN files' :
           files'[i].fp = files'[j].fp => i = j \/ Process(files'[i].fp)
  BY DEF Process
<1>6. \A f \in open : f \in open' \/ Process(f) \/ \E i \in S \cap DOMAIN files : files[i].fp = f
  BY DEF Streams
<1>7. \A i \in S \cap DOMAIN files : Process(files[i].fp) \/ files[i].fp \notin open'
                                       \/ files'[i].fp = files[i].fp
  BY DEF Streams
<1>8. \A f \in open' : f \in open \/ Process(f)
                         \/ \E i \in S \cap DOMAIN files' : files'[i].fp = f
  OBVIOUS
<1>9. DOMAIN files \subseteq DOMAIN files'
  OBVIOUS
<1> QED
  BY <1>1, <1>2, <1>3, <1>4, <1>5, <1>6, <1>7, <1>8, <1>9, Changed

LEMMA FullClosefile ==
  ASSUME FullInv, NEW s \in Name, closefile(s)
  PROVE  FullInv'
<1>1. PICK ghosts \in SUBSET Freed :
        LET S == Named(s, ghosts)
        IN  IF Misclosed(S) # "none" THEN Fault(Misclosed(S))
            ELSE /\ open' = open \ Streams(S)
                 /\ files' = [i \in DOMAIN files |->
                                IF i \in S THEN [files[i] EXCEPT !.name = "", !.fp = NoFile]
                                ELSE files[i]]
                 /\ UNCHANGED <<made, running, runs, pending, fault>>
  BY DEF closefile
<1> DEFINE S == Named(s, ghosts)
<1>2. CASE Misclosed(S) # "none"
  BY <1>1, <1>2, MisclosedKinds, FullFault
<1>3. CASE Misclosed(S) = "none"
  <2>1. /\ open' = open \ Streams(S)
        /\ files' = [i \in DOMAIN files |->
                       IF i \in S THEN [files[i] EXCEPT !.name = "", !.fp = NoFile]
                       ELSE files[i]]
        /\ UNCHANGED <<made, running, runs, pending, fault>>
    BY <1>1, <1>3
  <2>2. S \subseteq DOMAIN files
    BY DEF Named
  <2> HIDE DEF S
  <2>3. \A i \in DOMAIN files : files[i] \in SlotType
    BY SlotNumbers DEF FullInv, FullTable
  <2>4. ASSUME NEW i \in DOMAIN files
        PROVE  LET sl == [files[i] EXCEPT !.name = "", !.fp = NoFile]
               IN  /\ sl \in SlotType /\ sl.fp = NoFile /\ sl.name = ""
                   /\ sl.freed = files[i].freed
    BY <2>3 DEF SlotType
  <2>5. files' \in Seq(SlotType)
    <3>1. files' \in [1..Len(files) -> SlotType] /\ Len(files) \in Nat
      BY <2>1, <2>3, <2>4, SlotNumbers DEF FullInv, FullTable
    <3> QED
      BY <3>1
  <2>6. \A i \in S : /\ files'[i].fp = NoFile /\ files'[i].name = ""
                     /\ files'[i].freed = files[i].freed
    BY <2>1, <2>2, <2>4
  <2>7. \A i \in DOMAIN files : files[i].freed => i \notin Std
    BY DEF FullInv, FullTable, FullSlots, FullSlot
  <2>8. FullTable'
    BY <2>1, <2>2, <2>5, <2>6, <2>7, FullCloses DEF FullInv
  <2> QED
    BY <2>1, <2>8 DEF FullInv, FullRunning
<1> QED
  BY <1>2, <1>3

LEMMA FullCloseall ==
  ASSUME FullInv, closeall
  PROVE  FullInv'
<1> DEFINE S == Closing
<1>1. CASE Misclosed(S) # "none"
  BY <1>1, MisclosedKinds, FullFault DEF closeall
<1>2. CASE Misclosed(S) = "none"
  <2>1. /\ open' = open \ Streams(S)
        /\ files' = [i \in DOMAIN files |->
                       IF i \in S THEN [files[i] EXCEPT !.fp = NoFile, !.freed = i \notin Std]
                       ELSE files[i]]
        /\ running' = FALSE /\ pending' = NotPrinting
        /\ UNCHANGED <<made, runs, fault>>
    BY <1>2 DEF closeall
  <2>2. S \subseteq DOMAIN files
    BY DEF Closing
  <2> HIDE DEF S
  <2>3. \A i \in DOMAIN files : files[i] \in SlotType
    BY SlotNumbers DEF FullInv, FullTable
  <2>4. ASSUME NEW i \in DOMAIN files
        PROVE  LET sl == [files[i] EXCEPT !.fp = NoFile, !.freed = i \notin Std]
               IN  sl \in SlotType /\ sl.fp = NoFile /\ sl.freed = (i \notin Std)
    BY <2>3 DEF SlotType
  <2>5. files' \in Seq(SlotType)
    <3>1. files' \in [1..Len(files) -> SlotType] /\ Len(files) \in Nat
      BY <2>1, <2>3, <2>4, SlotNumbers DEF FullInv, FullTable
    <3> QED
      BY <3>1
  <2>6. \A i \in S : files'[i].fp = NoFile /\ files'[i].freed = (i \notin Std)
    BY <2>1, <2>2, <2>4
  <2>7. FullTable'
    BY <2>1, <2>2, <2>5, <2>6, FullCloses DEF FullInv
  <2> QED
    BY <2>1, <2>7 DEF FullInv, FullRunning
<1> QED
  BY <1>1, <1>2

LEMMA MoreNumbers ==
  ASSUME NEW m \in Nat, NEW n \in Nat, m <= n
  PROVE  0..m - 1 \subseteq 0..n - 1
OBVIOUS

LEMMA FullRun ==
  ASSUME FullInv, Run
  PROVE  FullInv'
<1> DEFINE shut == {i \in Std : files[i].fp = NoFile}
           home == {i \in shut : files[i].name = StdName[i]}
<1>1. CASE \E i \in shut : files[i].name = ""
  <2>1. Fault("null")
    BY <1>1 DEF Run
  <2> QED
    BY <2>1, FullFault
<1>2. CASE ~ \E i \in shut : files[i].name = ""
  <2>1. PICK found \in SUBSET (shut \ home) :
          /\ files' = [i \in DOMAIN files |->
               IF i \in home THEN [files[i] EXCEPT !.fp = i - 1]
               ELSE IF i \in found THEN [files[i] EXCEPT !.fp = made + i - 1]
               ELSE files[i]]
          /\ open' = open \cup {made + i - 1 : i \in found}
          /\ made' = IF found = {} THEN made ELSE made + 3
          /\ running' = TRUE /\ runs' = runs + 1
          /\ UNCHANGED <<pending, fault>>
    BY <1>2 DEF Run
  <2>2. /\ home \subseteq Std /\ found \subseteq Std /\ home \cap found = {}
        /\ \A i \in home \cup found : files[i].fp = NoFile /\ files[i].name # ""
    BY <1>2
  <2> HIDE DEF shut, home
  <2>3. /\ Std \subseteq DOMAIN files /\ DOMAIN files = 1..Len(files) /\ Len(files) \in Nat
        /\ \A i \in DOMAIN files : files[i] \in SlotType
    BY SlotNumbers DEF FullInv, FullTable
  <2>4. made \in Nat /\ made >= 3 /\ open \subseteq 0..made - 1 /\ runs \in Nat
    BY DEF FullInv, FullTable, Numbered, FullRunning
  <2>5. \A i \in Std : i - 1 \in 0..2 /\ i - 1 \in Nat /\ i - 1 < made
    BY ONLY <2>4 DEF Std
  <2>6. \A i \in Std : made + i - 1 \in Nat /\ made + i - 1 >= made /\ made + i - 1 <= made + 2
    BY ONLY <2>4 DEF Std
  <2>7. \A i, j \in Std : made + i - 1 = made + j - 1 => i = j
    BY ONLY <2>4 DEF Std
  <2>8. ASSUME NEW i \in DOMAIN files, NEW f \in Nat
        PROVE  LET sl == [files[i] EXCEPT !.fp = f]
               IN  /\ sl \in SlotType /\ sl.fp = f /\ sl.name = files[i].name
                   /\ sl.freed = files[i].freed
    BY <2>3 DEF SlotType
  <2>9. /\ \A i \in home : /\ files'[i] \in SlotType
                           /\ files'[i].fp = i - 1 /\ files'[i].name = files[i].name
                           /\ files'[i].freed = files[i].freed
        /\ \A i \in found : /\ files'[i] \in SlotType
                            /\ files'[i].fp = made + i - 1 /\ files'[i].name = files[i].name
                            /\ files'[i].freed = files[i].freed
        /\ \A i \in DOMAIN files : i \notin home /\ i \notin found => files'[i] = files[i]
    <3>1. ASSUME NEW i \in home
          PROVE  /\ files'[i] \in SlotType
                 /\ files'[i].fp = i - 1 /\ files'[i].name = files[i].name
                 /\ files'[i].freed = files[i].freed
      <4>1. files'[i] = [files[i] EXCEPT !.fp = i - 1]
        BY <2>1, <2>2, <2>3
      <4>2. i \in DOMAIN files /\ i - 1 \in Nat
        BY <2>2, <2>3, <2>5
      <4> QED
        BY <4>1, <4>2, <2>8
    <3>2. ASSUME NEW i \in found
          PROVE  /\ files'[i] \in SlotType
                 /\ files'[i].fp = made + i - 1 /\ files'[i].name = files[i].name
                 /\ files'[i].freed = files[i].freed
      <4>1. files'[i] = [files[i] EXCEPT !.fp = made + i - 1]
        BY <2>1, <2>2, <2>3
      <4>2. i \in DOMAIN files /\ made + i - 1 \in Nat
        BY <2>2, <2>3, <2>6
      <4> QED
        BY <4>1, <4>2, <2>8
    <3>3. \A i \in DOMAIN files : i \notin home /\ i \notin found => files'[i] = files[i]
      BY <2>1
    <3> QED
      BY <3>1, <3>2, <3>3
  <2>10. DOMAIN files' = DOMAIN files /\ files' \in Seq(SlotType) /\ Len(files') >= 3
    <3>1. DOMAIN files' = 1..Len(files)
      BY <2>1, <2>3
    <3>2. \A i \in 1..Len(files) : files'[i] \in SlotType
      BY <2>3, <2>9
    <3>3. files' = [i \in 1..Len(files) |-> files'[i]]
      BY <2>1, <2>3
    <3>4. files' \in [1..Len(files) -> SlotType]
      BY <3>2, <3>3
    <3>5. files' \in Seq(SlotType)
      BY <2>3, <3>4
    <3>6. Len(files') = Len(files) /\ Len(files) >= 3
      BY <2>3, <3>1, <3>5 DEF FullInv, FullTable, Shape
    <3> QED
      BY <2>3, <3>1, <3>5, <3>6
  <2>11. made' \in Nat /\ made <= made' /\ (found # {} => made' = made + 3)
    BY ONLY <2>1, <2>4
  <2>12. open' \subseteq 0..made' - 1
    <3>1. \A i \in found : made + i - 1 \in 0..made' - 1
      <4> SUFFICES ASSUME NEW i \in found PROVE made + i - 1 \in 0..made' - 1
        OBVIOUS
      <4>1. made + i - 1 \in Nat /\ made + i - 1 <= made + 2
        BY <2>2, <2>6
      <4>2. made' = made + 3
        BY <2>11
      <4> QED
        BY ONLY <4>1, <4>2, <2>4
    <3>2. \A f \in open : f \in 0..made' - 1
      <4>1. made' \in Nat /\ made <= made'
        BY <2>11
      <4>2. made \in Nat /\ open \subseteq 0..made - 1
        BY <2>4
      <4>3. 0..made - 1 \subseteq 0..made' - 1
        BY <4>1, <4>2, MoreNumbers
      <4> QED
        BY ONLY <4>2, <4>3
    <3> QED
      BY <2>1, <3>1, <3>2
  <2> DEFINE C == home \cup found
  <2>13. C \subseteq Std /\ C \subseteq DOMAIN files /\ C \subseteq DOMAIN files'
    BY <2>2, <2>3, <2>10
  <2>14. \A i \in DOMAIN files' : i \in C \/ Stays(i)
    BY <2>9, <2>10 DEF Stays
  <2>15. \A i \in C : /\ files'[i].fp \in open' \cup 0..2 /\ files'[i].fp < made'
                      /\ files'[i].fp # NoFile
                      /\ Process(files'[i].fp) \/ files'[i].fp >= made
    <3>1. ASSUME NEW i \in home
          PROVE  /\ files'[i].fp \in 0..2 /\ files'[i].fp < made'
                 /\ files'[i].fp # NoFile /\ Process(files'[i].fp)
      <4>1. files'[i].fp = i - 1 /\ i - 1 \in 0..2
        BY <2>2, <2>5, <2>9
      <4>2. \A f \in 0..2 : f < made' /\ f # NoFile /\ Process(f)
        BY ONLY <2>4, <2>11 DEF NoFile, Process
      <4> QED
        BY <4>1, <4>2
    <3>2. ASSUME NEW i \in found
          PROVE  /\ files'[i].fp \in open' /\ files'[i].fp < made'
                 /\ files'[i].fp # NoFile /\ files'[i].fp >= made
      <4>1. files'[i].fp = made + i - 1 /\ made' = made + 3
        BY <2>9, <2>11
      <4>2. made + i - 1 \in Nat /\ made + i - 1 >= made /\ made + i - 1 <= made + 2
        BY <2>2, <2>6
      <4>3. made + i - 1 < made + 3 /\ made + i - 1 # NoFile
        BY ONLY <4>2, <2>4 DEF NoFile
      <4>4. made + i - 1 \in open'
        BY <2>1
      <4> QED
        BY <4>1, <4>2, <4>3, <4>4
    <3> QED
      BY <3>1, <3>2
  <2>16. \A i \in C : FullSlot(i, files[i])'
    <3>1. \A i \in C : ~files[i].freed /\ files[i].name # ""
      BY <2>2, <2>3 DEF FullInv, FullTable, FullSlots, FullSlot
    <3>2. \A i \in C : ~files'[i].freed /\ files'[i].name # ""
      BY <2>9, <3>1
    <3> QED
      BY <2>13, <2>15, <3>2 DEF FullSlot
  <2>17. \A i, j \in C : files'[i].fp = files'[j].fp => i = j \/ Process(files'[i].fp)
    <3> SUFFICES ASSUME NEW i \in C, NEW j \in C, files'[i].fp = files'[j].fp, i \in found, j \in found
                 PROVE  i = j
      <4>1. \A i \in home : Process(files'[i].fp)
        <5>1. \A i \in home : files'[i].fp = i - 1 /\ i - 1 \in 0..2
          BY <2>2, <2>5, <2>9
        <5>2. \A f \in 0..2 : Process(f)
          BY ONLY DEF Process
        <5> QED
          BY <5>1, <5>2
      <4> QED
        BY <4>1
    <3>1. made + i - 1 = made + j - 1
      BY <2>9
    <3> QED
      BY <2>2, <2>7, <3>1
  <2>18. \A i \in C : Process(files[i].fp)
    BY <2>2 DEF Process
  <2>19. \A f \in open' : f \in open \/ \E i \in C : files'[i].fp = f
    BY <2>1, <2>9
  <2>20. \A f \in open : f \in open'
    BY <2>1
  <2> HIDE DEF C
  <2>21. C \cap DOMAIN files = C /\ C \cap DOMAIN files' = C
    BY <2>13
  <2>22. FullTable'
    BY <2>10, <2>11, <2>12, <2>14, <2>15, <2>16, <2>17, <2>18, <2>19, <2>20, <2>21, Changed
       DEF FullInv
  <2> QED
    BY <2>1, <2>4, <2>22 DEF FullInv, FullRunning
<1> QED
  BY <1>1, <1>2

\* Slot n gets stream g, as a redirection by the host does.
LEMMA FullSwitch ==
  ASSUME FullTable, NEW n \in Std, NEW s \in Name, NEW g \in Nat,
         files' = [files EXCEPT ![n].fp = g, ![n].name = s],
         made' \in Nat, made <= made', g < made',
         g \in open' \cup 0..2, Process(g) \/ g >= made,
         open' \subseteq open \cup {g}, open' \subseteq 0..made' - 1,
         \A f \in open : f \in open' \/ f = files[n].fp,
         Process(files[n].fp) \/ files[n].fp \notin open' \/ files[n].fp = g
  PROVE  FullTable'
<1>1. /\ n \in DOMAIN files /\ DOMAIN files = 1..Len(files) /\ Len(files) \in Nat
      /\ Len(files) >= 3 /\ \A i \in DOMAIN files : files[i] \in SlotType
  BY SlotNumbers DEF FullTable, Shape
<1>2. [files[n] EXCEPT !.fp = g, !.name = s] \in SlotType
  BY <1>1 DEF SlotType
<1>3. /\ DOMAIN files' = DOMAIN files
      /\ files'[n] = [files[n] EXCEPT !.fp = g, !.name = s]
      /\ \A i \in DOMAIN files : i # n => files'[i] = files[i]
  BY <1>1
<1>4. files'[n].fp = g /\ files'[n].name = s /\ files'[n].freed = files[n].freed
  <2>1. files[n] \in SlotType
    BY <1>1
  <2>2. files'[n] = [files[n] EXCEPT !.fp = g, !.name = s]
    BY <1>3
  <2> QED
    BY ONLY <2>1, <2>2 DEF SlotType
<1>5. files' \in Seq(SlotType) /\ Len(files') >= 3
  <2>1. \A i \in 1..Len(files) : files'[i] \in SlotType
    BY <1>1, <1>2, <1>3
  <2>2. files' \in [1..Len(files) -> SlotType]
    BY <1>1, <2>1
  <2>3. Len(files) \in Nat
    BY <1>1
  <2>4. files' \in Seq(SlotType) /\ Len(files') = Len(files)
    BY ONLY <2>2, <2>3
  <2> QED
    BY <1>1, <2>4
<1>6. \A i \in DOMAIN files' : i \in {n} \/ Stays(i)
  BY <1>3 DEF Stays
<1>7. \A i \in {n} \cap DOMAIN files' : FullSlot(i, files[i])'
  <2>1. ~files[n].freed
    BY <1>1 DEF FullTable, FullSlots, FullSlot
  <2>2. s # ""
    BY NamesNotEmpty
  <2> QED
    BY <1>4, <2>1, <2>2 DEF FullSlot
<1>8. \A f \in open' : f \in open \/ \E i \in {n} \cap DOMAIN files' : files'[i].fp = f
  BY <1>1, <1>3, <1>4
<1>9. \A f \in open : f \in open' \/ \E i \in {n} \cap DOMAIN files : files[i].fp = f
  BY <1>1
<1>10. /\ \A i \in {n} \cap DOMAIN files' : Process(files'[i].fp) \/ files'[i].fp >= made
       /\ \A i, j \in {n} \cap DOMAIN files' :
            files'[i].fp = files'[j].fp => i = j \/ Process(files'[i].fp)
       /\ \A i \in {n} \cap DOMAIN files : Process(files[i].fp) \/ files[i].fp \notin open'
                                             \/ files'[i].fp = files[i].fp
  BY <1>4
<1>11. DOMAIN files \subseteq DOMAIN files'
  BY <1>3
<1> QED
  BY <1>5, <1>6, <1>7, <1>8, <1>9, <1>10, <1>11, Changed

LEMMA FullRedirect ==
  ASSUME FullInv, NEW n \in Std, NEW s \in Name, Redirect(n, s)
  PROVE  FullInv'
<1> DEFINE old == files[n].fp
<1>1. ASSUME NEW f \in {"null", "closed"}, Fault(f) PROVE FullInv'
  BY <1>1, FullFault
<1>2. made \in Nat /\ made >= 3 /\ open \subseteq 0..made - 1
  BY DEF FullInv, FullTable, Numbered
<1>3. old \in Nat \cup {NoFile} /\ (old # NoFile => old < made)
  BY SlotNumbers DEF FullInv, FullTable, FullSlots, FullSlot, SlotType
<1>4. ASSUME open' = (IF old = n - 1 THEN open ELSE open \ {old}),
             files' = [files EXCEPT ![n].fp = n - 1, ![n].name = s],
             UNCHANGED <<made, running, runs, pending, fault>>
      PROVE  FullInv'
  <2>1. n - 1 \in Nat /\ n - 1 \in 0..2 /\ n - 1 < made /\ Process(n - 1)
    BY <1>2 DEF Std, Process
  <2>2. open' \subseteq open
    BY <1>4
  <2>3. open' \subseteq 0..made' - 1 /\ made <= made'
    <3>1. made' = made
      BY <1>4
    <3> QED
      BY ONLY <1>2, <2>2, <3>1
  <2>4. old \notin open' \/ old = n - 1
    BY <1>4
  <2>5. \A f \in open : f \in open' \/ f = old
    BY <1>4
  <2> HIDE DEF old
  <2>6. FullTable'
    BY <1>2, <1>4, <2>1, <2>2, <2>3, <2>4, <2>5, FullSwitch DEF FullInv, old
  <2> QED
    BY <1>4, <2>6 DEF FullInv, FullRunning
<1>5. ASSUME open' = (IF old > 2 THEN open \ {old} ELSE open) \cup {made},
             made' = made + 1,
             files' = [files EXCEPT ![n].fp = made, ![n].name = s],
             UNCHANGED <<running, runs, pending, fault>>
      PROVE  FullInv'
  <2>1. made' \in Nat /\ made <= made' /\ made < made' /\ made >= made
    BY ONLY <1>2, <1>5
  <2>2. open' \subseteq open \cup {made} /\ made \in open'
    BY <1>5
  <2>3. open' \subseteq 0..made' - 1
    BY ONLY <1>2, <1>5
  <2>4. Process(old) \/ old \notin open'
    <3>1. CASE old > 2
      <4>1. old # made
        BY ONLY <1>2, <1>3, <3>1 DEF NoFile
      <4> QED
        BY <1>5, <3>1, <4>1
    <3>2. CASE ~(old > 2)
      BY ONLY <1>3, <3>2 DEF Process
    <3> QED
      BY <3>1, <3>2
  <2>5. \A f \in open : f \in open' \/ f = old
    BY <1>5
  <2>6. FullTable'
    BY <1>2, <1>5, <2>1, <2>2, <2>3, <2>4, <2>5, FullSwitch DEF FullInv
  <2> QED
    BY <1>5, <2>6 DEF FullInv, FullRunning
<1> QED
  BY <1>1, <1>4, <1>5 DEF Redirect

\* Writes and Reads ask openfile for one of the redirections.
LEMMA FullPrintTo ==
  ASSUME FullInv, NEW s \in Name, NEW a \in Redirections, PrintTo(s, a)
  PROVE  FullInv'
<1>1. PICK f \in NoFile..made : Obtain(s, a, f) /\ pending' = f
  BY DEF PrintTo
<1>2. FullTable'
  BY <1>1, FullObtain DEF FullInv
<1>3. f \in Nat \cup {NoFile}
  <2>1. made \in Nat
    BY DEF FullInv, FullTable, Numbered
  <2> QED
    BY ONLY <2>1, f \in NoFile..made DEF NoFile
<1>4. UNCHANGED <<running, runs, fault>>
  BY DEF PrintTo
<1> QED
  BY <1>1, <1>2, <1>3, <1>4 DEF FullInv, FullRunning

LEMMA FullGetline ==
  ASSUME FullInv, NEW s \in Name, NEW a \in Redirections, Getline(s, a)
  PROVE  FullInv'
<1>1. PICK f \in NoFile..made :
        Obtain(s, a, f) /\ fault' = IF f = NoFile THEN "none" ELSE Misuse(f)'
  BY DEF Getline
<1>2. FullTable'
  BY <1>1, FullObtain DEF FullInv
<1>3. fault' \in {"none", "null", "closed"}
  BY <1>1 DEF Misuse
<1>4. UNCHANGED <<running, runs, pending>>
  BY DEF Getline
<1> QED
  BY <1>2, <1>3, <1>4 DEF FullInv, FullRunning

LEMMA FullPrint ==
  ASSUME FullInv, PrintOut \/ Put
  PROVE  FullInv'
<1>1. CASE PrintOut
  <2>1. UNCHANGED <<files, open, made, running, runs, fault>> /\ pending' = files[2].fp
    BY <1>1 DEF PrintOut, streams
  <2>2. files[2].fp \in Nat \cup {NoFile}
    <3>1. 2 \in Std
      BY DEF Std
    <3>2. files[2] \in SlotType
      BY <3>1, SlotNumbers DEF FullInv, FullTable
    <3> QED
      BY ONLY <3>2 DEF SlotType
  <2>3. FullTable'
    BY <2>1, SameFull DEF FullInv
  <2> QED
    BY <2>1, <2>2, <2>3 DEF FullInv, FullRunning
<1>2. CASE Put
  <2>1. CASE Misuse(pending) # "none"
    <3>1. Fault(Misuse(pending))
      BY <1>2, <2>1 DEF Put
    <3> QED
      BY <2>1, <3>1, MisuseKinds, FullFault
  <2>2. CASE Misuse(pending) = "none"
    <3>1. UNCHANGED <<files, open, made, running, runs, fault>> /\ pending' = NotPrinting
      BY <1>2, <2>2 DEF Put, streams
    <3>2. FullTable'
      BY <3>1, SameFull DEF FullInv
    <3> QED
      BY <3>1, <3>2 DEF FullInv, FullRunning
  <2> QED
    BY <2>1, <2>2
<1> QED
  BY <1>1, <1>2

LEMMA FullStep == FullInv /\ [Next]_vars => FullInv'
<1> SUFFICES ASSUME FullInv, [Next]_vars PROVE FullInv'
  OBVIOUS
<1>1. ASSUME NEW s \in Name, Writes(s) PROVE FullInv'
  BY <1>1, FullPrintTo DEF Writes, Redirections
<1>2. ASSUME NEW s \in Name, Reads(s) PROVE FullInv'
  BY <1>2, FullGetline DEF Reads, Redirections
<1>3. CASE PrintOut \/ Put
  BY <1>3, FullPrint
<1>4. CASE closeall
  BY <1>4, FullCloseall
<1>5. CASE Run
  BY <1>5, FullRun
<1>6. ASSUME NEW s \in Name, closefile(s) PROVE FullInv'
  BY <1>6, FullClosefile
<1>7. ASSUME NEW s \in Name, NEW n \in Std, Redirect(n, s) PROVE FullInv'
  BY <1>7, FullRedirect
<1>8. CASE UNCHANGED vars
  <2>1. UNCHANGED <<files, open, made, running, runs, pending, fault>>
    BY <1>8 DEF vars, streams
  <2> QED
    BY <2>1, SameFull DEF FullInv, FullRunning
<1> QED
  BY <1>1, <1>2, <1>3, <1>4, <1>5, <1>6, <1>7, <1>8 DEF Next, Statement

LEMMA FullInit == Init => FullInv
<1> SUFFICES ASSUME Init PROVE FullInv
  OBVIOUS
<1>1. Inv
  BY InitInv
<1>2. open = {0, 1, 2} /\ made = 3
  BY DEF Init
<1>3. open = 0..2
  BY ONLY <1>2
<1>4. Numbered
  BY ONLY <1>2 DEF Numbered
<1>5. \A i \in DOMAIN files : files[i].fp # NoFile => files[i].fp \in 0..2
  BY <1>1, <1>3 DEF Inv, Table, Sound, SoundSlot
<1>6. \A f \in 0..2 : Process(f) /\ f < made
  BY ONLY <1>2 DEF Process
<1>7. Freed = {}
  <2>1. \A i \in DOMAIN files : files[i].freed => FALSE
    <3> SUFFICES ASSUME NEW i \in DOMAIN files PROVE ~files[i].freed
      OBVIOUS
    <3>1. files[i] = IF i \in Std THEN Slot(StdName[i], i - 1, StdMode[i]) ELSE Vacant
      BY DEF Init
    <3>2. CASE i \in Std
      <4>1. files[i] = Slot(StdName[i], i - 1, StdMode[i])
        BY <3>1, <3>2
      <4>2. ~Slot(StdName[i], i - 1, StdMode[i]).freed
        BY SlotParts
      <4> QED
        BY <4>1, <4>2
    <3>3. CASE i \notin Std
      BY <3>1, <3>3, VacantFacts
    <3> QED
      BY <3>2, <3>3
  <2> QED
    BY <2>1 DEF Freed
<1>8. FullSlots
  <2> SUFFICES ASSUME NEW i \in DOMAIN files PROVE FullSlot(i, files[i])
    BY DEF FullSlots
  <2>1. SoundSlot(files[i]) /\ ~files[i].freed
    BY <1>1, <1>7 DEF Inv, Table, Sound, Freed
  <2> QED
    BY <1>5, <1>6, <2>1 DEF SoundSlot, FullSlot
<1>9. Unshared
  BY <1>5, <1>6 DEF Unshared, Process
<1>10. NoLeak
  BY <1>3 DEF NoLeak
<1>11. FullRunning
  BY DEF Init, FullRunning
<1> QED
  BY <1>1, <1>4, <1>8, <1>9, <1>10, <1>11 DEF FullInv, FullTable, Inv, Table

LEMMA FullInvariant == FullSpec => []FullInv
BY FullInit, FullStep, PTL DEF FullSpec
-----------------------------------------------------------------------------
\* TypeOK, for any program and any host.
THEOREM FilesFullTypeOK == FullSpec => []TypeOK
<1>1. FullInv => TypeOK
  BY DEF FullInv, FullTable, FullRunning, Shape, SlotType, Numbered, TypeOK
<1> QED
  BY <1>1, FullInvariant, PTL

\* NoLeak: whatever the program prints to, reads and closes and whatever the
\* host redirects, openfile, close, closeall, run and awk_redirect lose no
\* stream that the library opened.
THEOREM FilesNoLeak == FullSpec => []NoLeak
<1>1. FullInv => NoLeak
  BY DEF FullInv, FullTable
<1> QED
  BY <1>1, FullInvariant, PTL
-----------------------------------------------------------------------------
\* Nothing has happened that lets a stream go wrong: no freed name, standard
\* slots with streams, a print that holds an open one, streams of the process
\* that are open and no stream in two slots.
Clean == /\ Freed = {}
         /\ \A i \in Std : files[i].fp # NoFile
         /\ pending \in open \cup {NotPrinting}
         /\ 0..2 \subseteq open
         /\ ~Twice(Used)

LEMMA CleanStreams ==
  ASSUME FullTable, Clean
  PROVE  /\ \A i \in Used : files[i].fp \in open
         /\ open \subseteq Nat
         /\ \A i \in DOMAIN files : files[i].name # "" => i \in Used
         /\ Std \subseteq Used
<1>1. open \subseteq 0..made - 1 /\ made \in Nat
  BY DEF FullTable, Numbered
<1>2. open \subseteq Nat
  BY ONLY <1>1
<1>3. \A i \in Used : files[i].fp \in open
  BY DEF FullTable, FullSlots, FullSlot, Clean, Used
<1>4. \A i \in Std : i \in Used
  BY SlotNumbers DEF FullTable, Clean, Used
<1>5. \A i \in DOMAIN files : files[i].name # "" => i \in Used
  BY <1>4 DEF FullTable, FullSlots, FullSlot, Clean, Used, Freed
<1> QED
  BY <1>2, <1>3, <1>4, <1>5

\* Streams in use are closed without a fault.
LEMMA CleanCloses ==
  ASSUME FullTable, Clean, NEW S, S \subseteq Used
  PROVE  Misclosed(S) = "none"
<1>1. ~ \E i \in S : files[i].fp = NoFile
  BY DEF Used
<1>2. ~Twice(S)
  BY DEF Clean, Twice
<1>3. ~ \E i \in S : files[i].fp \notin open
  BY CleanStreams
<1> QED
  BY <1>1, <1>2, <1>3 DEF Misclosed

\* What openfile returns is open.
LEMMA CleanObtain ==
  ASSUME FullTable, Clean, NEW s \in Name, NEW a, NEW f, Obtain(s, a, f), f # NoFile
  PROVE  Misuse(f)' = "none"
<1>1. open \subseteq Nat /\ made \in Nat /\ 0 \in open
  <2>1. 0..2 \subseteq open
    BY DEF Clean
  <2>2. 0 \in open
    BY ONLY <2>1
  <2> QED
    BY <2>2, CleanStreams DEF FullTable, Numbered
<1>2. PICK ghosts \in SUBSET Freed :
    \/ /\ Hits(s, a, ghosts) # {}
       /\ f = files[First(Hits(s, a, ghosts))].fp
       /\ UNCHANGED <<files, streams>>
    \/ f = 0 /\ UNCHANGED streams
    \/ f = made /\ open' = open \cup {f}
  BY DEF Obtain
<1> DEFINE H == Hits(s, a, ghosts)
<1>3. H \subseteq DOMAIN files
  BY DEF Hits, Named
<1> HIDE DEF H
<1>4. CASE H # {} /\ f = files[First(H)].fp /\ UNCHANGED streams
  <2>1. First(H) \in H
    BY <1>3, <1>4, FirstIn, SlotNumbers DEF FullTable
  <2>2. f \in open
    BY <1>3, <1>4, <2>1, CleanStreams DEF Used
  <2>3. f \in open'
    BY <1>4, <2>2 DEF streams
  <2>4. ~(f < 0)
    BY ONLY <1>1, <2>2
  <2> QED
    BY <2>3, <2>4 DEF Misuse
<1>5. CASE f = 0 /\ UNCHANGED streams
  <2>1. f \in open'
    BY <1>1, <1>5 DEF streams
  <2>2. ~(f < 0)
    BY ONLY <1>5
  <2> QED
    BY <2>1, <2>2 DEF Misuse
<1>6. CASE f = made /\ open' = open \cup {f}
  <2>1. f \in open' /\ ~(f < 0)
    BY <1>1, <1>6
  <2> QED
    BY <2>1 DEF Misuse
<1> QED
  BY <1>2, <1>4, <1>5, <1>6 DEF H

LEMMA CleanRedirect ==
  ASSUME FullTable, Clean, fault = "none", NEW n \in Std, NEW s, Redirect(n, s)
  PROVE  fault' = "none"
<1> DEFINE old == files[n].fp
<1>1. old # NoFile /\ old \in open
  BY CleanStreams DEF Used
<1>2. files[n].name # ""
  BY <1>1, SlotNumbers DEF FullTable, FullSlots, FullSlot
<1> QED
  BY <1>1, <1>2 DEF Redirect

\* From a clean state no operation uses a null or a closed stream.
LEMMA CleanStep ==
  ASSUME FullInv, Clean, Next
  PROVE  fault' = "none"
<1>1. fault = "none" /\ FullTable
  BY DEF Next, FullInv
<1>2. ASSUME NEW s \in Name, Writes(s) PROVE fault' = "none"
  BY <1>1, <1>2 DEF Writes, PrintTo
<1>3. ASSUME NEW s \in Name, Reads(s) PROVE fault' = "none"
  <2>1. PICK a \in {"LT", "LE"} : Getline(s, a)
    BY <1>3 DEF Reads
  <2>2. PICK f \in NoFile..made :
          Obtain(s, a, f) /\ fault' = IF f = NoFile THEN "none" ELSE Misuse(f)'
    BY <2>1 DEF Getline
  <2>3. f # NoFile => Misuse(f)' = "none"
    BY <1>1, <2>2, CleanObtain
  <2> QED
    BY <2>2, <2>3
<1>4. CASE PrintOut
  BY <1>1, <1>4 DEF PrintOut
<1>5. CASE Put
  <2>1. pending \in open /\ open \subseteq Nat
    BY <1>1, <1>5, CleanStreams DEF Put, Clean
  <2>2. ~(pending < 0)
    BY ONLY <2>1
  <2>3. Misuse(pending) = "none"
    BY <2>1, <2>2 DEF Misuse
  <2> QED
    BY <1>1, <1>5, <2>3 DEF Put
<1>6. CASE closeall
  <2>1. Closing \subseteq Used
    BY <1>1, CleanStreams DEF Closing, Used
  <2> QED
    BY <1>1, <1>6, <2>1, CleanCloses DEF closeall
<1>7. CASE Run
  <2>1. ~ \E i \in {k \in Std : files[k].fp = NoFile} : files[i].name = ""
    BY DEF Clean
  <2> QED
    BY <1>1, <1>7, <2>1 DEF Run
<1>8. ASSUME NEW s \in Name, closefile(s) PROVE fault' = "none"
  <2>1. ASSUME NEW ghosts PROVE Named(s, ghosts) \subseteq Used
    <3>1. s # ""
      BY NamesNotEmpty
    <3>2. \A i \in DOMAIN files : ~files[i].freed
      BY DEF Clean, Freed
    <3> QED
      BY <1>1, <3>1, <3>2, CleanStreams DEF Named
  <2>2. \A ghosts : Misclosed(Named(s, ghosts)) = "none"
    BY <1>1, <2>1, CleanCloses
  <2> QED
    BY <1>1, <1>8, <2>2 DEF closefile
<1>9. ASSUME NEW s \in Name, NEW n \in Std, Redirect(n, s) PROVE fault' = "none"
  BY <1>1, <1>9, CleanRedirect
<1> QED
  BY <1>2, <1>3, <1>4, <1>5, <1>6, <1>7, <1>8, <1>9 DEF Next, Statement

\* FaultCauses: a statement, a close or a call of the host that uses a null or
\* a closed stream comes after a freed name, a lost standard stream, a print
\* whose arguments closed its file, or a closed or doubled process stream.
THEOREM FilesFaultCauses == FullSpec => FaultCauses
<1> DEFINE Step == fault' # "none" =>
                     \/ Freed # {} \/ \E i \in Std : files[i].fp = NoFile
                     \/ pending \notin open \cup {NotPrinting}
                     \/ ~ 0..2 \subseteq open \/ Twice(Used)
<1>1. FullInv /\ [Next]_vars => [Step]_vars
  BY CleanStep DEF Clean
<1> HIDE DEF Step
<1>2. FullSpec => [][Step]_vars
  BY <1>1, FullInvariant, PTL DEF FullSpec
<1> QED
  BY <1>2 DEF Step, FaultCauses
=============================================================================
