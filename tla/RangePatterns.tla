--------------------------- MODULE RangePatterns ---------------------------
(***************************************************************************)
(* What a range pattern promises: a program has ranges of its own, which   *)
(* start closed when it is compiled; one opens at a record its first       *)
(* pattern matches and closes with the one its second matches, the same    *)
(* record perhaps; nothing another program does touches it.                *)
(***************************************************************************)
EXTENDS Naturals

CONSTANTS Interp, MaxRanges

VARIABLE open      \* for each program, whether each of its ranges is open

Init == open = [i \in Interp |-> <<>>]

Compiled(i) == /\ open[i] = <<>>
               /\ \E n \in 0..MaxRanges : open' = [open EXCEPT ![i] = [k \in 1..n |-> FALSE]]

Record(i) == \E k \in DOMAIN open[i], first, last \in BOOLEAN :
               open' = [open EXCEPT ![i][k] = (@ \/ first) /\ ~last]

Dropped(i) == open' = [open EXCEPT ![i] = <<>>]

Next == \E i \in Interp : Compiled(i) \/ Record(i) \/ Dropped(i)

Spec == Init /\ [][Next]_open
=============================================================================
