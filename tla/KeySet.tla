------------------------------- MODULE KeySet -------------------------------
(***************************************************************************)
(* What an AWK program may expect of an array: a set of subscripts.  A     *)
(* reference puts its subscript in, "in" asks for one without putting it   *)
(* in, delete takes it out, and for (k in a) names subscripts that are     *)
(* there.  AwkArray is shown to implement this specification.              *)
(***************************************************************************)
CONSTANTS Key, NIL

VARIABLES keys, out

vars == <<keys, out>>

Init == keys = {} /\ out = <<"none", NIL, FALSE>>

\* a[k]: the answer tells whether the element was there.
Refer(k) == /\ out' = <<"refer", k, k \in keys>>
            /\ keys' = keys \cup {k}

Ask(k) == out' = <<"in", k, k \in keys>> /\ UNCHANGED keys

Delete(k) == out' = <<"delete", k, k \in keys>> /\ keys' = keys \ {k}

Clear == out' = <<"clear", NIL, FALSE>> /\ keys' = {}

Visit(k) == k \in keys /\ out' = <<"visit", k, TRUE>> /\ UNCHANGED keys

LoopEnd == out' = <<"end", NIL, FALSE>> /\ UNCHANGED keys

Next == \/ \E k \in Key : Refer(k) \/ Ask(k) \/ Delete(k) \/ Visit(k)
        \/ Clear \/ LoopEnd

Spec == Init /\ [][Next]_vars
=============================================================================
