---------------------------- MODULE Environments ----------------------------
(***************************************************************************)
(* What names mean in functions: a parameter belongs to its call; a scalar *)
(* argument is copied, an array is shared; and when a call ends with an    *)
(* array for a parameter that was passed a variable without one, the       *)
(* variable becomes that array.  Names are those of the function whose     *)
(* text it is, in the arguments of a call those of the caller.             *)
(*                                                                         *)
(* A call that leaves an array in a parameter that was passed an           *)
(* expression has no meaning, nor has one that leaves a scalar in the      *)
(* array it was passed.                                                    *)
(***************************************************************************)
EXTENDS Naturals, Sequences

CONSTANTS Globals, MaxParams, Scalars, Arrays, Initial

VARIABLES variable,  \* the value of each global variable
          scopes,    \* the calls: [running, params]
          defined    \* FALSE: what happens has no meaning

environment == <<variable, scopes, defined>>

\* A place is <<0, g>> for the variable g, <<k, n>> for parameter n of call k.
\* A parameter has a home, the place or other thing it was passed, and a
\* value, which is Shared when it stands for the array at home.
Place(g)   == <<0, g>>
Expression == <<0>>
Nothing    == <<>>
Shared     == "shared"

Init == variable = [g \in Globals |-> Initial] /\ scopes = <<>> /\ defined = TRUE

Depth == Len(scopes)
Top   == scopes[Depth]
At(p) == IF p[1] = 0 THEN variable[p[2]] ELSE scopes[p[1]].params[p[2]].value

\* The places that can be named: those of the innermost running call.
Running == {k \in DOMAIN scopes : scopes[k].running}
Current == IF Running = {} THEN 0 ELSE CHOOSE k \in Running : \A m \in Running : m <= k
Resolve(n) == LET b == scopes[Current].params[n]
              IN IF b.value = Shared THEN b.home ELSE <<Current, n>>
Named == {Place(g) : g \in Globals} \cup
         IF Current = 0 THEN {} ELSE {Resolve(n) : n \in DOMAIN scopes[Current].params}

Write(p, v) ==
  IF p[1] = 0 THEN variable' = [variable EXCEPT ![p[2]] = v] /\ UNCHANGED scopes
  ELSE scopes' = [scopes EXCEPT ![p[1]].params[p[2]].value = v] /\ UNCHANGED variable
-----------------------------------------------------------------------------
Assign == \E p \in Named, v \in Scalars : At(p) \notin Arrays /\ Write(p, v)

\* A record is read into a name, which gives up an array for it.
ReadInto == \E p \in Named, v \in Scalars : Write(p, v)

UseAsArray == \E p \in Named, v \in Arrays : Write(p, v)

Call == /\ scopes' = Append(scopes, [running |-> FALSE, params |-> <<>>])
        /\ UNCHANGED variable

Bind(b) == scopes' = [scopes EXCEPT ![Depth].params = Append(@, b)] /\ UNCHANGED variable

Pass == /\ Depth > 0 /\ ~Top.running
        /\ \/ \E p \in Named :
                Bind([home |-> p, value |-> IF At(p) \in Arrays THEN Shared ELSE At(p)])
           \/ \E v \in Scalars : Bind([home |-> Expression, value |-> v])

Local == [home |-> Nothing, value |-> Initial]

Start == /\ Depth > 0 /\ ~Top.running
         /\ \E n \in 0..MaxParams :
              scopes' = [scopes EXCEPT ![Depth] =
                [running |-> TRUE, params |-> Top.params \o [i \in 1..n |-> Local]]]
         /\ UNCHANGED variable

\* The parameters that are an array made by the call, with the home p.
MadeFor(p) == {n \in DOMAIN Top.params : Top.params[n].home = p /\ Top.params[n].value \in Arrays}
After(p)   == IF At(p) \in Scalars /\ MadeFor(p) # {}
              THEN Top.params[CHOOSE n \in MadeFor(p) : \A m \in MadeFor(p) : n <= m].value
              ELSE At(p)

\* The parameters that share what is no array any more.
Overwritten == {n \in DOMAIN Top.params :
                  /\ Top.params[n].value = Shared /\ At(Top.params[n].home) \notin Arrays
                  /\ \A m \in MadeFor(Top.params[n].home) : n < m}

Meaningful == MadeFor(Expression) = {} /\ Overwritten = {}

Return ==
  /\ Depth > 0 /\ Top.running /\ Meaningful
  /\ variable' = [g \in Globals |-> After(Place(g))]
  /\ scopes' = [k \in 1..(Depth - 1) |->
       [scopes[k] EXCEPT !.params =
          [n \in DOMAIN @ |-> [@[n] EXCEPT !.value = After(<<k, n>>)]]]]

\* The program ends with an error.
Stop == scopes' = <<>> /\ UNCHANGED variable

\* Afterwards anything may be.
Undefined == Depth > 0 /\ Top.running /\ ~Meaningful /\ defined' = FALSE

Next == /\ defined = TRUE
        /\ \/ /\ defined' = TRUE
              /\ \/ Assign \/ ReadInto \/ UseAsArray
                 \/ Call \/ Pass \/ Start \/ Return \/ Stop
           \/ Undefined

Spec == Init /\ [][Next]_environment
=============================================================================
