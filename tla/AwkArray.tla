------------------------------ MODULE AwkArray ------------------------------
(***************************************************************************)
(* The hash table behind an AWK array, and a for (k in a) loop that walks  *)
(* it while its body uses the array.                                       *)
(*                                                                         *)
(* A chain is the set of the keys of a bucket, in the order of their rank: *)
(* insert_sym puts a cell at the head (rank 0), rehash moves the cells one *)
(* by one to the heads of their new chains, which turns the order round.   *)
(* The iterator is a position in the table and a pointer to a cell; gone   *)
(* says that the cell, or the table, has been freed since.                 *)
(***************************************************************************)
EXTENDS Integers, FiniteSets

CONSTANTS Key,    \* subscripts
          Hash,   \* hash value of each
          Size,   \* NSYMTAB
          NIL

ASSUME ArrayAssumption ==
  /\ Hash \in [Key -> Nat]
  /\ Size \in Nat \ {0}
  /\ NIL \notin Key

VARIABLES sz,      \* size of tab
          bucket,  \* the chain each stored key is in
          rank,    \* its place: smaller is nearer to a head
          nelem,
          loop,    \* [on, ipos, ptr, gone] of the loop's iterator
          seen,    \* the loop so far: keys visited,
          again,   \* ... whether one was visited twice,
          kept,    \* ... keys that have been there all the time,
          grew,    \* ... whether the table was rehashed
          fault,   \* "none", "dangling" or "count"
          out

table == <<sz, bucket, rank, nelem>>
walk  == <<loop, seen, again, kept, grew>>
vars  == <<table, walk, fault, out>>

FULLTAB == 2
GROWTAB == 4

keys == DOMAIN bucket

Idle == [on |-> FALSE, ipos |-> 0, ptr |-> NIL, gone |-> FALSE]

Init == /\ sz = Size /\ nelem = 0
        /\ bucket = [k \in {} |-> 0] /\ rank = [k \in {} |-> 0]
        /\ loop = Idle /\ seen = {} /\ again = FALSE /\ kept = {} /\ grew = FALSE
        /\ fault = "none" /\ out = <<"none", NIL, FALSE>>

\* The order in which an iterator meets the cells.
Before(k, l) == \/ bucket[k] < bucket[l]
                \/ bucket[k] = bucket[l] /\ rank[k] < rank[l]

\* lookup walks the chain of the bucket the key hashes to now.
lookup(k) == k \in keys /\ bucket[k] = Hash[k] % sz
-----------------------------------------------------------------------------
\* (Mutant) The new cell takes the place of the head of its chain.
ChainOverHead(k, h, bkt, ord) ==
  /\ bucket' = [l \in keys \cup {k} |-> IF l = k THEN h ELSE bkt[l]]
  /\ rank' = [l \in keys \cup {k} |-> IF l = k THEN 0 ELSE ord[l]]

\* The bucket and the rank of the new cell, and those of the others, which
\* are in the chains bkt in the order ord.
Chain(k, h, bkt, ord) ==
  /\ bucket' = [l \in keys \cup {k} |-> IF l = k THEN h ELSE bkt[l]]
  /\ rank' = [l \in keys \cup {k} |-> IF l = k THEN 0 ELSE ord[l] + 1]

\* (Mutant) The bucket is computed before the table grows.
insertEarlyHash(k) ==
  /\ nelem' = nelem + 1
  /\ \/ /\ Chain(k, Hash[k] % sz, bucket, rank)
        /\ UNCHANGED <<sz, grew>>
     \/ /\ nelem + 1 > FULLTAB * sz
        /\ sz' = GROWTAB * sz
        /\ grew' = TRUE
        /\ Chain(k, Hash[k] % sz, [l \in keys |-> Hash[l] % sz'],
                 [l \in keys |-> Cardinality({m \in keys : Before(l, m)})])

\* insert_sym and rehash.  Without memory for a larger table the chains just
\* grow longer.
insert_sym(k) ==
  /\ nelem' = nelem + 1
  /\ \/ /\ Chain(k, Hash[k] % sz, bucket, rank)
        /\ UNCHANGED <<sz, grew>>
     \/ /\ nelem + 1 > FULLTAB * sz
        /\ sz' = GROWTAB * sz
        /\ grew' = TRUE
        /\ Chain(k, Hash[k] % sz', [l \in keys |-> Hash[l] % sz'],
                 [l \in keys |-> Cardinality({m \in keys : Before(l, m)})])

\* (Mutant) The count keeps the deleted element.
UnchainNoCount(k) ==
  /\ bucket' = [l \in keys \ {k} |-> bucket[l]]
  /\ rank' = [l \in keys \ {k} |-> IF rank[l] > rank[k] THEN rank[l] - 1 ELSE rank[l]]
  /\ nelem' = nelem

\* removesym of a key that is there.
Unchain(k) ==
  /\ bucket' = [l \in keys \ {k} |-> bucket[l]]
  /\ rank' = [l \in keys \ {k} |-> IF rank[l] > rank[k] THEN rank[l] - 1 ELSE rank[l]]
  /\ nelem' = nelem - 1
-----------------------------------------------------------------------------
\* a[k] in an expression, awk_setvar of an element.
Refer(k) ==
  /\ out' = <<"refer", k, lookup(k)>>
  /\ IF lookup(k) THEN UNCHANGED <<table, grew>> ELSE insert_sym(k)
  /\ UNCHANGED <<loop, seen, again, kept, fault>>

\* k in a, awk_getvar of an element.
Ask(k) ==
  /\ out' = <<"in", k, lookup(k)>>
  /\ UNCHANGED <<table, walk, fault>>

\* delete a[k]
Delete(k) ==
  /\ out' = <<"delete", k, lookup(k)>>
  /\ IF lookup(k) THEN Unchain(k) ELSE UNCHANGED <<bucket, rank, nelem>>
  /\ kept' = kept \ {k}
  /\ loop' = IF lookup(k) /\ loop.ptr = k THEN [loop EXCEPT !.gone = TRUE] ELSE loop
  /\ UNCHANGED <<sz, seen, again, grew, fault>>

\* delete a, split into a, the next run: the table is freed, which stops the
\* program when the count is wrong, and a new one takes its place.
Clear ==
  /\ IF nelem = Cardinality(keys)
       THEN /\ sz' = Size /\ nelem' = 0
            /\ bucket' = [k \in {} |-> 0] /\ rank' = [k \in {} |-> 0]
            /\ out' = <<"clear", NIL, FALSE>>
            /\ kept' = {}
            /\ loop' = IF loop.on THEN [loop EXCEPT !.gone = TRUE] ELSE loop
            /\ UNCHANGED fault
       ELSE fault' = "count" /\ UNCHANGED <<table, out, kept, loop>>
  /\ UNCHANGED <<seen, again, grew>>
-----------------------------------------------------------------------------
(* for (k in a)                                                            *)

\* The iterator, with ipos p, gets to the cell of k and the body runs for it.
Visit(k, p, s, d) ==
  /\ loop' = [on |-> TRUE, ipos |-> p, ptr |-> k, gone |-> FALSE]
  /\ seen' = s \cup {k}
  /\ again' = (d \/ k \in s)
  /\ out' = <<"visit", k, TRUE>>

\* The iterator is at the end of the table.
Leave(s, d) ==
  /\ loop' = Idle
  /\ seen' = s /\ again' = d
  /\ out' = <<"end", NIL, FALSE>>

First(k, from) == k \in from /\ \A l \in from \ {k} : Before(k, l)

ForBegin ==
  /\ ~loop.on
  /\ kept' = keys /\ grew' = FALSE
  /\ \/ \E k \in keys : First(k, keys) /\ Visit(k, bucket[k], {}, FALSE)
     \/ keys = {} /\ Leave({}, FALSE)
  /\ UNCHANGED <<table, fault>>

\* (Mutant) When its chain ends the iterator goes to the next bucket only,
\* empty or not.
ForNextNoSkip ==
  LET chain == {l \in keys : bucket[l] = bucket[loop.ptr] /\ rank[l] > rank[loop.ptr]}
      later == {l \in keys : bucket[l] = loop.ipos + 1}
  IN  /\ loop.on /\ ~loop.gone
      /\ \/ \E k \in chain : First(k, chain) /\ Visit(k, loop.ipos, seen, again)
         \/ chain = {} /\ \E k \in later : First(k, later) /\ Visit(k, bucket[k], seen, again)
         \/ chain = {} /\ later = {} /\ Leave(seen, again)
      /\ UNCHANGED <<table, kept, grew, fault>>

\* (Mutant) When its chain ends the iterator starts from its own bucket.
ForNextSamePos ==
  LET chain == {l \in keys : bucket[l] = bucket[loop.ptr] /\ rank[l] > rank[loop.ptr]}
      later == {l \in keys : bucket[l] >= loop.ipos}
  IN  /\ loop.on /\ ~loop.gone
      /\ \/ \E k \in chain : First(k, chain) /\ Visit(k, loop.ipos, seen, again)
         \/ chain = {} /\ \E k \in later : First(k, later) /\ Visit(k, bucket[k], seen, again)
         \/ chain = {} /\ later = {} /\ Leave(seen, again)
      /\ UNCHANGED <<table, kept, grew, fault>>

\* operator++: the next cell of the chain, which leaves ipos alone, or the
\* first cell of the next chain after ipos.  A rehash moves the cells and not
\* ipos: from then on ipos need not be the bucket of the cell, and chains the
\* iterator has been through, the one it is in as well, can come again.
ForNext ==
  LET chain == {l \in keys : bucket[l] = bucket[loop.ptr] /\ rank[l] > rank[loop.ptr]}
      later == {l \in keys : bucket[l] > loop.ipos}
  IN  /\ loop.on /\ ~loop.gone
      /\ \/ \E k \in chain : First(k, chain) /\ Visit(k, loop.ipos, seen, again)
         \/ chain = {} /\ \E k \in later : First(k, later) /\ Visit(k, bucket[k], seen, again)
         \/ chain = {} /\ later = {} /\ Leave(seen, again)
      /\ UNCHANGED <<table, kept, grew, fault>>

\* operator++ on a cell, or in a table, that has been freed.
ForNextDangling ==
  /\ loop.on /\ loop.gone
  /\ fault' = "dangling"
  /\ UNCHANGED <<table, walk, out>>

\* break, next, exit or return: the iterator is not used again.
ForBreak ==
  /\ loop.on
  /\ loop' = Idle
  /\ UNCHANGED <<table, seen, again, kept, grew, fault, out>>

Use == \/ \E k \in Key : Refer(k) \/ Ask(k) \/ Delete(k)
       \/ Clear

Step == ForBegin \/ ForNext \/ ForNextDangling \/ ForBreak

Next == fault = "none" /\ (Use \/ Step)

Spec == Init /\ [][Next]_vars
=============================================================================
