-------------------------- MODULE AwkArrayProofs ---------------------------
(***************************************************************************)
(* The hash table is a set of subscripts, its count is right, and a loop   *)
(* visits what it should, for every set of subscripts, every hash function *)
(* and every initial size.                                                 *)
(***************************************************************************)
EXTENDS AwkArrayProps, FiniteSetTheorems, TLAPS

\* Every cell is in the chain its key hashes to, so lookup finds it.
Sound == \A k \in keys : bucket[k] = Hash[k] % sz

CountExact == nelem = Cardinality(keys)

\* The iterator points at a cell of the table, in the bucket it says.
OnCell ==
  /\ out[1] = "end" => ~loop.on
  /\ kept \subseteq keys
  /\ loop.on /\ ~loop.gone =>
       loop.ptr \in keys /\ (~grew => loop.ipos = bucket[loop.ptr])

\* What a key is when the iterator has gone past its place, whether it is
\* still there or not: putting it in again puts it behind the iterator.
Behind(k) ==
  \/ k = loop.ptr
  \/ Hash[k] % sz < bucket[loop.ptr]
  \/ Hash[k] % sz = bucket[loop.ptr] /\ (k \in keys => rank[k] < rank[loop.ptr])

\* While nothing was rehashed, the iterator is behind every element it still
\* owes a visit and past every one it has visited.
Progress ==
  loop.on /\ ~loop.gone /\ ~grew =>
    /\ \A k \in kept : k \in seen \/ Before(loop.ptr, k)
    /\ \A k \in seen : Behind(k)

Inv == TypeOK /\ Sound /\ CountExact /\ CountRight /\ OnCell /\ Progress /\ VisitsAll
-----------------------------------------------------------------------------
LEMMA ModRange == ASSUME NEW k \in Key, NEW n \in Nat \ {0} PROVE Hash[k] % n \in 0..n - 1
<1>1. Hash[k] \in Nat
  BY ArrayAssumption
<1> QED
  BY <1>1

LEMMA Found == ASSUME TypeOK, Sound, NEW k \in Key PROVE lookup(k) <=> k \in keys
BY DEF lookup, Sound

\* Before is a strict total order of the stored keys.
LEMMA BeforeOrder ==
  ASSUME TypeOK
  PROVE  /\ \A k \in keys : ~Before(k, k)
         /\ \A k, l \in keys : k # l => Before(k, l) \/ Before(l, k)
         /\ \A k, l, m \in keys : Before(k, l) /\ Before(l, m) => Before(k, m)
<1>1. /\ \A k \in keys : bucket[k] \in Int /\ rank[k] \in Int
      /\ \A k, l \in keys : k # l => rank[k] # rank[l]
  BY DEF TypeOK
<1> QED
  BY <1>1 DEF Before

\* The order a rehash leaves behind: no two cells get the same rank.
LEMMA ReverseRank ==
  ASSUME TypeOK
  PROVE  /\ \A k \in keys : Cardinality({m \in keys : Before(k, m)}) \in Nat
         /\ \A k, l \in keys : k # l =>
              Cardinality({m \in keys : Before(k, m)}) # Cardinality({m \in keys : Before(l, m)})
<1> DEFINE After(k) == {m \in keys : Before(k, m)}
<1>1. \A k \in keys : IsFiniteSet(After(k)) /\ Cardinality(After(k)) \in Nat
  <2> SUFFICES ASSUME NEW k \in keys
               PROVE IsFiniteSet(After(k)) /\ Cardinality(After(k)) \in Nat
    OBVIOUS
  <2>1. IsFiniteSet(keys) /\ After(k) \subseteq keys
    BY DEF TypeOK
  <2>2. IsFiniteSet(After(k))
    BY <2>1, FS_Subset
  <2> QED
    BY <2>2, FS_CardinalityType
<1>2. ASSUME NEW k \in keys, NEW l \in keys, Before(k, l)
      PROVE Cardinality(After(l)) # Cardinality(After(k))
  <2>1. After(l) \subseteq After(k) /\ l \in After(k) /\ l \notin After(l)
    BY <1>2, BeforeOrder
  <2>2. After(l) # After(k)
    BY <2>1
  <2>3. Cardinality(After(l)) < Cardinality(After(k))
    <3> HIDE DEF After
    <3> QED
      BY <1>1, <2>1, <2>2, FS_Subset
  <2>4. Cardinality(After(l)) \in Nat /\ Cardinality(After(k)) \in Nat
    BY <1>1
  <2> HIDE DEF After
  <2> QED
    BY <2>3, <2>4
<1>3. \A k, l \in keys : k # l => Before(k, l) \/ Before(l, k)
  BY BeforeOrder
<1> QED
  BY <1>1, <1>2, <1>3
-----------------------------------------------------------------------------
(* The type invariant in two parts: the table, and the loop over it.       *)
TableOK ==
  /\ sz \in Nat \ {0}
  /\ keys \subseteq Key /\ IsFiniteSet(keys)
  /\ bucket \in [keys -> 0..sz - 1]
  /\ rank \in [keys -> Nat]
  /\ \A k, l \in keys : k # l => rank[k] # rank[l]

WalkOK ==
  /\ loop \in [on : BOOLEAN, ipos : Nat, ptr : Key \cup {NIL}, gone : BOOLEAN]
  /\ seen \subseteq Key /\ again \in BOOLEAN /\ kept \subseteq Key /\ grew \in BOOLEAN

OutOK == out \in {"none", "refer", "in", "delete", "clear", "visit", "end"}
                   \X (Key \cup {NIL}) \X BOOLEAN

LEMMA TypeParts ==
  TypeOK <=> /\ TableOK /\ WalkOK /\ OutOK /\ nelem \in Nat
             /\ fault \in {"none", "dangling", "count"}
BY DEF TypeOK, TableOK, WalkOK, OutOK

\* The table after a cell has been put at the head of its chain.
LEMMA ChainTable ==
  ASSUME TableOK, NEW k \in Key, k \notin keys, sz' \in Nat \ {0}, NEW bkt, NEW ord,
         \A l \in keys : bkt[l] = Hash[l] % sz',
         \A l \in keys : ord[l] \in Nat,
         \A l, m \in keys : l # m => ord[l] # ord[m],
         Chain(k, Hash[k] % sz', bkt, ord)
  PROVE  TableOK' /\ Sound' /\ keys' = keys \cup {k}
<1>1. keys' = keys \cup {k}
  BY DEF Chain, keys
<1>2. \A l \in keys' : bucket'[l] = Hash[l] % sz'
  BY <1>1 DEF Chain
<1>3. \A l \in keys' : bucket'[l] \in 0..sz' - 1
  <2> TAKE l \in keys'
  <2>1. l \in Key
    BY <1>1 DEF TableOK
  <2> QED
    BY <1>2, <2>1, ModRange
<1>4. bucket' \in [keys' -> 0..sz' - 1]
  BY <1>1, <1>3 DEF Chain
<1>5. rank' = [l \in keys' |-> IF l = k THEN 0 ELSE ord[l] + 1]
  BY <1>1 DEF Chain
<1>6. \A l \in keys' : l = k \/ (l \in keys /\ ord[l] \in Nat)
  BY <1>1
<1>7. rank' \in [keys' -> Nat]
  BY <1>5, <1>6
<1>8. \A l, m \in keys' : l # m => rank'[l] # rank'[m]
  BY <1>5, <1>6
<1>9. IsFiniteSet(keys') /\ keys' \subseteq Key
  BY <1>1, FS_AddElement DEF TableOK
<1> QED
  BY <1>1, <1>2, <1>4, <1>7, <1>8, <1>9 DEF TableOK, Sound

LEMMA ChainCount ==
  ASSUME TableOK, CountExact, NEW k, k \notin keys, keys' = keys \cup {k}, nelem' = nelem + 1
  PROVE  CountExact' /\ nelem' \in Nat
<1>1. Cardinality(keys') = Cardinality(keys) + 1 /\ Cardinality(keys) \in Nat
  BY FS_AddElement, FS_CardinalityType DEF TableOK
<1> QED
  BY <1>1 DEF CountExact

\* The table after a cell has been taken out.
LEMMA UnchainTable ==
  ASSUME TableOK, Sound, CountExact, NEW k \in keys, Unchain(k), UNCHANGED sz
  PROVE  TableOK' /\ Sound' /\ CountExact' /\ nelem' \in Nat /\ keys' = keys \ {k}
<1>1. keys' = keys \ {k}
  BY DEF Unchain, keys
<1>2. bucket' \in [keys' -> 0..sz' - 1] /\ Sound'
  BY <1>1 DEF Unchain, TableOK, Sound
<1>3. rank' = [l \in keys' |-> IF rank[l] > rank[k] THEN rank[l] - 1 ELSE rank[l]]
  BY <1>1 DEF Unchain
<1>4. \A l \in keys' : rank[l] \in Nat /\ rank[l] # rank[k]
  BY <1>1 DEF TableOK
<1>5. rank[k] \in Nat
  BY DEF TableOK
<1>6. rank' \in [keys' -> Nat]
  BY <1>3, <1>4, <1>5
<1>7. \A l, m \in keys' : l # m => rank'[l] # rank'[m]
  <2>1. \A l, m \in keys' : l # m => rank[l] # rank[m]
    BY <1>1 DEF TableOK
  <2> QED
    BY <1>3, <1>4, <1>5, <2>1
<1>8. IsFiniteSet(keys') /\ Cardinality(keys') = Cardinality(keys) - 1
      /\ Cardinality(keys) \in Nat /\ Cardinality(keys') \in Nat
  <2>1. IsFiniteSet(keys)
    BY DEF TableOK
  <2>2. IsFiniteSet(keys')
    BY <1>1, <2>1, FS_RemoveElement
  <2> QED
    BY <1>1, <2>1, <2>2, FS_RemoveElement, FS_CardinalityType
<1>9. CountExact' /\ nelem' \in Nat
  BY <1>8 DEF CountExact, Unchain
<1> QED
  BY <1>1, <1>2, <1>6, <1>7, <1>8, <1>9 DEF TableOK
-----------------------------------------------------------------------------
(* The actions, one lemma each.                                            *)
LEMMA InitInv == Init => Inv
<1> SUFFICES ASSUME Init PROVE Inv
  OBVIOUS
<1>1. keys = {} /\ IsFiniteSet({}) /\ Cardinality({}) = 0
  BY FS_EmptySet DEF Init, keys
<1>2. TableOK
  BY <1>1, ArrayAssumption DEF Init, TableOK
<1>3. WalkOK /\ ~loop.on
  BY DEF Init, WalkOK, Idle
<1>4. OutOK
  BY DEF Init, OutOK
<1>5. nelem \in Nat /\ fault \in {"none", "dangling", "count"}
  BY DEF Init
<1>6. TypeOK
  BY <1>2, <1>3, <1>4, <1>5, TypeParts
<1>7. Sound /\ CountExact /\ CountRight
  BY <1>1 DEF Init, Sound, CountExact, CountRight
<1>8. OnCell /\ Progress /\ VisitsAll
  BY <1>1, <1>3 DEF Init, OnCell, Progress, VisitsAll
<1> QED
  BY <1>6, <1>7, <1>8 DEF Inv

\* Actions that leave the table and the loop alone.
LEMMA OutKeeps ==
  ASSUME Inv, UNCHANGED <<table, walk, fault>>, OutOK', out'[1] # "end"
  PROVE  Inv'
<1> USE DEF table, walk
<1>1. keys' = keys
  BY DEF keys
<1>2. TypeOK'
  <2>1. TableOK' /\ WalkOK' /\ nelem' \in Nat /\ fault' \in {"none", "dangling", "count"}
    BY <1>1, TypeParts DEF Inv, TableOK, WalkOK
  <2> QED
    BY <2>1, TypeParts DEF TypeOK, TableOK, WalkOK, OutOK
<1>3. Sound' /\ CountExact' /\ CountRight'
  BY <1>1 DEF Inv, Sound, CountExact, CountRight
<1>4. OnCell' /\ VisitsAll'
  BY <1>1 DEF Inv, OnCell, VisitsAll
<1>5. Progress'
  BY <1>1 DEF Inv, Progress, Behind, Before
<1> QED
  BY <1>2, <1>3, <1>4, <1>5 DEF Inv

LEMMA OutTyped ==
  ASSUME NEW o \in {"none", "refer", "in", "delete", "clear", "visit", "end"},
         NEW k \in Key \cup {NIL}, NEW b \in BOOLEAN, out' = <<o, k, b>>
  PROVE  OutOK' /\ out'[1] = o
BY DEF OutOK

LEMMA InsertKeeps ==
  ASSUME Inv, NEW k \in Key, k \notin keys, insert_sym(k), OutOK', out'[1] # "end",
         UNCHANGED <<loop, seen, again, kept, fault>>
  PROVE  Inv'
<1>1. TableOK /\ WalkOK /\ Sound /\ CountExact /\ OnCell /\ Progress /\ VisitsAll /\ CountRight
  BY TypeParts DEF Inv
<1>2. CASE Chain(k, Hash[k] % sz, bucket, rank) /\ UNCHANGED <<sz, grew>>
  <2>1. sz' \in Nat \ {0} /\ sz' = sz
    BY <1>1, <1>2 DEF TableOK
  <2>2. \A l \in keys : bucket[l] = Hash[l] % sz'
    BY <1>1, <2>1 DEF Sound
  <2>3. /\ \A l \in keys : rank[l] \in Nat
        /\ \A l, m \in keys : l # m => rank[l] # rank[m]
    BY <1>1 DEF TableOK
  <2>4. TableOK' /\ Sound' /\ keys' = keys \cup {k}
    BY <1>1, <1>2, <2>1, <2>2, <2>3, ChainTable
  <2>5. CountExact' /\ nelem' \in Nat
    BY <1>1, <2>4, ChainCount DEF insert_sym
  <2>6. WalkOK'
    BY <1>1, <1>2 DEF WalkOK
  <2>7. \A l \in keys : bucket'[l] = bucket[l] /\ rank'[l] = rank[l] + 1
    BY <1>2 DEF Chain
  <2>8. bucket'[k] = Hash[k] % sz /\ rank'[k] = 0
    BY <1>2 DEF Chain
  <2>9. OnCell' /\ VisitsAll'
    BY <1>1, <1>2, <2>4, <2>7 DEF OnCell, VisitsAll
  <2>10. Progress'
    <3> SUFFICES ASSUME loop.on, ~loop.gone, ~grew
                 PROVE  /\ \A l \in kept : l \in seen \/ Before(loop.ptr, l)'
                        /\ \A l \in seen : Behind(l)'
      BY <1>2 DEF Progress
    <3>1. loop.ptr \in keys /\ kept \subseteq keys
      BY <1>1 DEF OnCell
    <3>2. \A l \in keys : bucket[l] \in Int /\ rank[l] \in Int
      BY <1>1 DEF TableOK
    <3>3. \A l \in kept : l \in seen \/ Before(loop.ptr, l)
      BY <1>1 DEF Progress
    <3>4. \A l \in seen : Behind(l)
      BY <1>1 DEF Progress
    <3>5. ASSUME NEW l \in kept PROVE l \in seen \/ Before(loop.ptr, l)'
      BY <2>7, <3>1, <3>2, <3>3 DEF Before
    <3>6. ASSUME NEW l \in seen PROVE Behind(l)'
      <4>1. rank[loop.ptr] \in Nat
        BY <1>1, <3>1 DEF TableOK
      <4> QED
        BY <2>1, <2>4, <2>7, <2>8, <3>1, <3>2, <3>4, <4>1 DEF Behind
    <3> QED
      BY <3>5, <3>6
  <2>11. TypeOK' /\ CountRight'
    <3>1. fault' \in {"none", "dangling", "count"} /\ CountRight'
      BY <1>1, TypeParts DEF Inv, CountRight
    <3> QED
      BY <2>4, <2>5, <2>6, <3>1 DEF TypeOK, TableOK, WalkOK, OutOK
  <2> QED
    BY <2>4, <2>5, <2>9, <2>10, <2>11 DEF Inv
<1>3. CASE /\ sz' = GROWTAB * sz /\ grew'
           /\ Chain(k, Hash[k] % sz', [l \in keys |-> Hash[l] % sz'],
                    [l \in keys |-> Cardinality({m \in keys : Before(l, m)})])
  <2> DEFINE bkt == [l \in keys |-> Hash[l] % sz']
             ord == [l \in keys |-> Cardinality({m \in keys : Before(l, m)})]
  <2>1. sz' \in Nat \ {0}
    BY <1>1, <1>3 DEF TableOK, GROWTAB
  <2>2. \A l \in keys : bkt[l] = Hash[l] % sz'
    OBVIOUS
  <2>3. TypeOK
    BY DEF Inv
  <2>4. /\ \A l \in keys : ord[l] \in Nat
        /\ \A l, m \in keys : l # m => ord[l] # ord[m]
    BY <2>3, ReverseRank
  <2>5. Chain(k, Hash[k] % sz', bkt, ord)
    BY <1>3
  <2> HIDE DEF bkt, ord
  <2>6. TableOK' /\ Sound' /\ keys' = keys \cup {k}
    BY <1>1, <2>1, <2>2, <2>4, <2>5, ChainTable
  <2>7. CountExact' /\ nelem' \in Nat
    BY <1>1, <2>6, ChainCount DEF insert_sym
  <2>8. WalkOK'
    <3>1. grew' \in BOOLEAN
      BY DEF insert_sym, WalkOK, Inv, TypeOK
    <3> QED
      BY <1>1, <3>1 DEF WalkOK
  <2>9. OnCell' /\ Progress' /\ VisitsAll'
    BY <1>1, <1>3, <2>6 DEF OnCell, Progress, VisitsAll
  <2>10. TypeOK' /\ CountRight'
    <3>1. fault' \in {"none", "dangling", "count"} /\ CountRight'
      BY <1>1, TypeParts DEF Inv, CountRight
    <3> QED
      BY <2>6, <2>7, <2>8, <3>1 DEF TypeOK, TableOK, WalkOK, OutOK
  <2> QED
    BY <2>6, <2>7, <2>9, <2>10 DEF Inv
<1> QED
  BY <1>2, <1>3 DEF insert_sym

LEMMA ReferKeeps == ASSUME Inv, NEW k \in Key, Refer(k) PROVE Inv'
<1>1. OutOK' /\ out'[1] = "refer"
  <2>1. out' = <<"refer", k, lookup(k)>> /\ lookup(k) \in BOOLEAN
    BY DEF Refer, lookup
  <2> QED
    BY <2>1, OutTyped
<1>2. CASE lookup(k)
  BY <1>1, <1>2, OutKeeps DEF Refer, table, walk
<1>3. CASE ~lookup(k)
  <2>1. k \notin keys
    BY <1>3, Found DEF Inv
  <2> QED
    BY <1>1, <1>3, <2>1, InsertKeeps DEF Refer
<1> QED
  BY <1>2, <1>3

LEMMA AskKeeps == ASSUME Inv, NEW k \in Key, Ask(k) PROVE Inv'
<1>1. out' = <<"in", k, lookup(k)>> /\ lookup(k) \in BOOLEAN
  BY DEF Ask, lookup
<1> QED
  BY <1>1, OutTyped, OutKeeps DEF Ask

LEMMA DeleteKeeps == ASSUME Inv, NEW k \in Key, Delete(k) PROVE Inv'
<1>1. TableOK /\ WalkOK /\ Sound /\ CountExact /\ OnCell /\ Progress /\ VisitsAll /\ CountRight
  BY TypeParts DEF Inv
<1>2. OutOK' /\ out'[1] = "delete"
  <2>1. out' = <<"delete", k, lookup(k)>> /\ lookup(k) \in BOOLEAN
    BY DEF Delete, lookup
  <2> QED
    BY <2>1, OutTyped
<1>3. lookup(k) <=> k \in keys
  BY Found DEF Inv
<1>4. fault' \in {"none", "dangling", "count"} /\ CountRight' /\ nelem \in Nat
  BY <1>1, TypeParts DEF Inv, CountRight, Delete
<1>5. WalkOK'
  <2>1. loop' = loop \/ loop' = [loop EXCEPT !.gone = TRUE]
    BY DEF Delete
  <2>2. loop' \in [on : BOOLEAN, ipos : Nat, ptr : Key \cup {NIL}, gone : BOOLEAN]
    BY <1>1, <2>1 DEF WalkOK
  <2> QED
    BY <1>1, <2>2 DEF WalkOK, Delete
<1>6. UNCHANGED <<sz, seen, again, grew>> /\ kept' = kept \ {k}
  BY DEF Delete
<1>7. CASE k \notin keys
  <2>1. UNCHANGED <<table, loop>>
    BY <1>3, <1>7 DEF Delete, table
  <2>2. keys' = keys
    BY <2>1 DEF keys, table
  <2>3. TableOK' /\ Sound' /\ CountExact' /\ nelem' \in Nat
    BY <1>1, <1>4, <2>1, <2>2 DEF TableOK, Sound, CountExact, table
  <2>4. OnCell' /\ VisitsAll'
    BY <1>1, <1>2, <1>6, <2>1, <2>2 DEF OnCell, VisitsAll, table
  <2>5. Progress'
    BY <1>1, <1>6, <2>1, <2>2 DEF Progress, Behind, Before, table
  <2> QED
    BY <1>2, <1>4, <1>5, <2>3, <2>4, <2>5 DEF Inv, TypeOK, TableOK, WalkOK, OutOK
<1>8. CASE k \in keys
  <2>1. Unchain(k)
    BY <1>3, <1>8 DEF Delete
  <2>2. TableOK' /\ Sound' /\ CountExact' /\ nelem' \in Nat /\ keys' = keys \ {k}
    BY <1>1, <1>6, <1>8, <2>1, UnchainTable
  <2>3. loop' = IF loop.ptr = k THEN [loop EXCEPT !.gone = TRUE] ELSE loop
    BY <1>3, <1>8 DEF Delete
  <2>4. \A l \in keys \ {k} :
          /\ bucket'[l] = bucket[l]
          /\ rank'[l] = IF rank[l] > rank[k] THEN rank[l] - 1 ELSE rank[l]
          /\ bucket[l] \in Int /\ rank[l] \in Nat /\ rank[l] # rank[k]
    BY <1>1, <1>8, <2>1 DEF Unchain, TableOK
  <2>5. rank[k] \in Nat
    BY <1>1, <1>8 DEF TableOK
  <2>6. CASE loop.ptr = k
    <3>1. loop'.gone /\ loop'.on = loop.on
      BY <1>1, <2>3, <2>6 DEF WalkOK
    <3>2. OnCell' /\ Progress' /\ VisitsAll'
      BY <1>1, <1>2, <1>6, <2>2, <3>1 DEF OnCell, Progress, VisitsAll
    <3> QED
      BY <1>2, <1>4, <1>5, <2>2, <3>2 DEF Inv, TypeOK, TableOK, WalkOK, OutOK
  <2>7. CASE loop.ptr # k
    <3>1. loop' = loop
      BY <2>3, <2>7
    <3>2. loop.on /\ ~loop.gone => loop.ptr \in keys \ {k}
      BY <1>1, <2>7 DEF OnCell
    <3>3. OnCell' /\ VisitsAll'
      BY <1>1, <1>2, <1>6, <2>2, <2>4, <3>1, <3>2 DEF OnCell, VisitsAll
    <3>4. Progress'
      <4> SUFFICES ASSUME loop.on, ~loop.gone, ~grew
                   PROVE  /\ \A l \in kept' : l \in seen \/ Before(loop.ptr, l)'
                          /\ \A l \in seen : Behind(l)'
        BY <1>6, <3>1 DEF Progress
      <4>1. loop.ptr \in keys \ {k} /\ kept' \subseteq keys \ {k}
        BY <1>1, <1>6, <3>2 DEF OnCell
      <4>2. /\ \A l \in kept : l \in seen \/ Before(loop.ptr, l)
            /\ \A l \in seen : Behind(l)
        BY <1>1 DEF Progress
      <4>3. ASSUME NEW l \in kept' PROVE l \in seen \/ Before(loop.ptr, l)'
        <5>1. l \in seen \/ Before(loop.ptr, l)
          BY <1>6, <4>2
        <5> QED
          BY <2>4, <2>5, <3>1, <4>1, <5>1 DEF Before
      <4>4. ASSUME NEW l \in seen PROVE Behind(l)'
        <5>1. Behind(l)
          BY <4>2
        <5>2. CASE l \in keys \ {k}
          BY <1>6, <2>2, <2>4, <2>5, <3>1, <4>1, <5>1, <5>2 DEF Behind
        <5>3. CASE l \notin keys \ {k}
          BY <1>6, <2>2, <2>4, <3>1, <4>1, <5>1, <5>3 DEF Behind
        <5> QED
          BY <5>2, <5>3
      <4> QED
        BY <4>3, <4>4
    <3> QED
      BY <1>2, <1>4, <1>5, <2>2, <3>3, <3>4 DEF Inv, TypeOK, TableOK, WalkOK, OutOK
  <2> QED
    BY <2>6, <2>7
<1> QED
  BY <1>7, <1>8

LEMMA ClearKeeps == ASSUME Inv, Clear PROVE Inv'
<1>1. TableOK /\ WalkOK /\ CountExact /\ OnCell /\ VisitsAll /\ CountRight
  BY TypeParts DEF Inv
<1>2. /\ sz' = Size /\ nelem' = 0
      /\ bucket' = [k \in {} |-> 0] /\ rank' = [k \in {} |-> 0]
      /\ out' = <<"clear", NIL, FALSE>>
      /\ kept' = {}
      /\ loop' = IF loop.on THEN [loop EXCEPT !.gone = TRUE] ELSE loop
      /\ UNCHANGED <<fault, seen, again, grew>>
  BY <1>1 DEF Clear, CountExact
<1>3. keys' = {} /\ IsFiniteSet({}) /\ Cardinality({}) = 0
  BY <1>2, FS_EmptySet DEF keys
<1>4. TableOK' /\ Sound' /\ CountExact' /\ nelem' \in Nat
  BY <1>2, <1>3, ArrayAssumption DEF TableOK, Sound, CountExact
<1>5. WalkOK' /\ (loop'.on => loop'.gone)
  <2>1. loop' \in [on : BOOLEAN, ipos : Nat, ptr : Key \cup {NIL}, gone : BOOLEAN]
    BY <1>1, <1>2 DEF WalkOK
  <2>2. loop'.on => loop'.gone
    BY <1>1, <1>2 DEF WalkOK
  <2> QED
    BY <1>1, <1>2, <2>1, <2>2 DEF WalkOK
<1>6. OutOK' /\ out'[1] = "clear"
  BY <1>2, OutTyped
<1>7. fault' \in {"none", "dangling", "count"} /\ CountRight'
  BY <1>1, <1>2, TypeParts DEF Inv, CountRight
<1>8. OnCell' /\ Progress' /\ VisitsAll'
  BY <1>1, <1>2, <1>5, <1>6 DEF OnCell, Progress, VisitsAll
<1> QED
  BY <1>4, <1>5, <1>6, <1>7, <1>8 DEF Inv, TypeOK, TableOK, WalkOK, OutOK

\* The loop is off, or its iterator is not to be used again.
LEMMA LoopOffKeeps ==
  ASSUME Inv, UNCHANGED <<table, seen, again, kept, grew, out, fault>>, loop' = Idle
  PROVE  Inv'
<1> USE DEF table
<1>1. keys' = keys /\ TypeOK
  BY DEF keys, Inv
<1>2. TypeOK'
  BY <1>1 DEF TypeOK, Idle
<1>3. Sound' /\ CountExact' /\ CountRight' /\ VisitsAll'
  BY <1>1 DEF Inv, Sound, CountExact, CountRight, VisitsAll
<1>4. OnCell' /\ Progress'
  BY <1>1 DEF Inv, OnCell, Progress, Idle
<1> QED
  BY <1>2, <1>3, <1>4 DEF Inv

LEMMA DanglingKeeps == ASSUME Inv, ForNextDangling PROVE Inv'
<1> USE DEF table, walk
<1>1. keys' = keys /\ TypeOK /\ fault' = "dangling" /\ UNCHANGED <<table, walk, out>>
  BY DEF keys, Inv, ForNextDangling
<1>2. TypeOK' /\ CountRight'
  BY <1>1 DEF TypeOK, CountRight
<1>3. Sound' /\ CountExact' /\ OnCell' /\ VisitsAll'
  BY <1>1 DEF Inv, Sound, CountExact, OnCell, VisitsAll
<1>4. Progress'
  BY <1>1 DEF Inv, Progress, Behind, Before
<1> QED
  BY <1>2, <1>3, <1>4 DEF Inv

\* What a visit of k owes: the elements not visited yet come after k, those
\* in s are behind it.
LEMMA VisitKeeps ==
  ASSUME Inv, NEW k \in keys, NEW p \in Nat, NEW s \in SUBSET Key, NEW d \in BOOLEAN,
         Visit(k, p, s, d),
         UNCHANGED <<table, fault>>, kept' \subseteq keys, grew' \in BOOLEAN,
         ~grew' => /\ p = bucket[k] /\ ~d /\ k \notin s
                   /\ \A l \in kept' : l = k \/ l \in s \/ Before(k, l)
                   /\ \A l \in s : \/ Hash[l] % sz < bucket[k]
                                   \/ Hash[l] % sz = bucket[k] /\ (l \in keys => rank[l] < rank[k])
  PROVE  Inv'
<1> USE DEF table
<1>1. keys' = keys /\ TableOK /\ k \in Key /\ UNCHANGED <<sz, bucket, rank, nelem, fault>>
  BY TypeParts DEF keys, Inv, TableOK
<1>2. loop' = [on |-> TRUE, ipos |-> p, ptr |-> k, gone |-> FALSE]
  BY <1>1 DEF Visit, TableOK
<1>3. seen' = s \cup {k} /\ again' = (d \/ k \in s)
  BY DEF Visit
<1>4. out' = <<"visit", k, TRUE>>
  BY DEF Visit
<1>5. OutOK' /\ out'[1] = "visit"
  BY <1>1, <1>4, OutTyped
<1>6. loop' \in [on : BOOLEAN, ipos : Nat, ptr : Key \cup {NIL}, gone : BOOLEAN]
  BY <1>1, <1>2
<1>7. kept' \subseteq Key
  BY <1>1 DEF TableOK
<1>8. WalkOK'
  BY <1>1, <1>3, <1>6, <1>7 DEF WalkOK
<1>9. TypeOK'
  <2>1. TableOK' /\ nelem' \in Nat /\ fault' \in {"none", "dangling", "count"}
    BY <1>1, TypeParts DEF Inv, TableOK
  <2> QED
    BY <1>5, <1>8, <2>1 DEF TypeOK, TableOK, WalkOK, OutOK
<1>10. Sound' /\ CountExact' /\ CountRight'
  BY <1>1 DEF Inv, Sound, CountExact, CountRight
<1>11. OnCell'
  BY <1>1, <1>2, <1>5 DEF OnCell
<1>12. Progress'
  <2> SUFFICES ASSUME ~grew'
               PROVE  /\ \A l \in kept' : l \in seen' \/ Before(loop.ptr, l)'
                      /\ \A l \in seen' : Behind(l)'
    BY DEF Progress
  <2>1. loop'.ptr = k
    BY <1>2
  <2>2. ASSUME NEW l \in kept' PROVE l \in seen' \/ Before(loop.ptr, l)'
    BY <1>1, <1>3, <2>1 DEF Before
  <2>3. ASSUME NEW l \in seen' PROVE Behind(l)'
    BY <1>1, <1>3, <2>1 DEF Behind
  <2> QED
    BY <2>2, <2>3
<1>13. VisitsAll'
  BY <1>3, <1>5 DEF VisitsAll
<1> QED
  BY <1>9, <1>10, <1>11, <1>12, <1>13 DEF Inv

LEMMA LeaveKeeps ==
  ASSUME Inv, NEW s \in SUBSET Key, NEW d \in BOOLEAN, Leave(s, d),
         UNCHANGED <<table, fault>>, kept' \subseteq keys, grew' \in BOOLEAN,
         ~grew' => ~d /\ kept' \subseteq s
  PROVE  Inv'
<1> USE DEF table
<1>1. keys' = keys /\ TableOK /\ UNCHANGED <<sz, bucket, rank, nelem, fault>>
  BY TypeParts DEF keys, Inv
<1>2. loop' = Idle /\ seen' = s /\ again' = d /\ out' = <<"end", NIL, FALSE>>
  BY DEF Leave
<1>3. OutOK' /\ out'[1] = "end"
  BY <1>2, OutTyped
<1>4. WalkOK'
  BY <1>1, <1>2 DEF WalkOK, Idle, TableOK
<1>5. TypeOK'
  <2>1. TableOK' /\ nelem' \in Nat /\ fault' \in {"none", "dangling", "count"}
    BY <1>1, TypeParts DEF Inv, TableOK
  <2> QED
    BY <1>3, <1>4, <2>1 DEF TypeOK, TableOK, WalkOK, OutOK
<1>6. Sound' /\ CountExact' /\ CountRight'
  BY <1>1 DEF Inv, Sound, CountExact, CountRight
<1>7. OnCell' /\ Progress' /\ VisitsAll'
  BY <1>1, <1>2 DEF OnCell, Progress, VisitsAll, Idle
<1> QED
  BY <1>5, <1>6, <1>7 DEF Inv

LEMMA BeginKeeps == ASSUME Inv, ForBegin PROVE Inv'
<1>1. UNCHANGED <<table, fault>> /\ kept' = keys /\ grew' = FALSE
  BY DEF ForBegin
<1>2. ASSUME NEW k \in keys, First(k, keys), Visit(k, bucket[k], {}, FALSE) PROVE Inv'
  <2>1. \A l \in kept' : l = k \/ Before(k, l)
    BY <1>1, <1>2 DEF First
  <2>2. bucket[k] \in Nat
    BY DEF Inv, TypeOK
  <2> QED
    BY <1>1, <1>2, <2>1, <2>2, VisitKeeps
<1>3. CASE keys = {} /\ Leave({}, FALSE)
  BY <1>1, <1>3, LeaveKeeps
<1> QED
  BY <1>2, <1>3 DEF ForBegin

LEMMA NextKeeps == ASSUME Inv, ForNext PROVE Inv'
<1> DEFINE chain == {l \in keys : bucket[l] = bucket[loop.ptr] /\ rank[l] > rank[loop.ptr]}
           later == {l \in keys : bucket[l] > loop.ipos}
<1>1. /\ UNCHANGED <<table, fault, kept, grew>>
      /\ loop.on /\ ~loop.gone
  BY DEF ForNext
<1>2. /\ loop.ptr \in keys /\ kept' \subseteq keys
      /\ ~grew => loop.ipos = bucket[loop.ptr]
      /\ ~grew => ~again
  BY <1>1 DEF Inv, OnCell, VisitsAll
<1>3. \A l \in keys : bucket[l] \in Int /\ rank[l] \in Int /\ bucket[l] = Hash[l] % sz
  BY DEF Inv, TypeOK, Sound
<1>4. ~grew => /\ \A l \in kept' : l \in seen \/ Before(loop.ptr, l)
               /\ \A l \in seen : Behind(l)
  BY <1>1 DEF Inv, Progress
<1>5. seen \in SUBSET Key /\ again \in BOOLEAN /\ grew' \in BOOLEAN
  BY <1>1 DEF Inv, TypeOK
<1>6. \A l \in Key : Hash[l] % sz \in Int
  <2>1. sz \in Nat \ {0}
    BY DEF Inv, TypeOK
  <2> TAKE l \in Key
  <2>2. Hash[l] % sz \in 0..sz - 1
    BY <2>1, ModRange
  <2> QED
    BY <2>1, <2>2
<1>11. loop.ipos \in Nat /\ \A l \in keys : bucket[l] \in Nat
  BY <1>3 DEF Inv, TypeOK
<1>7. ASSUME NEW k \in keys, NEW p \in Nat, Before(loop.ptr, k), Visit(k, p, seen, again),
             ~grew => p = bucket[k],
             ~grew => \A l \in keys : Before(loop.ptr, l) => l = k \/ Before(k, l)
      PROVE  Inv'
  <2>1. ASSUME ~grew
        PROVE  /\ ~again /\ k \notin seen
               /\ \A l \in kept' : l = k \/ l \in seen \/ Before(k, l)
    <3>1. k \notin seen
      BY <1>2, <1>3, <1>4, <1>7, <2>1 DEF Behind, Before
    <3> QED
      BY <1>2, <1>4, <1>7, <2>1, <3>1
  <2>2. ASSUME ~grew, NEW l \in seen
        PROVE  \/ Hash[l] % sz < bucket[k]
               \/ Hash[l] % sz = bucket[k] /\ (l \in keys => rank[l] < rank[k])
    <3>1. Behind(l) /\ l \in Key
      BY <1>4, <1>5, <2>2
    <3> QED
      BY <1>2, <1>3, <1>6, <1>7, <3>1 DEF Behind, Before
  <2> QED
    BY <1>1, <1>2, <1>5, <1>7, <2>1, <2>2, VisitKeeps
<1>8. ASSUME NEW k \in chain, First(k, chain), Visit(k, loop.ipos, seen, again) PROVE Inv'
  <2>1. Before(loop.ptr, k)
    BY <1>8 DEF Before
  <2>2. \A l \in keys : Before(loop.ptr, l) => l = k \/ Before(k, l)
    BY <1>2, <1>3, <1>8 DEF Before, First
  <2>3. ~grew => loop.ipos = bucket[k]
    BY <1>2, <1>8
  <2>4. k \in keys
    BY <1>8
  <2> HIDE DEF chain
  <2> QED
    BY <1>7, <1>8, <1>11, <2>1, <2>2, <2>3, <2>4
<1>9. ASSUME chain = {}, NEW k \in later, First(k, later), Visit(k, bucket[k], seen, again) PROVE Inv'
  <2>1. CASE ~grew
    <3>1. Before(loop.ptr, k)
      BY <1>2, <1>3, <1>9, <2>1 DEF Before
    <3>2. \A l \in keys : Before(loop.ptr, l) => l \in later
      BY <1>2, <1>3, <1>9, <2>1 DEF Before
    <3>3. \A l \in keys : Before(loop.ptr, l) => l = k \/ Before(k, l)
      BY <1>9, <3>2 DEF First
    <3> QED
      BY <1>7, <1>9, <1>11, <3>1, <3>3
  <2>2. CASE grew
    BY <1>1, <1>2, <1>5, <1>9, <1>11, <2>2, VisitKeeps
  <2> QED
    BY <2>1, <2>2
<1>10. ASSUME chain = {}, later = {}, Leave(seen, again) PROVE Inv'
  <2>1. ~grew => kept' \subseteq seen
    BY <1>2, <1>3, <1>4, <1>10 DEF Before
  <2> QED
    BY <1>1, <1>2, <1>5, <1>10, <2>1, LeaveKeeps
<1> QED
  BY <1>8, <1>9, <1>10 DEF ForNext
-----------------------------------------------------------------------------
LEMMA Inductive == Inv /\ [Next]_vars => Inv'
<1> SUFFICES ASSUME Inv, [Next]_vars PROVE Inv'
  OBVIOUS
<1>1. CASE UNCHANGED vars
  <2>1. UNCHANGED <<table, walk, fault, out>>
    BY <1>1 DEF vars
  <2>2. keys' = keys
    BY <2>1 DEF keys, table
  <2>3. TypeOK' /\ Sound' /\ CountExact' /\ CountRight' /\ OnCell' /\ VisitsAll'
    BY <2>1, <2>2 DEF Inv, TypeOK, Sound, CountExact, CountRight, OnCell, VisitsAll, table, walk
  <2>4. Progress'
    BY <2>1, <2>2 DEF Inv, Progress, Behind, Before, table, walk
  <2> QED
    BY <2>3, <2>4 DEF Inv
<1>2. ASSUME NEW k \in Key, Refer(k) PROVE Inv'
  BY <1>2, ReferKeeps
<1>3. ASSUME NEW k \in Key, Ask(k) PROVE Inv'
  BY <1>3, AskKeeps
<1>4. ASSUME NEW k \in Key, Delete(k) PROVE Inv'
  BY <1>4, DeleteKeeps
<1>5. CASE Clear
  BY <1>5, ClearKeeps
<1>6. CASE ForBegin
  BY <1>6, BeginKeeps
<1>7. CASE ForNext
  BY <1>7, NextKeeps
<1>8. CASE ForNextDangling
  BY <1>8, DanglingKeeps
<1>9. CASE ForBreak
  BY <1>9, LoopOffKeeps DEF ForBreak
<1> QED
  BY <1>1, <1>2, <1>3, <1>4, <1>5, <1>6, <1>7, <1>8, <1>9 DEF Next, Use, Step

LEMMA Invariant == Spec => []Inv
<1>1. Init => Inv
  BY InitInv
<1>2. Inv /\ [Next]_vars => Inv'
  BY Inductive
<1> QED
  BY <1>1, <1>2, PTL DEF Spec

\* Every stored key has a bucket of the table and a rank of its own.
THEOREM ArrayTypeOK == Spec => []TypeOK
<1>1. Inv => TypeOK
  BY DEF Inv
<1> QED
  BY <1>1, Invariant, PTL

\* ~Array never finds a count that differs from the cells it frees.
THEOREM ArrayCountRight == Spec => []CountRight
<1>1. Inv => CountRight
  BY DEF Inv
<1> QED
  BY <1>1, Invariant, PTL

\* for (k in a) visits what stays in the array once each, unless the table is
\* rehashed under the iterator.
THEOREM ArrayVisitsAll == Spec => []VisitsAll
<1>1. Inv => VisitsAll
  BY DEF Inv
<1> QED
  BY <1>1, Invariant, PTL

-----------------------------------------------------------------------------
\* Every step of the table is a step of the set of subscripts, or none.
LEMMA StepRefines == Inv /\ Inv' /\ [Next]_vars => [View!Next]_(View!vars)
<1> SUFFICES ASSUME Inv, Inv', [Next]_vars PROVE [View!Next]_(View!vars)
  OBVIOUS
<1> USE DEF View!vars
<1>1. CASE UNCHANGED vars
  BY <1>1 DEF vars, table, keys
<1>2. ASSUME NEW k \in Key, Refer(k) PROVE View!Next
  <2>1. lookup(k) = (k \in keys)
    BY Found DEF Inv, lookup
  <2>2. keys' = keys \cup {k}
    <3>1. CASE k \in keys
      BY <1>2, <2>1, <3>1 DEF Refer, table, keys
    <3>2. CASE k \notin keys
      BY <1>2, <2>1, <3>2 DEF Refer, insert_sym, Chain, keys
    <3> QED
      BY <3>1, <3>2
  <2>3. View!Refer(k)
    BY <1>2, <2>1, <2>2 DEF Refer, View!Refer
  <2> QED
    BY <2>3 DEF View!Next
<1>3. ASSUME NEW k \in Key, Ask(k) PROVE View!Next
  <2>1. lookup(k) = (k \in keys)
    BY Found DEF Inv, lookup
  <2>2. View!Ask(k)
    BY <1>3, <2>1 DEF Ask, View!Ask, table, keys
  <2> QED
    BY <2>2 DEF View!Next
<1>4. ASSUME NEW k \in Key, Delete(k) PROVE View!Next
  <2>1. lookup(k) = (k \in keys)
    BY Found DEF Inv, lookup
  <2>2. keys' = keys \ {k}
    BY <1>4, <2>1 DEF Delete, Unchain, keys
  <2>3. View!Delete(k)
    BY <1>4, <2>1, <2>2 DEF Delete, View!Delete
  <2> QED
    BY <2>3 DEF View!Next
<1>5. CASE Clear
  <2>1. keys' = {} /\ out' = <<"clear", NIL, FALSE>>
    BY <1>5 DEF Clear, Inv, CountExact, keys
  <2> QED
    BY <2>1 DEF View!Next, View!Clear
<1>6. ASSUME NEW k \in keys, NEW p, NEW s, NEW d, Visit(k, p, s, d), UNCHANGED table PROVE View!Next
  <2>1. keys' = keys /\ k \in Key
    BY <1>6 DEF table, keys, Inv, TypeOK
  <2>2. View!Visit(k)
    BY <1>6, <2>1 DEF Visit, View!Visit
  <2> QED
    BY <2>1, <2>2 DEF View!Next
<1>7. ASSUME NEW s, NEW d, Leave(s, d), UNCHANGED table PROVE View!Next
  <2>1. View!LoopEnd
    BY <1>7 DEF Leave, View!LoopEnd, table, keys
  <2> QED
    BY <2>1 DEF View!Next
<1>8. CASE ForBegin
  BY <1>6, <1>7, <1>8 DEF ForBegin
<1>9. CASE ForNext
  BY <1>6, <1>7, <1>9 DEF ForNext
<1>10. CASE ForNextDangling
  BY <1>10 DEF ForNextDangling, table, keys
<1>11. CASE ForBreak
  BY <1>11 DEF ForBreak, table, keys
<1> QED
  BY <1>1, <1>2, <1>3, <1>4, <1>5, <1>8, <1>9, <1>10, <1>11 DEF Next, Use, Step

\* An array is a set of subscripts, whatever the hash function and however
\* often the table grows or fails to.
THEOREM ArrayImplementsKeySet == Spec => ImplementsKeySet
<1>1. Init => View!Init
  BY DEF Init, View!Init, keys
<1>2. Inv /\ Inv' /\ [Next]_vars => [View!Next]_(View!vars)
  BY StepRefines
<1> QED
  BY <1>1, <1>2, Invariant, PTL DEF Spec, ImplementsKeySet, View!Spec
=============================================================================
