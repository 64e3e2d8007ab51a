--------------------------- MODULE EzHashMapProofs ---------------------------
(***************************************************************************)
(* What EzHashMap guarantees for every set of keys and values, every hash  *)
(* function and every bound, whatever the client calls; and, in the second *)
(* half, that the hash map of a careful client implements the dictionary   *)
(* of EzDict.                                                              *)
(***************************************************************************)
EXTENDS EzHashMap, EzLemmas

-----------------------------------------------------------------------------
\* Probing.

\* The home of a key is a slot, and the distances from it to the slots of the
\* table are naturals that tell the slots apart.
LEMMA DistanceFacts ==
  ASSUME NEW k \in Keys, NEW n \in Nat \ {0}, NEW i \in 0 .. n - 1, NEW j \in 0 .. n - 1
  PROVE  /\ Distance(k, i, n) \in Nat
         /\ Distance(k, i, n) = Distance(k, j, n) => i = j
<1>1. Hash[k] \in Nat
  BY HashAssumption
<1>2. Home(k, n) \in 0 .. n - 1
  BY <1>1 DEF Home
<1>3. QED
  BY <1>2 DEF Distance

\* A loop that has somewhere to stop stops at the nearest such slot.
LEMMA FirstOfNearest ==
  ASSUME NEW k \in Keys, NEW n \in Nat \ {0},
         NEW stops \in SUBSET (0 .. n - 1), stops # {}
  PROVE  /\ FirstOf(stops, k, n) \in stops
         /\ \A j \in stops : Distance(k, FirstOf(stops, k, n), n) <= Distance(k, j, n)
<1> DEFINE D == {Distance(k, i, n) : i \in stops}
<1>1. \A i \in stops : Distance(k, i, n) \in Nat
  BY DistanceFacts
<1>2. D \subseteq Nat /\ D # {}
  BY <1>1
<1>3. PICK d \in D : \A c \in D : d <= c
  <2> HIDE DEF D
  <2> QED
    BY <1>2, LeastNatural
<1>4. PICK i \in stops : d = Distance(k, i, n)
  BY <1>3
<1>5. \A j \in stops : Distance(k, i, n) <= Distance(k, j, n)
  BY <1>3, <1>4
<1>6. QED
  BY <1>5 DEF FirstOf

-----------------------------------------------------------------------------
\* Tables.

\* Slots that hold a pair are neither unused nor tombstones.
LEMMA PairIsLive ==
  ASSUME NEW k \in Keys, NEW v \in Values
  PROVE  /\ [key |-> k, value |-> v] \in Slots
         /\ IsLive([key |-> k, value |-> v])
BY HashAssumption DEF Slots, Pairs, IsLive

\* The others hold a pair.
LEMMA LiveIsPair ==
  ASSUME NEW x \in Slots, IsLive(x)
  PROVE  x.key \in Keys /\ x.value \in Values /\ x = [key |-> x.key, value |-> x.value]
BY DEF Slots, Pairs, IsLive

\* The slots of a table of n slots are finitely many, and each is in use,
\* unused or a tombstone.
LEMMA TableFacts ==
  ASSUME NEW n \in Nat, NEW e \in [0 .. n - 1 -> Slots]
  PROVE  /\ IsFiniteSet(LiveSlots(e)) /\ IsFiniteSet(TombSlots(e))
         /\ Cardinality(LiveSlots(e)) \in Nat
         /\ Cardinality(TombSlots(e)) \in Nat
         /\ Cardinality(DOMAIN e) = n
         /\ EmptySlots(e) = {} => n <= Cardinality(LiveSlots(e)) + Cardinality(TombSlots(e))
<1>1. DOMAIN e = 0 .. n - 1
  OBVIOUS
<1>2. IsFiniteSet(0 .. n - 1) /\ Cardinality(0 .. n - 1) = n
  BY FS_Interval
<1>3. LiveSlots(e) \in SUBSET (0 .. n - 1) /\ TombSlots(e) \in SUBSET (0 .. n - 1)
  BY <1>1 DEF LiveSlots, TombSlots
<1>4. IsFiniteSet(LiveSlots(e)) /\ IsFiniteSet(TombSlots(e))
  BY <1>2, <1>3, FS_Subset
<1>5. Cardinality(LiveSlots(e)) \in Nat /\ Cardinality(TombSlots(e)) \in Nat
  BY <1>4, FS_CardinalityType
<1>6. ASSUME EmptySlots(e) = {}
      PROVE  n <= Cardinality(LiveSlots(e)) + Cardinality(TombSlots(e))
  <2>1. 0 .. n - 1 = LiveSlots(e) \cup TombSlots(e)
    BY <1>1, <1>3, <1>6 DEF LiveSlots, TombSlots, EmptySlots, IsLive
  <2>2. n = Cardinality(LiveSlots(e)) + Cardinality(TombSlots(e))
            - Cardinality(LiveSlots(e) \cap TombSlots(e))
    BY <1>2, <1>4, <2>1, FS_Union
  <2>3. Cardinality(LiveSlots(e) \cap TombSlots(e)) \in Nat
    BY <1>4, FS_Intersection, FS_CardinalityType
  <2>4. QED
    BY <1>5, <2>2, <2>3
<1>7. QED
  BY <1>1, <1>2, <1>4, <1>5, <1>6

\* A new table has only unused slots.
LEMMA NewTableFacts ==
  ASSUME NEW n \in Nat, NEW e, e = [i \in 0 .. n - 1 |-> Empty]
  PROVE  /\ e \in [0 .. n - 1 -> Slots]
         /\ LiveSlots(e) = {} /\ TombSlots(e) = {} /\ EmptySlots(e) = 0 .. n - 1
BY HashAssumption DEF Slots, LiveSlots, TombSlots, EmptySlots, IsLive

\* A table without slots is the null table.
LEMMA NullTable ==
  ASSUME NEW n \in Nat, NEW e \in [0 .. n - 1 -> Slots]
  PROVE  e = NoTable <=> n = 0
<1>1. CASE n = 0
  <2>1. DOMAIN e = {}
    BY <1>1
  <2>2. e = [i \in {} |-> Empty]
    BY <1>1, <2>1
  <2>3. QED
    BY <1>1, <2>2 DEF NoTable
<1>2. CASE n # 0
  <2>1. 0 \in DOMAIN e
    BY <1>2
  <2>2. QED
    BY <1>2, <2>1 DEF NoTable
<1>3. QED
  BY <1>1, <1>2

\* Putting a pair into one slot.
LEMMA StoreInSlot ==
  ASSUME NEW n \in Nat, NEW e \in [0 .. n - 1 -> Slots], NEW s \in 0 .. n - 1,
         NEW f \in [0 .. n - 1 -> Slots], IsLive(f[s]),
         \A i \in 0 .. n - 1 : i # s => f[i] = e[i]
  PROVE  /\ LiveSlots(f) = LiveSlots(e) \cup {s}
         /\ TombSlots(f) = TombSlots(e) \ {s}
         /\ EmptySlots(f) = EmptySlots(e) \ {s}
<1>1. DOMAIN f = 0 .. n - 1 /\ DOMAIN e = 0 .. n - 1
  OBVIOUS
<1>2. QED
  BY <1>1 DEF LiveSlots, TombSlots, EmptySlots, IsLive

\* The cardinalities after storing in slot s.
LEMMA StoreCounts ==
  ASSUME NEW n \in Nat, NEW e \in [0 .. n - 1 -> Slots], NEW s \in 0 .. n - 1,
         NEW f \in [0 .. n - 1 -> Slots],
         LiveSlots(f) = LiveSlots(e) \cup {s},
         TombSlots(f) = TombSlots(e) \ {s}
  PROVE  /\ Cardinality(LiveSlots(f)) = IF IsLive(e[s]) THEN Cardinality(LiveSlots(e))
                                                      ELSE Cardinality(LiveSlots(e)) + 1
         /\ Cardinality(TombSlots(f)) <= Cardinality(TombSlots(e))
<1>1. IsFiniteSet(LiveSlots(e)) /\ IsFiniteSet(TombSlots(e))
  BY TableFacts
<1>2. s \in LiveSlots(e) <=> IsLive(e[s])
  BY DEF LiveSlots
<1>3. Cardinality(LiveSlots(f)) = IF s \in LiveSlots(e) THEN Cardinality(LiveSlots(e))
                                                      ELSE Cardinality(LiveSlots(e)) + 1
  BY <1>1, FS_AddElement
<1>4. TombSlots(f) \in SUBSET TombSlots(e)
  OBVIOUS
<1>5. Cardinality(TombSlots(f)) <= Cardinality(TombSlots(e))
  BY <1>1, <1>4, FS_Subset
<1>6. QED
  BY <1>2, <1>3, <1>5

-----------------------------------------------------------------------------
\* The inductive invariant.

\* No probe chain of table e of n slots is broken.
Chained(e, n) ==
  \A i \in LiveSlots(e), j \in EmptySlots(e) :
    Distance(e[i].key, i, n) < Distance(e[i].key, j, n)

OldCapacity == Cardinality(DOMAIN old)

\* The old slots the re-insertion has been through, of those in use.
Passed == {i \in LiveSlots(old) : i < cursor}

\* While the table grows it holds what has been passed of an old table that
\* was at most 70% full, and is twice as large.
Growing ==
  /\ tombstones = 0
  /\ pending \in Keys \X Values
  /\ capacity = IF OldCapacity = 0 THEN 2 ELSE 2 * OldCapacity
  /\ OldCapacity # 1
  /\ cursor <= OldCapacity
  /\ 10 * Cardinality(LiveSlots(old)) <= 7 * OldCapacity
  /\ size <= Cardinality(Passed)
  /\ \A i \in Passed : \E j \in LiveSlots(entries) : entries[j].key = old[i].key

\* Between two calls at most 70% of the slots are in use or were.
Light ==
  /\ old = NoTable
  /\ capacity # 0 => 10 * (size + tombstones) <= 7 * capacity

IInv ==
  /\ TypeOK
  /\ Counted
  /\ MemoryBalanced
  /\ ChainsUnbroken
  /\ capacity # 1
  /\ pc \notin {"nested", "spinning"}
  /\ IF pc = "rehash" THEN Growing ELSE Light

-----------------------------------------------------------------------------
\* The steps.

\* A table whose counters leave a slot over has an unused slot, where every
\* probing loop can stop.
LEMMA UnusedSlot ==
  ASSUME entries \in [0 .. capacity - 1 -> Slots], capacity \in Nat, tombstones \in Nat,
         Counted, size + tombstones < capacity
  PROVE  /\ EmptySlots(entries) # {}
         /\ \A k \in Keys : SetStops(entries, k) # {} /\ GetStops(entries, k) # {}
<1>1. EmptySlots(entries) # {}
  BY TableFacts DEF Counted
<1>2. \A k \in Keys : EmptySlots(entries) \subseteq SetStops(entries, k)
  BY DEF EmptySlots, SetStops, IsLive
<1>3. \A k \in Keys : EmptySlots(entries) \subseteq GetStops(entries, k)
  BY DEF EmptySlots, GetStops
<1>4. QED
  BY <1>1, <1>2, <1>3

\* The tail of HASHMAP_set counts right, breaks no chain and forgets no key.
LEMMA StoreStep ==
  ASSUME entries \in [0 .. capacity - 1 -> Slots], capacity \in Nat \ {0},
         size = Cardinality(LiveSlots(entries)), Chained(entries, capacity),
         NEW k \in Keys, NEW v \in Values, SetStops(entries, k) # {},
         Store(k, v)
  PROVE  /\ entries' \in [0 .. capacity - 1 -> Slots]
         /\ size' \in Nat /\ size' <= size + 1
         /\ size' = Cardinality(LiveSlots(entries'))
         /\ Cardinality(TombSlots(entries')) <= Cardinality(TombSlots(entries))
         /\ Chained(entries', capacity)
         /\ \E j \in LiveSlots(entries') : entries'[j].key = k
         /\ \A i \in LiveSlots(entries) :
              \E j \in LiveSlots(entries') : entries'[j].key = entries[i].key
<1> DEFINE s == FirstOf(SetStops(entries, k), k, capacity)
           p == [key |-> k, value |-> v]
<1>1. SetStops(entries, k) \in SUBSET (0 .. capacity - 1)
  BY DEF SetStops
<1>2. /\ s \in SetStops(entries, k)
      /\ \A j \in SetStops(entries, k) : Distance(k, s, capacity) <= Distance(k, j, capacity)
  BY <1>1, FirstOfNearest
<1>3. s \in 0 .. capacity - 1 /\ (IsLive(entries[s]) => entries[s].key = k)
  BY <1>1, <1>2 DEF SetStops
<1>4. /\ entries' = [entries EXCEPT ![s] = p]
      /\ size' = IF IsLive(entries[s]) THEN size ELSE size + 1
  BY DEF Store
<1> HIDE DEF s
<1>5. /\ entries' \in [0 .. capacity - 1 -> Slots]
      /\ entries'[s] = p /\ IsLive(entries'[s])
      /\ \A i \in 0 .. capacity - 1 : i # s => entries'[i] = entries[i]
  <2>1. p \in Slots /\ IsLive(p)
    BY PairIsLive
  <2> HIDE DEF p
  <2>2. QED
    BY <1>3, <1>4, <2>1
<1>6. /\ LiveSlots(entries') = LiveSlots(entries) \cup {s}
       /\ TombSlots(entries') = TombSlots(entries) \ {s}
       /\ EmptySlots(entries') = EmptySlots(entries) \ {s}
  BY <1>3, <1>5, StoreInSlot
<1>7. /\ Cardinality(LiveSlots(entries')) = IF IsLive(entries[s]) THEN size ELSE size + 1
      /\ Cardinality(TombSlots(entries')) <= Cardinality(TombSlots(entries))
  <2>1. capacity \in Nat /\ s \in 0 .. capacity - 1 /\ entries' \in [0 .. capacity - 1 -> Slots]
    BY <1>3, <1>5
  <2>2. QED
    BY <1>6, <2>1, StoreCounts
<1>8. size \in Nat
  BY TableFacts
<1>9. /\ entries'[s].key = k
      /\ \A i \in LiveSlots(entries) : entries'[i].key = entries[i].key
  BY <1>3, <1>5 DEF LiveSlots
<1>10. Chained(entries', capacity)
  <2> SUFFICES ASSUME NEW i \in LiveSlots(entries'), NEW j \in EmptySlots(entries')
               PROVE  Distance(entries'[i].key, i, capacity) < Distance(entries'[i].key, j, capacity)
    BY DEF Chained
  <2>1. j \in EmptySlots(entries) /\ j # s
    BY <1>6
  <2>2. CASE i = s
    <3>1. j \in SetStops(entries, k) /\ j \in 0 .. capacity - 1
      BY <1>1, <2>1 DEF EmptySlots, SetStops, IsLive
    <3>2. Distance(k, s, capacity) <= Distance(k, j, capacity)
      BY <1>2, <3>1 DEF s
    <3>3. QED
      BY <1>3, <1>9, <2>1, <2>2, <3>1, <3>2, DistanceFacts
  <2>3. CASE i # s
    BY <1>6, <1>9, <2>1, <2>3 DEF Chained
  <2>4. QED
    BY <2>2, <2>3
<1>11. size' \in Nat /\ size' <= size + 1 /\ size' = Cardinality(LiveSlots(entries'))
  BY <1>4, <1>7, <1>8
<1>12. \E j \in LiveSlots(entries') : entries'[j].key = k
  BY <1>6, <1>9
<1>13. \A i \in LiveSlots(entries) :
         \E j \in LiveSlots(entries') : entries'[j].key = entries[i].key
  BY <1>6, <1>9
<1>14. QED
  BY <1>5, <1>6, <1>7, <1>10, <1>11, <1>12, <1>13

\* The empty map.
LEMMA InitInv == Init => IInv
<1> SUFFICES ASSUME Init PROVE IInv
  OBVIOUS
<1> USE DEF Init
<1>1. /\ entries \in [0 .. capacity - 1 -> Slots] /\ old \in [0 .. 0 - 1 -> Slots]
      /\ LiveSlots(entries) = {} /\ TombSlots(entries) = {}
  BY DEF NoTable, LiveSlots, TombSlots, IsLive
<1>2. Cardinality({}) = 0
  BY FS_EmptySet
<1>3. TypeOK
  <2>1. 0 \in 0 .. MaxCapacity
    BY HashAssumption
  <2>2. QED
    BY <1>1, <2>1 DEF TypeOK
<1>4. Counted
  BY <1>1, <1>2 DEF Counted
<1>5. ChainsUnbroken
  BY <1>1 DEF ChainsUnbroken
<1>6. MemoryBalanced
  BY DEF MemoryBalanced
<1>7. QED
  BY <1>3, <1>4, <1>5, <1>6 DEF IInv, Light

\* HASHMAP_set into a table with room.
LEMMA SetInv ==
  ASSUME IInv, NEW k \in Keys, NEW v \in Values, Set(k, v)
  PROVE  IInv'
<1>1. /\ pc = "idle" /\ Light
      /\ capacity \in Nat \ {0} /\ 10 * (size + tombstones + 1) <= 7 * capacity
  BY DEF Set, IInv, Crowded, TypeOK
<1>2. SetStops(entries, k) # {}
  BY <1>1, UnusedSlot DEF IInv, TypeOK
<1>3. Store(k, v) /\ pc' = "idle"
  BY <1>2 DEF Set
<1>4. /\ entries' \in [0 .. capacity - 1 -> Slots]
      /\ size' \in Nat /\ size' <= size + 1
      /\ size' = Cardinality(LiveSlots(entries'))
      /\ Cardinality(TombSlots(entries')) <= Cardinality(TombSlots(entries))
      /\ Chained(entries', capacity)
  BY <1>1, <1>2, <1>3, StoreStep DEF IInv, TypeOK, Counted, ChainsUnbroken, Chained
<1>5. UNCHANGED <<capacity, tombstones, old, cursor, pending, allocated>>
  BY DEF Set
<1>6. TypeOK'
  BY <1>3, <1>4, <1>5 DEF IInv, TypeOK
<1>7. Counted'
  <2>1. Cardinality(TombSlots(entries)) \in Nat /\ Cardinality(TombSlots(entries')) \in Nat
    BY <1>1, <1>4, TableFacts DEF IInv, TypeOK
  <2>2. QED
    BY <1>4, <1>5, <2>1 DEF IInv, TypeOK, Counted
<1>8. ChainsUnbroken'
  BY <1>4, <1>5 DEF ChainsUnbroken, Chained
<1>9. MemoryBalanced'
  BY <1>5 DEF IInv, MemoryBalanced
<1>10. Light'
  BY <1>1, <1>4, <1>5 DEF Light, IInv, TypeOK
<1>11. QED
  BY <1>1, <1>3, <1>5, <1>6, <1>7, <1>8, <1>9, <1>10 DEF IInv

\* HASHMAP_set up to its re-insertion loop.
LEMMA SetGrowInv ==
  ASSUME IInv, NEW k \in Keys, NEW v \in Values, SetGrow(k, v)
  PROVE  IInv'
<1> DEFINE cap == IF capacity = 0 THEN 2 ELSE capacity * 2
<1>1. /\ pc = "idle" /\ cap <= MaxCapacity
      /\ old' = entries /\ cursor' = 0 /\ pending' = <<k, v>>
      /\ NewTable(cap)
      /\ allocated' = Allocated(allocated, cap)
      /\ pc' = "rehash"
  BY DEF SetGrow
<1>2. /\ entries \in [0 .. capacity - 1 -> Slots] /\ capacity \in Nat
      /\ size \in Nat /\ tombstones \in Nat /\ allocated \in Nat
      /\ capacity # 1 /\ Counted
      /\ Light
  BY <1>1 DEF IInv, TypeOK
<1>3. cap \in Nat /\ cap > 1
  BY <1>2
<1> HIDE DEF cap
<1>4. /\ entries' = [i \in 0 .. cap - 1 |-> Empty]
      /\ capacity' = cap /\ size' = 0 /\ tombstones' = 0
  BY <1>1 DEF NewTable
<1>5. /\ entries' \in [0 .. cap - 1 -> Slots]
      /\ LiveSlots(entries') = {} /\ TombSlots(entries') = {}
  BY <1>3, <1>4, NewTableFacts
<1>6. /\ Cardinality(LiveSlots(entries)) = size
      /\ Cardinality(DOMAIN entries) = capacity
      /\ entries = NoTable <=> capacity = 0
  BY <1>2, TableFacts, NullTable DEF Counted
<1>7. Cardinality({}) = 0
  BY FS_EmptySet
<1>8. TypeOK'
  <2>1. capacity \in 0 .. MaxCapacity
    BY <1>1, <1>2, HashAssumption DEF cap
  <2>2. \E n \in 0 .. MaxCapacity : old' \in [0 .. n - 1 -> Slots]
    BY <1>1, <1>2, <2>1
  <2>3. allocated' \in Nat
    BY <1>1, <1>2, <1>3, HeaderAssumption DEF Allocated, Block
  <2>4. <<k, v>> \in Keys \X Values
    OBVIOUS
  <2>5. QED
    BY <1>1, <1>3, <1>4, <1>5, <2>2, <2>3, <2>4 DEF TypeOK
<1>9. Counted'
  <2>1. Cardinality(LiveSlots(entries')) = 0 /\ Cardinality(TombSlots(entries')) = 0
    BY <1>5, <1>7
  <2>2. size' = 0 /\ tombstones' = 0
    BY <1>4
  <2>3. QED
    BY <2>1, <2>2 DEF Counted
<1>10. ChainsUnbroken'
  BY <1>4, <1>5 DEF ChainsUnbroken
<1>11. MemoryBalanced'
  <2>1. allocated = IF capacity = 0 THEN 0 ELSE Block(capacity)
    BY <1>2, HeaderAssumption DEF IInv, MemoryBalanced, Light, Block
  <2>2. QED
    BY <1>1, <1>2, <1>3, <1>4, <1>6, <2>1, HeaderAssumption DEF MemoryBalanced, Allocated, Block
<1>12. Growing'
  <2>1. Passed' = {}
    BY <1>1, <1>2 DEF Passed, LiveSlots
  <2>2. OldCapacity' = capacity /\ Cardinality(LiveSlots(old')) = size
    BY <1>1, <1>6 DEF OldCapacity
  <2>3. capacity = 0 => size = 0
    <3>1. capacity = 0 => LiveSlots(entries) = {}
      BY <1>2 DEF LiveSlots
    <3>2. QED
      BY <1>6, <1>7, <3>1
  <2>4. 10 * size <= 7 * capacity
    BY <1>2, <2>3 DEF Light
  <2>5. QED
    BY <1>1, <1>2, <1>4, <1>7, <2>1, <2>2, <2>4 DEF Growing, cap
<1>13. QED
  BY <1>1, <1>3, <1>4, <1>8, <1>9, <1>10, <1>11, <1>12 DEF IInv

\* One turn of the re-insertion loop.
LEMMA ReinsertInv ==
  ASSUME IInv, Reinsert
  PROVE  IInv'
<1>1. /\ pc = "rehash" /\ cursor \in DOMAIN old /\ cursor' = cursor + 1
      /\ UNCHANGED <<capacity, tombstones, old, pending, allocated>>
  BY DEF Reinsert
<1>2. PICK n \in 0 .. MaxCapacity : old \in [0 .. n - 1 -> Slots]
  BY DEF IInv, TypeOK
<1>3. /\ n \in Nat /\ OldCapacity = n /\ cursor \in 0 .. n - 1
      /\ IsFiniteSet(LiveSlots(old)) /\ Cardinality(LiveSlots(old)) \in Nat
  BY <1>1, <1>2, HashAssumption, TableFacts DEF OldCapacity
<1>4. /\ entries \in [0 .. capacity - 1 -> Slots] /\ capacity \in Nat \ {0}
      /\ size \in Nat /\ tombstones = 0 /\ capacity = 2 * n
      /\ Counted /\ Growing /\ Chained(entries, capacity)
  BY <1>1, <1>3 DEF IInv, TypeOK, Growing, ChainsUnbroken, Chained
<1>5. IsFiniteSet(Passed) /\ Cardinality(Passed) \in Nat
  BY <1>3, FS_Subset, FS_CardinalityType DEF Passed
<1>6. CASE ~IsLive(old[cursor])
  <2>1. UNCHANGED <<entries, size, pc>>
    BY <1>6 DEF Reinsert
  <2>2. Passed' = Passed
    BY <1>1, <1>2, <1>3, <1>6 DEF Passed, LiveSlots
  <2>3. Growing'
    BY <1>1, <1>3, <1>4, <2>1, <2>2 DEF Growing, OldCapacity
  <2>4. QED
    BY <1>1, <1>3, <2>1, <2>3
       DEF IInv, TypeOK, Counted, MemoryBalanced, ChainsUnbroken
<1>7. CASE IsLive(old[cursor])
  <2> DEFINE k == old[cursor].key
             v == old[cursor].value
  <2>1. k \in Keys /\ v \in Values
    BY <1>2, <1>3, <1>7, LiveIsPair
  <2> HIDE DEF k, v
  <2>2. /\ cursor \in LiveSlots(old) /\ cursor \notin Passed
        /\ Passed' = Passed \cup {cursor}
    BY <1>1, <1>2, <1>3, <1>7 DEF Passed, LiveSlots
  <2>3. /\ Cardinality(Passed') = Cardinality(Passed) + 1
        /\ Cardinality(Passed') <= Cardinality(LiveSlots(old))
    <3>1. Cardinality(Passed \cup {cursor}) = Cardinality(Passed) + 1
      BY <1>5, <2>2, FS_AddElement
    <3>2. Passed \cup {cursor} \in SUBSET LiveSlots(old)
      BY <2>2 DEF Passed
    <3>3. Cardinality(Passed \cup {cursor}) <= Cardinality(LiveSlots(old))
      BY <1>3, <3>2, FS_Subset
    <3>4. QED
      BY <2>2, <3>1, <3>3
  <2>4. 10 * (size + 1) <= 7 * n
    BY <1>3, <1>4, <1>5, <2>3 DEF Growing
  <2>5. ~Crowded
    BY <1>3, <1>4, <2>4 DEF Crowded
  <2>6. SetStops(entries, k) # {}
    BY <1>3, <1>4, <2>1, <2>4, UnusedSlot
  <2>7. Store(k, v) /\ UNCHANGED pc
    BY <1>7, <2>5, <2>6 DEF Reinsert, k, v
  <2>8. /\ entries' \in [0 .. capacity - 1 -> Slots]
        /\ size' \in Nat /\ size' <= size + 1
        /\ size' = Cardinality(LiveSlots(entries'))
        /\ Cardinality(TombSlots(entries')) <= Cardinality(TombSlots(entries))
        /\ Chained(entries', capacity)
        /\ \E j \in LiveSlots(entries') : entries'[j].key = k
        /\ \A i \in LiveSlots(entries) :
             \E j \in LiveSlots(entries') : entries'[j].key = entries[i].key
    BY <1>4, <2>1, <2>6, <2>7, StoreStep DEF Counted
  <2>9. TypeOK'
    BY <1>1, <1>3, <2>7, <2>8 DEF IInv, TypeOK
  <2>10. Counted'
    <3>1. Cardinality(TombSlots(entries)) \in Nat /\ Cardinality(TombSlots(entries')) \in Nat
      BY <1>4, <2>8, TableFacts
    <3>2. QED
      BY <1>1, <1>4, <2>8, <3>1 DEF Counted
  <2>11. ChainsUnbroken'
    BY <1>1, <2>8 DEF ChainsUnbroken, Chained
  <2>12. MemoryBalanced'
    BY <1>1 DEF IInv, MemoryBalanced
  <2>13. \A i \in Passed' : \E j \in LiveSlots(entries') : entries'[j].key = old[i].key
    <3>1. \A i \in Passed : \E j \in LiveSlots(entries) : entries[j].key = old[i].key
      BY <1>4 DEF Growing
    <3>2. \A i \in Passed : \E j \in LiveSlots(entries') : entries'[j].key = old[i].key
      BY <2>8, <3>1
    <3>3. QED
      BY <2>2, <2>8, <3>2 DEF k
  <2>14. Growing'
    <3>1. size' <= Cardinality(Passed')
      BY <1>4, <1>5, <2>3, <2>8 DEF Growing
    <3>2. cursor' <= OldCapacity
      BY <1>1, <1>3
    <3>3. QED
      BY <1>1, <1>4, <2>13, <3>1, <3>2 DEF Growing, OldCapacity
  <2>15. QED
    BY <1>1, <1>4, <2>7, <2>9, <2>10, <2>11, <2>12, <2>14 DEF IInv
<1>8. QED
  BY <1>6, <1>7

\* The end of HASHMAP_set after its re-insertion loop.
LEMMA SetGrownInv ==
  ASSUME IInv, SetGrown
  PROVE  IInv'
<1>1. /\ pc = "rehash" /\ cursor \notin DOMAIN old
      /\ allocated' = IF old = NoTable THEN allocated
                      ELSE Freed(allocated, Cardinality(DOMAIN old))
      /\ old' = NoTable /\ cursor' = 0 /\ pending' = NoPair
      /\ UNCHANGED <<capacity, tombstones>>
  BY DEF SetGrown
<1>2. PICK n \in 0 .. MaxCapacity : old \in [0 .. n - 1 -> Slots]
  BY DEF IInv, TypeOK
<1>3. /\ n \in Nat /\ OldCapacity = n
      /\ IsFiniteSet(LiveSlots(old)) /\ Cardinality(LiveSlots(old)) \in Nat
  BY <1>2, HashAssumption, TableFacts DEF OldCapacity
<1>4. /\ entries \in [0 .. capacity - 1 -> Slots] /\ capacity \in Nat \ {0}
      /\ size \in Nat /\ tombstones = 0 /\ n # 1 /\ capacity # 1
      /\ capacity = IF n = 0 THEN 2 ELSE 2 * n
      /\ Counted /\ Growing /\ Chained(entries, capacity)
      /\ pending \in Keys \X Values
  BY <1>1, <1>3 DEF IInv, TypeOK, Growing, ChainsUnbroken, Chained
<1>5. 10 * size <= 7 * n
  <2>1. Cardinality(Passed) <= Cardinality(LiveSlots(old)) /\ Cardinality(Passed) \in Nat
    BY <1>3, FS_Subset, FS_CardinalityType DEF Passed
  <2>2. QED
    BY <1>3, <1>4, <2>1 DEF Growing
<1>6. pending[1] \in Keys /\ pending[2] \in Values
  BY <1>4
<1>7. SetStops(entries, pending[1]) # {}
  BY <1>3, <1>4, <1>5, <1>6, UnusedSlot
<1>8. Store(pending[1], pending[2]) /\ pc' = "idle"
  BY <1>7 DEF SetGrown
<1>9. /\ entries' \in [0 .. capacity - 1 -> Slots]
      /\ size' \in Nat /\ size' <= size + 1
      /\ size' = Cardinality(LiveSlots(entries'))
      /\ Cardinality(TombSlots(entries')) <= Cardinality(TombSlots(entries))
      /\ Chained(entries', capacity)
  BY <1>4, <1>6, <1>7, <1>8, StoreStep DEF Counted
<1>10. /\ (old = NoTable <=> n = 0) /\ Cardinality(DOMAIN old) = n
  BY <1>2, <1>3, NullTable DEF OldCapacity
<1>11. allocated' = Block(capacity)
  BY <1>1, <1>3, <1>4, <1>10, HeaderAssumption DEF IInv, MemoryBalanced, Freed, Block
<1>12. TypeOK'
  <2>1. allocated' \in Nat
    BY <1>4, <1>11, HeaderAssumption DEF Block
  <2>2. 0 \in 0 .. MaxCapacity /\ NoTable \in [0 .. 0 - 1 -> Slots]
    BY HashAssumption DEF NoTable
  <2>3. QED
    BY <1>1, <1>4, <1>8, <1>9, <2>1, <2>2 DEF TypeOK
<1>13. Counted'
  <2>1. Cardinality(TombSlots(entries)) \in Nat /\ Cardinality(TombSlots(entries')) \in Nat
    BY <1>4, <1>9, TableFacts
  <2>2. QED
    BY <1>1, <1>4, <1>9, <2>1 DEF Counted
<1>14. ChainsUnbroken'
  BY <1>1, <1>9 DEF ChainsUnbroken, Chained
<1>15. MemoryBalanced'
  BY <1>1, <1>4, <1>11, HeaderAssumption DEF MemoryBalanced, Block
<1>16. Light'
  BY <1>1, <1>3, <1>4, <1>5, <1>9 DEF Light
<1>17. QED
  BY <1>1, <1>4, <1>8, <1>12, <1>13, <1>14, <1>15, <1>16 DEF IInv

\* Making a tombstone of a slot in use.
LEMMA EraseSlot ==
  ASSUME NEW n \in Nat, NEW e \in [0 .. n - 1 -> Slots], NEW s \in 0 .. n - 1,
         NEW f \in [0 .. n - 1 -> Slots], IsLive(e[s]), f[s] = Tomb,
         \A i \in 0 .. n - 1 : i # s => f[i] = e[i]
  PROVE  /\ LiveSlots(f) = LiveSlots(e) \ {s}
         /\ TombSlots(f) = TombSlots(e) \cup {s}
         /\ EmptySlots(f) = EmptySlots(e)
         /\ Cardinality(LiveSlots(f)) = Cardinality(LiveSlots(e)) - 1
         /\ Cardinality(TombSlots(f)) = Cardinality(TombSlots(e)) + 1
         /\ Cardinality(LiveSlots(e)) > 0
<1>1. DOMAIN f = 0 .. n - 1 /\ DOMAIN e = 0 .. n - 1
  OBVIOUS
<1>2. /\ LiveSlots(f) = LiveSlots(e) \ {s}
      /\ TombSlots(f) = TombSlots(e) \cup {s}
      /\ EmptySlots(f) = EmptySlots(e)
      /\ s \in LiveSlots(e) /\ s \notin TombSlots(e)
  BY <1>1, HashAssumption DEF LiveSlots, TombSlots, EmptySlots, IsLive
<1>3. IsFiniteSet(LiveSlots(e)) /\ IsFiniteSet(TombSlots(e))
  BY TableFacts
<1>4. /\ Cardinality(LiveSlots(e) \ {s}) = Cardinality(LiveSlots(e)) - 1
      /\ Cardinality(TombSlots(e) \cup {s}) = Cardinality(TombSlots(e)) + 1
  BY <1>2, <1>3, FS_RemoveElement, FS_AddElement
<1>5. Cardinality(LiveSlots(e) \ {s}) \in Nat /\ Cardinality(LiveSlots(e)) \in Nat
  BY <1>3, FS_RemoveElement, FS_CardinalityType
<1>6. QED
  BY <1>2, <1>4, <1>5

\* A lookup that finds something stops at a slot in use that has the key.
LEMMA LookupStops ==
  ASSUME NEW n \in Nat, NEW e \in [0 .. n - 1 -> Slots], NEW k \in Keys,
         Lookup(e, n, k) # NoValue
  PROVE  /\ GetStops(e, k) # {}
         /\ FirstOf(GetStops(e, k), k, n) \in LiveSlots(e)
         /\ e[FirstOf(GetStops(e, k), k, n)].key = k
<1> DEFINE s == FirstOf(GetStops(e, k), k, n)
<1>1. GetStops(e, k) # {} /\ e[s] # Empty
  BY DEF Lookup
<1>2. GetStops(e, k) \in SUBSET (0 .. n - 1) /\ n \in Nat \ {0}
  BY <1>1 DEF GetStops
<1>3. s \in GetStops(e, k)
  BY <1>1, <1>2, FirstOfNearest
<1> HIDE DEF s
<1>4. IsLive(e[s]) /\ e[s].key = k /\ s \in DOMAIN e
  BY <1>1, <1>3 DEF GetStops
<1>5. QED
  BY <1>1, <1>4 DEF LiveSlots, s

\* HASHMAP_get of an absent key.
LEMMA GetMissingInv ==
  ASSUME IInv, NEW k \in Keys, GetMissing(k)
  PROVE  IInv'
<1>1. /\ pc = "idle" /\ pc' = NotFound(k)
      /\ UNCHANGED <<entries, capacity, size, tombstones, old, cursor, pending, allocated>>
  BY DEF GetMissing
<1>2. pc' \in {"null", "fatal"}
  <2>1. CASE capacity = 0
    BY <1>1, <2>1 DEF NotFound
  <2>2. CASE capacity # 0
    <3>1. GetStops(entries, k) # {}
      BY <1>1, <2>2, UnusedSlot DEF IInv, TypeOK, Light
    <3>2. QED
      BY <1>1, <2>2, <3>1 DEF NotFound
  <2>3. QED
    BY <2>1, <2>2
<1>3. QED
  BY <1>1, <1>2 DEF IInv, TypeOK, Counted, MemoryBalanced, ChainsUnbroken, Light

\* HASHMAP_remove
LEMMA RemoveInv ==
  ASSUME IInv, NEW k \in Keys, Remove(k)
  PROVE  IInv'
<1>1. pc = "idle" /\ UNCHANGED <<capacity, old, cursor, pending, allocated>>
  BY DEF Remove
<1>2. /\ entries \in [0 .. capacity - 1 -> Slots] /\ capacity \in Nat
      /\ size \in Nat /\ tombstones \in Nat
      /\ Counted /\ Light /\ ChainsUnbroken
  BY <1>1 DEF IInv, TypeOK
<1>3. CASE Lookup(entries, capacity, k) = NoValue
  <2>1. pc' = NotFound(k) /\ UNCHANGED <<entries, size, tombstones>>
    BY <1>3 DEF Remove
  <2>2. pc' \in {"null", "fatal"}
    <3>1. CASE capacity = 0
      BY <2>1, <3>1 DEF NotFound
    <3>2. CASE capacity # 0
      <4>1. GetStops(entries, k) # {}
        BY <1>2, <3>2, UnusedSlot DEF Light
      <4>2. QED
        BY <2>1, <3>2, <4>1 DEF NotFound
    <3>3. QED
      BY <3>1, <3>2
  <2>3. QED
    BY <1>1, <2>1, <2>2 DEF IInv, TypeOK, Counted, MemoryBalanced, ChainsUnbroken, Light
<1>4. CASE Lookup(entries, capacity, k) # NoValue
  <2> DEFINE s == FirstOf(GetStops(entries, k), k, capacity)
  <2>1. /\ entries' = [entries EXCEPT ![s] = Tomb]
        /\ tombstones' = tombstones + 1 /\ size' = size - 1 /\ UNCHANGED pc
    BY <1>4 DEF Remove, Removed
  <2>2. s \in LiveSlots(entries)
    BY <1>2, <1>4, LookupStops
  <2> HIDE DEF s
  <2>3. s \in 0 .. capacity - 1 /\ IsLive(entries[s])
    BY <1>2, <2>2 DEF LiveSlots
  <2>4. /\ entries' \in [0 .. capacity - 1 -> Slots] /\ entries'[s] = Tomb
        /\ \A i \in 0 .. capacity - 1 : i # s => entries'[i] = entries[i]
    <3>1. Tomb \in Slots
      BY DEF Slots
    <3>2. QED
      BY <1>2, <2>1, <2>3, <3>1
  <2>5. /\ LiveSlots(entries') = LiveSlots(entries) \ {s}
        /\ EmptySlots(entries') = EmptySlots(entries)
        /\ Cardinality(LiveSlots(entries')) = Cardinality(LiveSlots(entries)) - 1
        /\ Cardinality(TombSlots(entries')) = Cardinality(TombSlots(entries)) + 1
        /\ Cardinality(LiveSlots(entries)) > 0
    BY <1>2, <2>3, <2>4, EraseSlot
  <2>6. Cardinality(TombSlots(entries)) \in Nat
    BY <1>2, TableFacts
  <2>7. TypeOK'
    BY <1>1, <1>2, <2>1, <2>4, <2>5 DEF IInv, TypeOK, Counted
  <2>8. Counted'
    BY <1>2, <2>1, <2>5, <2>6 DEF Counted
  <2>9. ChainsUnbroken'
    <3>1. \A i \in LiveSlots(entries') : i \in LiveSlots(entries) /\ entries'[i] = entries[i]
      BY <1>2, <2>4, <2>5 DEF LiveSlots
    <3>2. QED
      BY <1>1, <1>2, <2>5, <3>1 DEF ChainsUnbroken
  <2>10. MemoryBalanced'
    BY <1>1 DEF IInv, MemoryBalanced
  <2>11. Light'
    BY <1>1, <1>2, <2>1 DEF Light
  <2>12. QED
    BY <1>1, <2>1, <2>7, <2>8, <2>9, <2>10, <2>11 DEF IInv
<1>5. QED
  BY <1>3, <1>4

\* HASHMAP_clear
LEMMA ClearInv ==
  ASSUME IInv, Clear
  PROVE  IInv'
<1>1. /\ pc = "idle" /\ entries' = NoTable /\ size' = 0 /\ capacity' = 0
      /\ allocated' = IF capacity = 0 THEN allocated ELSE Freed(allocated, capacity)
      /\ UNCHANGED <<tombstones, old, cursor, pending, pc>>
  BY DEF Clear
<1>2. /\ capacity \in Nat /\ tombstones \in Nat /\ Light /\ MemoryBalanced
  BY <1>1 DEF IInv, TypeOK
<1>3. allocated' = 0
  BY <1>1, <1>2, HeaderAssumption DEF MemoryBalanced, Light, Freed, Block
<1>4. /\ entries' \in [0 .. 0 - 1 -> Slots]
      /\ LiveSlots(entries') = {} /\ TombSlots(entries') = {}
  BY <1>1 DEF NoTable, LiveSlots, TombSlots
<1>5. Cardinality({}) = 0
  BY FS_EmptySet
<1>6. TypeOK'
  BY <1>1, <1>3, <1>4 DEF IInv, TypeOK
<1>7. Counted'
  <2>1. Cardinality(LiveSlots(entries')) = 0 /\ Cardinality(TombSlots(entries')) = 0
    BY <1>4, <1>5
  <2>2. QED
    BY <1>1, <1>2, <2>1 DEF Counted
<1>8. ChainsUnbroken'
  BY <1>4 DEF ChainsUnbroken
<1>9. MemoryBalanced'
  BY <1>1, <1>2, <1>3 DEF MemoryBalanced, Light
<1>10. Light'
  BY <1>1, <1>2 DEF Light
<1>11. QED
  BY <1>1, <1>6, <1>7, <1>8, <1>9, <1>10 DEF IInv

\* Every step preserves the invariant.
LEMMA NextInv == IInv /\ [Next]_vars => IInv'
<1> SUFFICES ASSUME IInv, [Next]_vars PROVE IInv'
  OBVIOUS
<1>1. CASE UNCHANGED vars
  BY <1>1 DEF vars, IInv, TypeOK, Counted, MemoryBalanced, ChainsUnbroken, Growing, Light,
              OldCapacity, Passed
<1>2. CASE Next
  BY <1>2, SetInv, SetGrowInv, ReinsertInv, SetGrownInv, GetMissingInv, RemoveInv, ClearInv
     DEF Next, Growth
<1>3. QED
  BY <1>1, <1>2

\* The inductive invariant holds in every state the map can be in.
THEOREM Invariance == Spec => []IInv
BY InitInv, NextInv, PTL DEF Spec

-----------------------------------------------------------------------------
\* What follows from the inductive invariant.

\* There is always an unused slot.
LEMMA AlwaysUnusedSlot ==
  ASSUME IInv, capacity # 0
  PROVE  EmptySlots(entries) # {}
<1>1. CASE pc # "rehash"
  BY <1>1, UnusedSlot DEF IInv, TypeOK, Light
<1>2. CASE pc = "rehash"
  <2>1. PICK n \in 0 .. MaxCapacity : old \in [0 .. n - 1 -> Slots]
    BY DEF IInv, TypeOK
  <2>2. /\ n \in Nat /\ OldCapacity = n
        /\ IsFiniteSet(LiveSlots(old)) /\ Cardinality(LiveSlots(old)) \in Nat
    BY <2>1, HashAssumption, TableFacts DEF OldCapacity
  <2>3. Cardinality(Passed) <= Cardinality(LiveSlots(old)) /\ Cardinality(Passed) \in Nat
    BY <2>2, FS_Subset, FS_CardinalityType DEF Passed
  <2>4. size \in Nat /\ Growing
    BY <1>2 DEF IInv, TypeOK
  <2>5. size + tombstones < capacity
    BY <2>2, <2>3, <2>4 DEF Growing
  <2>6. QED
    BY <2>5, UnusedSlot DEF IInv, TypeOK
<1>3. QED
  BY <1>1, <1>2

\* In a table without broken chains, a lookup finds every key that has a slot.
LEMMA LookupFinds ==
  ASSUME NEW n \in Nat, NEW e \in [0 .. n - 1 -> Slots], Chained(e, n),
         NEW i \in LiveSlots(e)
  PROVE  Lookup(e, n, e[i].key) # NoValue
<1> DEFINE k == e[i].key
           f == FirstOf(GetStops(e, k), k, n)
<1>1. i \in 0 .. n - 1 /\ n \in Nat \ {0} /\ IsLive(e[i])
  BY DEF LiveSlots
<1>2. k \in Keys
  BY <1>1, LiveIsPair
<1> HIDE DEF k
<1>3. i \in GetStops(e, k) /\ GetStops(e, k) \in SUBSET (0 .. n - 1)
  BY <1>1 DEF GetStops, k
<1>4. f \in GetStops(e, k) /\ Distance(k, f, n) <= Distance(k, i, n)
  BY <1>1, <1>2, <1>3, FirstOfNearest
<1> HIDE DEF f
<1>5. e[f] # Empty
  <2> SUFFICES ASSUME e[f] = Empty PROVE FALSE
    OBVIOUS
  <2>1. f \in EmptySlots(e) /\ f \in 0 .. n - 1
    BY <1>3, <1>4 DEF EmptySlots, GetStops
  <2>2. Distance(k, i, n) < Distance(k, f, n)
    BY <2>1 DEF Chained, k
  <2>3. Distance(k, i, n) \in Nat /\ Distance(k, f, n) \in Nat
    BY <1>1, <1>2, <2>1, DistanceFacts
  <2>4. QED
    BY <1>4, <2>2, <2>3
<1>6. f \in 0 .. n - 1 /\ IsLive(e[f])
  BY <1>3, <1>4, <1>5 DEF GetStops
<1>7. e[f].value \in Values
  BY <1>6, LiveIsPair
<1>8. Lookup(e, n, k) = e[f].value
  BY <1>3, <1>5 DEF Lookup, f
<1>9. QED
  BY <1>7, <1>8, HashAssumption DEF k

\* Whatever was stored in it before, a table that has been set finds the value.
LEMMA StoreVisible ==
  ASSUME entries \in [0 .. capacity - 1 -> Slots], capacity \in Nat \ {0},
         NEW k \in Keys, NEW v \in Values, SetStops(entries, k) # {},
         Store(k, v)
  PROVE  Lookup(entries', capacity, k) = v
<1> DEFINE s == FirstOf(SetStops(entries, k), k, capacity)
           f == FirstOf(GetStops(entries', k), k, capacity)
           p == [key |-> k, value |-> v]
<1>1. SetStops(entries, k) \in SUBSET (0 .. capacity - 1)
  BY DEF SetStops
<1>2. /\ s \in SetStops(entries, k)
      /\ \A j \in SetStops(entries, k) : Distance(k, s, capacity) <= Distance(k, j, capacity)
  BY <1>1, FirstOfNearest
<1>3. s \in 0 .. capacity - 1
  BY <1>1, <1>2
<1>4. entries' = [entries EXCEPT ![s] = p]
  BY DEF Store
<1> HIDE DEF s
<1>5. p \in Slots /\ IsLive(p) /\ p # Empty /\ p.key = k /\ p.value = v
  BY PairIsLive DEF IsLive
<1> HIDE DEF p
<1>6. /\ DOMAIN entries' = 0 .. capacity - 1 /\ entries'[s] = p
      /\ \A i \in 0 .. capacity - 1 : i # s => entries'[i] = entries[i]
  BY <1>3, <1>4
<1>7. s \in GetStops(entries', k) /\ GetStops(entries', k) \in SUBSET (0 .. capacity - 1)
  BY <1>3, <1>5, <1>6 DEF GetStops
<1>8. /\ f \in GetStops(entries', k)
      /\ Distance(k, f, capacity) <= Distance(k, s, capacity)
  BY <1>7, FirstOfNearest
<1> HIDE DEF f
<1>9. f = s
  <2> SUFFICES ASSUME f # s PROVE FALSE
    OBVIOUS
  <2>1. f \in 0 .. capacity - 1 /\ entries'[f] = entries[f]
    BY <1>6, <1>7, <1>8
  <2>2. f \in SetStops(entries, k)
    BY <1>8, <2>1 DEF GetStops, SetStops, IsLive
  <2>3. Distance(k, s, capacity) <= Distance(k, f, capacity)
    BY <1>2, <2>2
  <2>4. Distance(k, s, capacity) \in Nat /\ Distance(k, f, capacity) \in Nat
    BY <1>3, <2>1, DistanceFacts
  <2>5. Distance(k, s, capacity) = Distance(k, f, capacity)
    BY <1>8, <2>3, <2>4
  <2>6. QED
    BY <1>3, <2>1, <2>5, DistanceFacts
<1>10. QED
  BY <1>5, <1>6, <1>7, <1>9 DEF Lookup, f

-----------------------------------------------------------------------------
\* The state is a HASHMAP_* whatever the client calls.
THEOREM TypeCorrect == Spec => []TypeOK
<1>1. IInv => TypeOK
  BY DEF IInv
<1>2. QED
  BY <1>1, Invariance, PTL

\* map->size is exact and map->tombstones never undercounts.
THEOREM CountersRight == Spec => []Counted
<1>1. IInv => Counted
  BY DEF IInv
<1>2. QED
  BY <1>1, Invariance, PTL

\* No probing loop of HASHMAP_set, _has, _get, _ref or _remove can go round for
\* ever: the load factor of 70% leaves an unused slot in every table.
THEOREM ProbingEnds == Spec => []ProbesStop
<1>1. IInv => ProbesStop
  BY AlwaysUnusedSlot DEF IInv, ProbesStop
<1>2. QED
  BY <1>1, Invariance, PTL

\* The calls HASHMAP_set makes of itself never grow the table again, so the
\* recursion is one level deep.
THEOREM GrowthDoesNotNest == Spec => []NoNestedGrowth
<1>1. IInv => NoNestedGrowth
  BY DEF IInv, NoNestedGrowth
<1>2. QED
  BY <1>1, Invariance, PTL

\* No call breaks a probe chain.
THEOREM ChainsStayUnbroken == Spec => []ChainsUnbroken
<1>1. IInv => ChainsUnbroken
  BY DEF IInv
<1>2. QED
  BY <1>1, Invariance, PTL

\* The map leaks no table.
THEOREM NothingLeaks == Spec => []MemoryBalanced
<1>1. IInv => MemoryBalanced
  BY DEF IInv
<1>2. QED
  BY <1>1, Invariance, PTL

\* A growing map forgets no key it has passed over.
THEOREM GrowthForgetsNothing == Spec => []GrowthKeepsKeys
<1>1. ASSUME IInv
      PROVE  GrowthKeepsKeys
  <2> SUFFICES ASSUME pc = "rehash", NEW i \in LiveSlots(old), i < cursor
               PROVE  Lookup(entries, capacity, old[i].key) # NoValue
    BY DEF GrowthKeepsKeys
  <2>1. PICK j \in LiveSlots(entries) : entries[j].key = old[i].key
    BY <1>1 DEF IInv, Growing, Passed
  <2>2. entries \in [0 .. capacity - 1 -> Slots] /\ capacity \in Nat /\ Chained(entries, capacity)
    BY <1>1 DEF IInv, TypeOK, ChainsUnbroken, Chained
  <2>3. Lookup(entries, capacity, entries[j].key) # NoValue
    BY <2>2, LookupFinds
  <2>4. QED
    BY <2>1, <2>3
<1>2. QED
  BY <1>1, Invariance, PTL

\* A set is visible to the next get of its key.
THEOREM SetsAreVisible == Spec => SetIsVisible
<1>1. ASSUME IInv, NEW k \in Keys, NEW v \in Values, Set(k, v)
      PROVE  Lookup(entries', capacity', k) = v
  <2>1. capacity \in Nat \ {0} /\ entries \in [0 .. capacity - 1 -> Slots] /\ capacity' = capacity
    BY <1>1 DEF Set, IInv, Crowded, TypeOK
  <2>2. SetStops(entries, k) # {}
    BY <1>1, <2>1, AlwaysUnusedSlot DEF EmptySlots, SetStops, IsLive
  <2>3. Store(k, v)
    BY <1>1, <2>2 DEF Set
  <2>4. QED
    BY <2>1, <2>2, <2>3, StoreVisible
<1>2. ASSUME IInv, SetGrown
      PROVE  Lookup(entries', capacity', pending[1]) = pending[2]
  <2>1. pc = "rehash" /\ Growing /\ capacity \in Nat /\ entries \in [0 .. capacity - 1 -> Slots]
    BY <1>2 DEF SetGrown, IInv, TypeOK
  <2>2. OldCapacity \in Nat
    <3>1. PICK n \in 0 .. MaxCapacity : old \in [0 .. n - 1 -> Slots]
      BY <1>2 DEF IInv, TypeOK
    <3>2. n \in Nat /\ OldCapacity = n
      BY <3>1, TableFacts, HashAssumption DEF OldCapacity
    <3>3. QED
      BY <3>2
  <2>3. capacity \in Nat \ {0} /\ capacity' = capacity
    BY <1>2, <2>1, <2>2 DEF Growing, SetGrown
  <2>4. pending[1] \in Keys /\ pending[2] \in Values
    BY <2>1 DEF Growing
  <2>5. SetStops(entries, pending[1]) # {}
    BY <1>2, <2>3, AlwaysUnusedSlot DEF EmptySlots, SetStops, IsLive
  <2>6. Store(pending[1], pending[2])
    BY <1>2, <2>5 DEF SetGrown
  <2>7. QED
    BY <2>1, <2>3, <2>4, <2>5, <2>6, StoreVisible
<1>3. IInv /\ [Next]_vars =>
        [ /\ \A k \in Keys, v \in Values : Set(k, v) => Lookup(entries', capacity', k) = v
          /\ SetGrown => Lookup(entries', capacity', pending[1]) = pending[2] ]_vars
  BY <1>1, <1>2
<1>4. QED
  BY <1>3, Invariance, PTL DEF Spec, SetIsVisible

-----------------------------------------------------------------------------
-----------------------------------------------------------------------------
\* The invariant that a careful client adds.

\* No key has two slots in table e.
Unique(e) == \A i, j \in LiveSlots(e) : e[i].key = e[j].key => i = j

\* While the table grows, it holds exactly the pairs passed in the old one.
Transferred ==
  /\ \A i \in Passed : \E j \in LiveSlots(entries) : entries[j] = old[i]
  /\ \A j \in LiveSlots(entries) : \E i \in Passed : entries[j] = old[i]

CInv ==
  /\ Unique(entries)
  /\ pc = "rehash" => Unique(old) /\ Chained(old, OldCapacity) /\ Transferred

-----------------------------------------------------------------------------
\* Lookups in such tables.

\* A key that has no slot is not found.
LEMMA LookupNone ==
  ASSUME NEW n \in Nat, NEW e \in [0 .. n - 1 -> Slots], NEW k \in Keys,
         \A i \in LiveSlots(e) : e[i].key # k
  PROVE  Lookup(e, n, k) = NoValue
BY LookupStops

\* A key that has a slot is found with the value of that slot.
LEMMA LookupIs ==
  ASSUME NEW n \in Nat, NEW e \in [0 .. n - 1 -> Slots], Chained(e, n), Unique(e),
         NEW i \in LiveSlots(e)
  PROVE  Lookup(e, n, e[i].key) = e[i].value
<1> DEFINE k == e[i].key
           s == FirstOf(GetStops(e, k), k, n)
<1>1. k \in Keys
  BY LiveIsPair DEF LiveSlots
<1>2. Lookup(e, n, k) # NoValue
  BY LookupFinds
<1>3. GetStops(e, k) # {} /\ s \in LiveSlots(e) /\ e[s].key = k
  <2> HIDE DEF k
  <2> QED
    BY <1>1, <1>2, LookupStops
<1>4. s = i
  BY <1>3 DEF Unique
<1>5. e[s] # Empty
  BY <1>3 DEF LiveSlots, IsLive
<1>6. QED
  BY <1>3, <1>4, <1>5 DEF Lookup

\* Two tables that hold the same pair, or none, under a key agree on it.
LEMMA LookupSame ==
  ASSUME NEW n \in Nat, NEW e \in [0 .. n - 1 -> Slots], Chained(e, n), Unique(e),
         NEW m \in Nat, NEW f \in [0 .. m - 1 -> Slots], Chained(f, m), Unique(f),
         NEW k \in Keys,
         \A i \in LiveSlots(e) : e[i].key = k => \E j \in LiveSlots(f) : f[j] = e[i],
         \A j \in LiveSlots(f) : f[j].key = k => \E i \in LiveSlots(e) : e[i] = f[j]
  PROVE  Lookup(e, n, k) = Lookup(f, m, k)
<1>1. CASE \E i \in LiveSlots(e) : e[i].key = k
  <2>1. PICK i \in LiveSlots(e) : e[i].key = k
    BY <1>1
  <2>2. PICK j \in LiveSlots(f) : f[j] = e[i]
    BY <2>1
  <2>3. Lookup(e, n, k) = e[i].value
    BY <2>1, LookupIs
  <2>4. Lookup(f, m, f[j].key) = f[j].value
    BY LookupIs
  <2>5. QED
    BY <2>1, <2>2, <2>3, <2>4
<1>2. CASE \A i \in LiveSlots(e) : e[i].key # k
  <2>1. \A j \in LiveSlots(f) : f[j].key # k
    BY <1>2
  <2>2. QED
    BY <1>2, <2>1, LookupNone
<1>3. QED
  BY <1>1, <1>2

\* HASHMAP_has tells the truth about the slots.
LEMMA HasNot ==
  ASSUME IInv, pc # "rehash", NEW k \in Keys, ~Has(k)
  PROVE  \A i \in LiveSlots(entries) : entries[i].key # k
<1>1. /\ entries \in [0 .. capacity - 1 -> Slots] /\ capacity \in Nat
      /\ Chained(entries, capacity) /\ Counted
  BY DEF IInv, TypeOK, ChainsUnbroken, Chained
<1>2. CASE size = 0
  <2>1. Cardinality(LiveSlots(entries)) = 0
    BY <1>1, <1>2 DEF Counted
  <2>2. IsFiniteSet(LiveSlots(entries))
    BY <1>1, TableFacts
  <2>3. QED
    BY <2>1, <2>2, FS_EmptySet
<1>3. CASE Lookup(entries, capacity, k) = NoValue
  BY <1>1, <1>3, LookupFinds
<1>4. QED
  BY <1>2, <1>3 DEF Has

-----------------------------------------------------------------------------
\* Storing.

\* Where a pair is stored: in a table without tombstones, or under a new key,
\* no other slot has the key afterwards, and no other key is touched.
LEMMA StoreSlot ==
  ASSUME entries \in [0 .. capacity - 1 -> Slots], capacity \in Nat \ {0},
         Chained(entries, capacity), Unique(entries),
         NEW k \in Keys, NEW v \in Values, SetStops(entries, k) # {},
         \/ TombSlots(entries) = {}
         \/ \A i \in LiveSlots(entries) : entries[i].key # k,
         Store(k, v)
  PROVE  /\ Unique(entries')
         /\ \E s \in LiveSlots(entries') :
              /\ entries'[s] = [key |-> k, value |-> v]
              /\ LiveSlots(entries') = LiveSlots(entries) \cup {s}
              /\ \A i \in LiveSlots(entries) : entries[i].key = k => i = s
              /\ \A i \in LiveSlots(entries) : entries[i].key # k =>
                   i # s /\ entries'[i] = entries[i]
<1> DEFINE s == FirstOf(SetStops(entries, k), k, capacity)
           p == [key |-> k, value |-> v]
<1>1. SetStops(entries, k) \in SUBSET (0 .. capacity - 1)
  BY DEF SetStops
<1>2. /\ s \in SetStops(entries, k)
      /\ \A j \in SetStops(entries, k) : Distance(k, s, capacity) <= Distance(k, j, capacity)
  BY <1>1, FirstOfNearest
<1>3. s \in 0 .. capacity - 1 /\ (IsLive(entries[s]) => entries[s].key = k)
  BY <1>1, <1>2 DEF SetStops
<1>4. entries' = [entries EXCEPT ![s] = p]
  BY DEF Store
<1> HIDE DEF s
<1>5. /\ entries' \in [0 .. capacity - 1 -> Slots]
      /\ entries'[s] = p /\ IsLive(entries'[s])
      /\ \A i \in 0 .. capacity - 1 : i # s => entries'[i] = entries[i]
  <2>1. p \in Slots /\ IsLive(p)
    BY PairIsLive
  <2> HIDE DEF p
  <2>2. QED
    BY <1>3, <1>4, <2>1
<1>6. LiveSlots(entries') = LiveSlots(entries) \cup {s}
  BY <1>3, <1>5, StoreInSlot
<1>7. ASSUME NEW i \in LiveSlots(entries), entries[i].key = k
      PROVE  i = s
  <2>1. TombSlots(entries) = {}
    BY <1>7
  <2>2. i \in SetStops(entries, k) /\ i \in 0 .. capacity - 1
    BY <1>7 DEF LiveSlots, SetStops
  <2>3. Distance(k, s, capacity) <= Distance(k, i, capacity)
    BY <1>2, <2>2
  <2>4. CASE IsLive(entries[s])
    BY <1>3, <1>7, <2>4 DEF Unique, LiveSlots
  <2>5. CASE ~IsLive(entries[s])
    <3>1. s \in EmptySlots(entries)
      BY <1>3, <2>1, <2>5 DEF EmptySlots, TombSlots, IsLive
    <3>2. Distance(k, i, capacity) < Distance(k, s, capacity)
      BY <1>7, <3>1 DEF Chained
    <3>3. Distance(k, i, capacity) \in Nat /\ Distance(k, s, capacity) \in Nat
      BY <1>3, <2>2, DistanceFacts
    <3>4. QED
      BY <2>3, <3>2, <3>3
  <2>6. QED
    BY <2>4, <2>5
<1>8. ASSUME NEW i \in LiveSlots(entries), entries[i].key # k
      PROVE  i # s /\ entries'[i] = entries[i]
  <2>1. i \in 0 .. capacity - 1 /\ IsLive(entries[i])
    BY DEF LiveSlots
  <2>2. QED
    BY <1>3, <1>5, <1>8, <2>1
<1>9. entries'[s].key = k
  BY <1>5
<1>10. Unique(entries')
  <2> SUFFICES ASSUME NEW i \in LiveSlots(entries'), NEW j \in LiveSlots(entries'),
                      entries'[i].key = entries'[j].key
               PROVE  i = j
    BY DEF Unique
  <2>1. \A h \in LiveSlots(entries') : h = s \/ (h \in LiveSlots(entries) /\ entries[h].key # k
                                                /\ entries'[h] = entries[h])
    BY <1>6, <1>7, <1>8
  <2>2. QED
    BY <1>9, <2>1 DEF Unique
<1>11. s \in LiveSlots(entries') /\ entries'[s] = [key |-> k, value |-> v]
  BY <1>5, <1>6
<1>12. QED
  BY <1>6, <1>7, <1>8, <1>10, <1>11

\* So a set of such a table changes what one key is mapped to.
LEMMA StoreLookup ==
  ASSUME entries \in [0 .. capacity - 1 -> Slots], capacity \in Nat \ {0},
         Chained(entries, capacity), Unique(entries), size = Cardinality(LiveSlots(entries)),
         NEW k \in Keys, NEW v \in Values, SetStops(entries, k) # {},
         \/ TombSlots(entries) = {}
         \/ \A i \in LiveSlots(entries) : entries[i].key # k,
         Store(k, v), NEW l \in Keys
  PROVE  Lookup(entries', capacity, l) = IF l = k THEN v ELSE Lookup(entries, capacity, l)
<1>1. CASE l = k
  BY <1>1, StoreVisible
<1>2. CASE l # k
  <2>1. entries' \in [0 .. capacity - 1 -> Slots] /\ Chained(entries', capacity)
    BY StoreStep
  <2>2. Unique(entries')
    BY StoreSlot
  <2>3. PICK s \in LiveSlots(entries') :
              /\ entries'[s] = [key |-> k, value |-> v]
              /\ LiveSlots(entries') = LiveSlots(entries) \cup {s}
              /\ \A i \in LiveSlots(entries) : entries[i].key = k => i = s
              /\ \A i \in LiveSlots(entries) : entries[i].key # k =>
                   i # s /\ entries'[i] = entries[i]
    BY StoreSlot
  <2>4. \A i \in LiveSlots(entries) : entries[i].key = l =>
          \E j \in LiveSlots(entries') : entries'[j] = entries[i]
    BY <1>2, <2>3
  <2>5. \A j \in LiveSlots(entries') : entries'[j].key = l =>
          \E i \in LiveSlots(entries) : entries[i] = entries'[j]
    BY <1>2, <2>3
  <2>6. Lookup(entries, capacity, l) = Lookup(entries', capacity, l)
    <3> DEFINE f == entries'
    <3>1. capacity \in Nat
      OBVIOUS
    <3>2. f \in [0 .. capacity - 1 -> Slots] /\ Chained(f, capacity) /\ Unique(f)
      BY <2>1, <2>2
    <3>3. /\ \A i \in LiveSlots(entries) : entries[i].key = l =>
               \E j \in LiveSlots(f) : f[j] = entries[i]
          /\ \A j \in LiveSlots(f) : f[j].key = l =>
               \E i \in LiveSlots(entries) : entries[i] = f[j]
      BY <2>4, <2>5
    <3> HIDE DEF f
    <3>4. Lookup(entries, capacity, l) = Lookup(f, capacity, l)
      BY <3>1, <3>2, <3>3, LookupSame, ZenonT(30)
    <3>5. QED
      BY <3>4 DEF f
  <2>7. QED
    BY <1>2, <2>6
<1>3. QED
  BY <1>1, <1>2

-----------------------------------------------------------------------------
\* What each step does to the map a careful client sees.

\* What a step of HASHMAP_set without growth starts from.
LEMMA SetFacts ==
  ASSUME Careful, IInv, CInv, NEW k \in Keys, NEW v \in Values, Set(k, v)
  PROVE  /\ entries \in [0 .. capacity - 1 -> Slots] /\ capacity \in Nat \ {0}
         /\ Chained(entries, capacity) /\ Unique(entries)
         /\ size = Cardinality(LiveSlots(entries))
         /\ SetStops(entries, k) # {} /\ Store(k, v)
         /\ \/ TombSlots(entries) = {}
            \/ \A i \in LiveSlots(entries) : entries[i].key # k
         /\ pc = "idle" /\ pc' = "idle" /\ capacity' = capacity
<1>1. /\ capacity \in Nat \ {0} /\ entries \in [0 .. capacity - 1 -> Slots]
      /\ Chained(entries, capacity) /\ Unique(entries) /\ Counted
      /\ pc = "idle" /\ capacity' = capacity
  BY DEF Set, IInv, CInv, Crowded, TypeOK, ChainsUnbroken, Chained
<1>2. SetStops(entries, k) # {}
  BY <1>1, AlwaysUnusedSlot DEF EmptySlots, SetStops, IsLive
<1>3. Store(k, v) /\ pc' = "idle"
  BY <1>2 DEF Set
<1>4. ~Has(k) \/ TombSlots(entries) = {}
  BY DEF Set, MayStore
<1>5. TombSlots(entries) = {} \/ \A i \in LiveSlots(entries) : entries[i].key # k
  BY <1>1, <1>4, HasNot
<1>6. QED
  BY <1>1, <1>2, <1>3, <1>5 DEF Counted

\* What the steps of a growing HASHMAP_set start from.
LEMMA GrowingFacts ==
  ASSUME IInv, CInv, pc = "rehash"
  PROVE  /\ OldCapacity \in Nat /\ old \in [0 .. OldCapacity - 1 -> Slots]
         /\ entries \in [0 .. capacity - 1 -> Slots] /\ capacity \in Nat \ {0}
         /\ Chained(entries, capacity) /\ Unique(entries)
         /\ Chained(old, OldCapacity) /\ Unique(old) /\ Transferred
         /\ size = Cardinality(LiveSlots(entries))
         /\ TombSlots(entries) = {}
         /\ \A k \in Keys : SetStops(entries, k) # {}
         /\ pending[1] \in Keys /\ pending[2] \in Values
<1>1. PICK n \in 0 .. MaxCapacity : old \in [0 .. n - 1 -> Slots]
  BY DEF IInv, TypeOK
<1>2. n \in Nat /\ OldCapacity = n
  BY <1>1, TableFacts, HashAssumption DEF OldCapacity
<1>3. /\ entries \in [0 .. capacity - 1 -> Slots] /\ capacity \in Nat \ {0}
      /\ Growing /\ Counted /\ Chained(entries, capacity)
  BY <1>2 DEF IInv, TypeOK, Growing, ChainsUnbroken, Chained
<1>4. TombSlots(entries) = {}
  <2>1. IsFiniteSet(TombSlots(entries)) /\ Cardinality(TombSlots(entries)) \in Nat
    BY <1>3, TableFacts
  <2>2. Cardinality(TombSlots(entries)) = 0
    BY <1>3, <2>1 DEF Growing, Counted
  <2>3. QED
    BY <2>1, <2>2, FS_EmptySet
<1>5. \A k \in Keys : SetStops(entries, k) # {}
  BY <1>3, AlwaysUnusedSlot DEF EmptySlots, SetStops, IsLive
<1>6. pending[1] \in Keys /\ pending[2] \in Values
  BY <1>3 DEF Growing
<1>7. QED
  BY <1>1, <1>2, <1>3, <1>4, <1>5, <1>6 DEF CInv, Counted

\* A re-inserted key is a new key of the new table.
LEMMA ReinsertCInv ==
  ASSUME IInv, CInv, Reinsert
  PROVE  CInv'
<1>1. /\ pc = "rehash" /\ cursor \in DOMAIN old /\ cursor' = cursor + 1 /\ old' = old
      /\ capacity' = capacity
  BY DEF Reinsert
<1>2. /\ OldCapacity \in Nat /\ old \in [0 .. OldCapacity - 1 -> Slots]
      /\ entries \in [0 .. capacity - 1 -> Slots] /\ capacity \in Nat \ {0}
      /\ Chained(entries, capacity) /\ Unique(entries)
      /\ Chained(old, OldCapacity) /\ Unique(old) /\ Transferred
      /\ TombSlots(entries) = {}
      /\ \A k \in Keys : SetStops(entries, k) # {}
  BY <1>1, GrowingFacts
<1>3. cursor \in 0 .. OldCapacity - 1
  BY <1>1, <1>2
<1>4. OldCapacity' = OldCapacity /\ LiveSlots(old') = LiveSlots(old)
  BY <1>1 DEF OldCapacity
<1>5. CASE UNCHANGED <<entries>> /\ ~IsLive(old[cursor])
  <2>1. Passed' = Passed
    BY <1>1, <1>2, <1>3, <1>5 DEF Passed, LiveSlots
  <2>2. Transferred'
    BY <1>1, <1>2, <1>5, <2>1 DEF Transferred
  <2>3. QED
    BY <1>1, <1>2, <1>4, <1>5, <2>2 DEF CInv
<1>6. CASE IsLive(old[cursor]) /\ Store(old[cursor].key, old[cursor].value)
  <2> DEFINE k == old[cursor].key
             v == old[cursor].value
  <2>1. k \in Keys /\ v \in Values /\ old[cursor] = [key |-> k, value |-> v]
    BY <1>2, <1>3, <1>6, LiveIsPair
  <2>2. Store(k, v)
    BY <1>6
  <2>3. cursor \in LiveSlots(old) /\ cursor \notin Passed /\ Passed' = Passed \cup {cursor}
    BY <1>1, <1>2, <1>3, <1>6 DEF Passed, LiveSlots
  <2>4. \A i \in LiveSlots(entries) : entries[i].key # k
    BY <1>2, <2>3 DEF Transferred, Unique, Passed
  <2> HIDE DEF k, v
  <2>5. Unique(entries')
    BY <1>2, <2>1, <2>2, StoreSlot
  <2>6. PICK s \in LiveSlots(entries') :
              /\ entries'[s] = [key |-> k, value |-> v]
              /\ LiveSlots(entries') = LiveSlots(entries) \cup {s}
              /\ \A i \in LiveSlots(entries) : entries[i].key # k =>
                   i # s /\ entries'[i] = entries[i]
    BY <1>2, <2>1, <2>2, StoreSlot
  <2>7. \A i \in LiveSlots(entries) : i # s /\ entries'[i] = entries[i]
    BY <2>4, <2>6
  <2>8. Transferred'
    <3>1. \A i \in Passed : \E j \in LiveSlots(entries') : entries'[j] = old[i]
      BY <1>2, <2>6, <2>7 DEF Transferred
    <3>2. \A i \in Passed \cup {cursor} : \E j \in LiveSlots(entries') : entries'[j] = old[i]
      BY <2>1, <2>6, <3>1
    <3>3. \A j \in LiveSlots(entries') : \E i \in Passed \cup {cursor} : entries'[j] = old[i]
      BY <1>2, <2>1, <2>6, <2>7 DEF Transferred
    <3>4. QED
      BY <1>1, <2>3, <3>2, <3>3 DEF Transferred
  <2>9. QED
    BY <1>1, <1>2, <1>4, <2>5, <2>8 DEF CInv, Unique, Chained
<1>7. CASE pc' \in {"nested", "spinning"}
  BY <1>7, ReinsertInv DEF IInv
<1>8. QED
  BY <1>5, <1>6, <1>7 DEF Reinsert

\* No careful step gives a key a second slot.
LEMMA NextCInv ==
  ASSUME Careful, IInv, CInv, [Next]_vars
  PROVE  CInv'
<1>1. CASE UNCHANGED vars
  BY <1>1 DEF vars, CInv, Unique, Chained, Transferred, Passed, OldCapacity
<1>2. ASSUME NEW k \in Keys, NEW v \in Values, Set(k, v)
      PROVE  CInv'
  <2>1. Unique(entries')
    BY <1>2, SetFacts, StoreSlot
  <2>2. pc' # "rehash"
    BY <1>2, SetFacts
  <2>3. QED
    BY <2>1, <2>2 DEF CInv, Unique
<1>3. ASSUME NEW k \in Keys, NEW v \in Values, SetGrow(k, v)
      PROVE  CInv'
  <2>1. /\ old' = entries /\ cursor' = 0
        /\ entries' = [i \in 0 .. (IF capacity = 0 THEN 2 ELSE capacity * 2) - 1 |-> Empty]
    BY <1>3 DEF SetGrow, NewTable
  <2>2. /\ entries \in [0 .. capacity - 1 -> Slots] /\ capacity \in Nat
        /\ Chained(entries, capacity) /\ Unique(entries)
    BY DEF IInv, CInv, TypeOK, ChainsUnbroken, Chained
  <2>3. LiveSlots(entries') = {}
    BY <2>1 DEF LiveSlots, IsLive
  <2>4. Passed' = {}
    BY <2>1, <2>2 DEF Passed, LiveSlots
  <2>5. OldCapacity' = capacity
    BY <2>1, <2>2, TableFacts DEF OldCapacity
  <2>6. Unique(entries') /\ Transferred'
    BY <2>3, <2>4 DEF Unique, Transferred
  <2>7. QED
    BY <2>1, <2>2, <2>5, <2>6 DEF CInv, Unique, Chained
<1>4. CASE SetGrown
  <2>1. pc = "rehash" /\ pc' # "rehash"
    BY <1>4, SetGrownInv DEF SetGrown, IInv
  <2>2. Store(pending[1], pending[2])
    BY <1>4, <2>1, GrowingFacts DEF SetGrown
  <2>3. Unique(entries')
    BY <2>1, <2>2, GrowingFacts, StoreSlot
  <2>4. QED
    BY <2>1, <2>3 DEF CInv, Unique
<1>5. ASSUME NEW k \in Keys, GetMissing(k)
      PROVE  CInv'
  BY <1>5 DEF GetMissing, NotFound, CInv, Unique
<1>6. ASSUME NEW k \in Keys, Remove(k)
      PROVE  CInv'
  <2>1. pc = "idle" /\ pc' # "rehash"
    BY <1>6 DEF Remove, NotFound
  <2>2. \A i \in LiveSlots(entries') : i \in LiveSlots(entries) /\ entries'[i] = entries[i]
    <3>1. entries \in [0 .. capacity - 1 -> Slots]
      BY DEF IInv, TypeOK
    <3>2. QED
      BY <1>6, <3>1 DEF Remove, Removed, LiveSlots, IsLive
  <2>3. QED
    BY <2>1, <2>2 DEF CInv, Unique
<1>7. CASE Clear
  BY <1>7 DEF Clear, CInv, Unique, NoTable, LiveSlots
<1>8. QED
  BY <1>1, <1>2, <1>3, <1>4, <1>5, <1>6, <1>7, ReinsertCInv DEF Next, Growth

\* An empty map has no key twice.
LEMMA InitCInv == Init => CInv
BY DEF Init, CInv, Unique, NoTable, LiveSlots

\* No key of a careful client occupies two slots.
THEOREM KeysHaveOneSlot ==
  ASSUME Careful
  PROVE  Spec => []OneSlotPerKey
<1>1. IInv /\ CInv => OneSlotPerKey
  BY DEF CInv, Unique, OneSlotPerKey
<1>2. Init => IInv /\ CInv
  BY InitInv, InitCInv
<1>3. IInv /\ CInv /\ [Next]_vars => IInv' /\ CInv'
  BY NextInv, NextCInv
<1>4. QED
  BY <1>1, <1>2, <1>3, PTL DEF Spec

-----------------------------------------------------------------------------
\* The refinement.

\* Before the first set the dictionary is empty.
LEMMA InitDict == Init => Dict!Init
<1> SUFFICES ASSUME Init PROVE Dict!Init
  OBVIOUS
<1>1. \A k \in Keys : GetStops(entries, k) = {}
  BY DEF Init, NoTable, GetStops
<1>2. pc = "idle"
  BY DEF Init
<1>3. QED
  BY <1>1, <1>2 DEF Dict!Init, Current, Lookup

\* A table that stores a pair is the dictionary after a put.
LEMMA StoreDict ==
  ASSUME NEW D \in [Keys -> Values \cup {NoValue}],
         NEW k \in Keys, NEW v \in Values, Current = D,
         pc' # "rehash",
         \A l \in Keys : Lookup(entries', capacity', l) = IF l = k THEN v ELSE D[l]
  PROVE  Dict!Next
<1>1. Current' = [l \in Keys |-> IF l = k THEN v ELSE D[l]]
  BY DEF Current
<1>2. Current' = [Current EXCEPT ![k] = v]
  BY <1>1
<1>3. Dict!Put(k, v)
  BY <1>2 DEF Dict!Put
<1>4. QED
  BY <1>3 DEF Dict!Next

\* What a lookup can return.
LEMMA LookupType ==
  ASSUME NEW n \in Nat, NEW e \in [0 .. n - 1 -> Slots], NEW k \in Keys
  PROVE  Lookup(e, n, k) \in Values \cup {NoValue}
<1>1. CASE Lookup(e, n, k) = NoValue
  BY <1>1
<1>2. CASE Lookup(e, n, k) # NoValue
  <2> DEFINE s == FirstOf(GetStops(e, k), k, n)
  <2>1. GetStops(e, k) # {} /\ s \in LiveSlots(e)
    BY <1>2, LookupStops
  <2>2. Lookup(e, n, k) = e[s].value
    BY <1>2, <2>1 DEF Lookup
  <2> HIDE DEF s
  <2>3. e[s] \in Slots /\ IsLive(e[s])
    BY <2>1 DEF LiveSlots
  <2>4. QED
    BY <2>2, <2>3, LiveIsPair
<1>3. QED
  BY <1>1, <1>2

\* The set of a careful client puts one pair.
LEMMA SetDict ==
  ASSUME Careful, IInv, CInv, NEW k \in Keys, NEW v \in Values, Set(k, v)
  PROVE  Dict!Next
<1> DEFINE D == [l \in Keys |-> Lookup(entries, capacity, l)]
<1>1. \A l \in Keys : Lookup(entries', capacity', l) = IF l = k THEN v ELSE D[l]
  <2>1. \A l \in Keys : Lookup(entries', capacity, l) = IF l = k THEN v
                                                      ELSE Lookup(entries, capacity, l)
    BY SetFacts, StoreLookup
  <2>2. QED
    BY <2>1, SetFacts
<1>2. Current = D /\ pc' # "rehash"
  BY SetFacts DEF Current
<1>3. D \in [Keys -> Values \cup {NoValue}]
  BY SetFacts, LookupType
<1> HIDE DEF D
<1>4. QED
  BY <1>1, <1>2, <1>3, StoreDict

\* At the end of a growth the new table holds the pairs of the old one.
LEMMA AllTransferred ==
  ASSUME IInv, CInv, pc = "rehash", cursor \notin DOMAIN old, NEW l \in Keys
  PROVE  Lookup(old, OldCapacity, l) = Lookup(entries, capacity, l)
<1>1. /\ OldCapacity \in Nat /\ old \in [0 .. OldCapacity - 1 -> Slots]
      /\ entries \in [0 .. capacity - 1 -> Slots] /\ capacity \in Nat
      /\ Chained(entries, capacity) /\ Unique(entries)
      /\ Chained(old, OldCapacity) /\ Unique(old) /\ Transferred
  BY GrowingFacts
<1>2. cursor \in Nat
  BY DEF IInv, TypeOK
<1>3. Passed = LiveSlots(old)
  BY <1>1, <1>2 DEF Passed, LiveSlots
<1>4. /\ \A i \in LiveSlots(old) : \E j \in LiveSlots(entries) : entries[j] = old[i]
      /\ \A j \in LiveSlots(entries) : \E i \in LiveSlots(old) : old[i] = entries[j]
  BY <1>1, <1>3 DEF Transferred
<1>5. QED
  BY <1>1, <1>4, LookupSame

\* The end of a set that had to grow puts one pair.
LEMMA SetGrownDict ==
  ASSUME IInv, CInv, SetGrown
  PROVE  Dict!Next
<1> DEFINE D == [l \in Keys |-> Lookup(old, OldCapacity, l)]
           k == pending[1]
           v == pending[2]
<1>1. /\ pc = "rehash" /\ cursor \notin DOMAIN old /\ capacity' = capacity
      /\ pc' # "rehash"
  BY SetGrownInv DEF SetGrown, IInv
<1>2. k \in Keys /\ v \in Values /\ SetStops(entries, k) # {} /\ Store(k, v)
  BY <1>1, GrowingFacts DEF SetGrown
<1> HIDE DEF k, v
<1>3. \A l \in Keys : Lookup(entries', capacity, l) = IF l = k THEN v
                                                     ELSE Lookup(entries, capacity, l)
  BY <1>1, <1>2, GrowingFacts, StoreLookup
<1>4. \A l \in Keys : Lookup(entries', capacity', l) = IF l = k THEN v ELSE D[l]
  BY <1>1, <1>3, AllTransferred
<1>5. Current = D
  BY <1>1 DEF Current, OldCapacity
<1>6. D \in [Keys -> Values \cup {NoValue}]
  BY <1>1, GrowingFacts, LookupType
<1> HIDE DEF D
<1>7. QED
  BY <1>1, <1>2, <1>4, <1>5, <1>6, StoreDict

\* HASHMAP_remove deletes one key.
LEMMA RemoveDict ==
  ASSUME Careful, IInv, CInv, NEW k \in Keys, Remove(k)
  PROVE  Dict!Next
<1> DEFINE s == FirstOf(GetStops(entries, k), k, capacity)
           D == [l \in Keys |-> Lookup(entries, capacity, l)]
<1>1. pc = "idle" /\ UNCHANGED <<capacity, old, cursor, pending, allocated>>
  BY DEF Remove
<1>2. /\ entries \in [0 .. capacity - 1 -> Slots] /\ capacity \in Nat
      /\ Chained(entries, capacity) /\ Unique(entries)
  BY DEF IInv, CInv, TypeOK, ChainsUnbroken, Chained
<1>3. Lookup(entries, capacity, k) # NoValue
  BY DEF Remove, MayAsk, Has
<1>4. s \in LiveSlots(entries) /\ entries[s].key = k
  BY <1>2, <1>3, LookupStops
<1>5. entries' = [entries EXCEPT ![s] = Tomb] /\ pc' = pc
  BY <1>3 DEF Remove, Removed
<1> HIDE DEF s
<1>6. s \in 0 .. capacity - 1 /\ IsLive(entries[s])
  BY <1>2, <1>4 DEF LiveSlots
<1>7. /\ entries' \in [0 .. capacity - 1 -> Slots] /\ entries'[s] = Tomb
      /\ \A i \in 0 .. capacity - 1 : i # s => entries'[i] = entries[i]
  <2>1. Tomb \in Slots
    BY DEF Slots
  <2>2. QED
    BY <1>2, <1>5, <1>6, <2>1
<1>8. LiveSlots(entries') = LiveSlots(entries) \ {s}
  BY <1>2, <1>6, <1>7, EraseSlot
<1>9. \A i \in LiveSlots(entries') :
        i \in LiveSlots(entries) /\ entries'[i] = entries[i] /\ entries[i].key # k
  <2>1. \A i \in LiveSlots(entries) : i \in 0 .. capacity - 1
    BY <1>2 DEF LiveSlots
  <2>2. \A i \in LiveSlots(entries) : i # s => entries[i].key # k
    BY <1>2, <1>4 DEF Unique
  <2>3. QED
    BY <1>7, <1>8, <2>1, <2>2
<1>10. Chained(entries', capacity) /\ Unique(entries')
  BY <1>1, RemoveInv, NextCInv DEF Next, IInv, CInv, ChainsUnbroken, Chained, Unique
<1>11. Lookup(entries', capacity, k) = NoValue
  BY <1>2, <1>7, <1>9, LookupNone
<1>12. ASSUME NEW l \in Keys, l # k
       PROVE  Lookup(entries', capacity, l) = Lookup(entries, capacity, l)
  <2> DEFINE f == entries'
  <2>1. /\ \A i \in LiveSlots(entries) : entries[i].key = l =>
             \E j \in LiveSlots(f) : f[j] = entries[i]
        /\ \A j \in LiveSlots(f) : f[j].key = l =>
             \E i \in LiveSlots(entries) : entries[i] = f[j]
    BY <1>4, <1>8, <1>9, <1>12
  <2>2. f \in [0 .. capacity - 1 -> Slots] /\ Chained(f, capacity) /\ Unique(f)
    BY <1>7, <1>10
  <2> HIDE DEF f
  <2>3. Lookup(entries, capacity, l) = Lookup(f, capacity, l)
    BY <1>2, <2>1, <2>2, LookupSame
  <2>4. QED
    BY <2>3 DEF f
<1>13. Current = D /\ Current' = [l \in Keys |-> Lookup(entries', capacity', l)]
  BY <1>1, <1>5 DEF Current
<1>14. Current' = [Current EXCEPT ![k] = NoValue]
  BY <1>1, <1>11, <1>12, <1>13
<1>15. Dict!Delete(k)
  BY <1>3, <1>13, <1>14 DEF Dict!Delete
<1>16. QED
  BY <1>15 DEF Dict!Next

\* Every step of a careful client is a step of the dictionary or none.
LEMMA NextDict ==
  ASSUME Careful, IInv, CInv, [Next]_vars
  PROVE  [Dict!Next]_Current
<1>1. CASE UNCHANGED vars
  BY <1>1 DEF vars, Current
<1>2. ASSUME NEW k \in Keys, NEW v \in Values, Set(k, v)
      PROVE  Dict!Next
  BY <1>2, SetDict
<1>3. ASSUME NEW k \in Keys, NEW v \in Values, SetGrow(k, v)
      PROVE  UNCHANGED Current
  <2>1. entries \in [0 .. capacity - 1 -> Slots] /\ capacity \in Nat
    BY DEF IInv, TypeOK
  <2>2. Cardinality(DOMAIN entries) = capacity
    BY <2>1, TableFacts
  <2>3. pc = "idle" /\ pc' = "rehash" /\ old' = entries
    BY <1>3 DEF SetGrow
  <2>4. QED
    BY <2>2, <2>3 DEF Current
<1>4. CASE Reinsert
  <2>1. pc = "rehash" /\ old' = old /\ pc' = "rehash"
    BY <1>4, ReinsertInv DEF Reinsert, IInv
  <2>2. QED
    BY <2>1 DEF Current
<1>5. CASE SetGrown
  BY <1>5, SetGrownDict
<1>6. ASSUME NEW k \in Keys, GetMissing(k)
      PROVE  UNCHANGED Current
  BY <1>6 DEF GetMissing, NotFound, Current
<1>7. ASSUME NEW k \in Keys, Remove(k)
      PROVE  Dict!Next
  BY <1>7, RemoveDict
<1>8. CASE Clear
  <2>1. pc' # "rehash" /\ \A k \in Keys : GetStops(entries', k) = {}
    BY <1>8 DEF Clear, NoTable, GetStops
  <2>2. Dict!Drop
    BY <2>1 DEF Dict!Drop, Current, Lookup
  <2>3. QED
    BY <2>2 DEF Dict!Next
<1>9. QED
  BY <1>1, <1>2, <1>3, <1>4, <1>5, <1>6, <1>7, <1>8 DEF Next, Growth

\* The hash map of a careful client is a dictionary: HASHMAP_set, _remove and
\* _clear change exactly what they are called for, and growing, probing,
\* tombstones and collisions are invisible.
THEOREM DictImplemented ==
  ASSUME Careful
  PROVE  Spec => ImplementsDict
<1>1. Init => IInv /\ CInv
  BY InitInv, InitCInv
<1>2. IInv /\ CInv /\ [Next]_vars => IInv' /\ CInv'
  BY NextInv, NextCInv
<1>3. IInv /\ CInv /\ [Next]_vars => [Dict!Next]_Current
  BY NextDict
<1>4. QED
  BY <1>1, <1>2, <1>3, InitDict, PTL DEF Spec, ImplementsDict, Dict!Spec

=============================================================================
