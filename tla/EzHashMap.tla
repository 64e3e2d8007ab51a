----------------------------- MODULE EzHashMap ------------------------------
(***************************************************************************)
(* The open-addressing hash table of include/easyobjects.h (macro          *)
(* IMPL_HASHMAP): linear probing, tombstones, doubling when more than 70%  *)
(* of the slots would be in use.                                           *)
(*                                                                         *)
(* A call is one step, except HASHMAP_set when it has to grow: its         *)
(* re-insertion loop is a step per old slot, between the step that swaps   *)
(* the tables and the step that frees the old one and stores the new pair. *)
(* A slot is Empty (used = 0), Tomb (used = 2: its key and value are never *)
(* read again) or a record (used = 1).  The capacity is a power of two, so *)
(* `x & (capacity - 1)' is `x % capacity'.                                 *)
(***************************************************************************)
EXTENDS EzMemory, FiniteSets

CONSTANTS
  Keys, Values,
  Hash,          \* hashfunc: any function from keys to naturals
  Empty, Tomb,   \* the two slot contents that hold no pair
  NoValue,       \* "not in the map"
  MaxCapacity,   \* bound: the table never grows beyond this many slots
  Careful        \* does the client keep to the discipline below?

ASSUME HashAssumption ==
  /\ Hash \in [Keys -> Nat]
  /\ NoValue \notin Values
  /\ Empty # Tomb
  /\ \A k \in Keys, v \in Values : [key |-> k, value |-> v] \notin {Empty, Tomb}
  /\ MaxCapacity \in Nat
  /\ Careful \in BOOLEAN

VARIABLES
  entries,      \* map->entries, a function on 0 .. capacity - 1
  capacity,     \* map->capacity
  size,         \* map->size
  tombstones,   \* map->tombstones
  old,          \* old_entries, while HASHMAP_set re-inserts them
  cursor,       \* the loop index i of that re-insertion
  pending,      \* the pair that set was called with
  allocated,    \* EZ_ALLOCATED(), counting from the empty map
  pc            \* where the calling thread is, or how it ended

vars == <<entries, capacity, size, tombstones, old, cursor, pending, allocated, pc>>

Pairs == [key : Keys, value : Values]
Slots == Pairs \cup {Empty, Tomb}
NoTable == [i \in {} |-> Empty]           \* map->entries = NULL
NoPair == <<>>

IsLive(slot) == slot \notin {Empty, Tomb}
LiveSlots(e) == {i \in DOMAIN e : IsLive(e[i])}
TombSlots(e) == {i \in DOMAIN e : e[i] = Tomb}
EmptySlots(e) == {i \in DOMAIN e : e[i] = Empty}

-----------------------------------------------------------------------------
\* Probing.  Every loop starts at hash & (capacity - 1) and steps by one with
\* wrap-around until it meets a slot of its stop set.
Home(k, cap) == Hash[k] % cap

\* How many steps the loop takes from the home of k to slot i.
Distance(k, i, cap) == IF i >= Home(k, cap) THEN i - Home(k, cap)
                                            ELSE i - Home(k, cap) + cap

\* The first slot of `stops' the loop meets.
FirstOf(stops, k, cap) ==
  CHOOSE i \in stops : \A j \in stops : Distance(k, i, cap) <= Distance(k, j, cap)

\* Mutants: set does not compare keys, or does not wrap round at the end of
\* the table.
SetStopsUnused(e, k) == {i \in DOMAIN e : ~IsLive(e[i])}
SetStopsNoWrap(e, k) == {i \in DOMAIN e :
                           /\ i >= Home(k, Cardinality(DOMAIN e))
                           /\ IsLive(e[i]) => e[i].key = k}

\* HASHMAP_set stops at a slot that is not in use, or that has its key.
SetStops(e, k) == {i \in DOMAIN e : IsLive(e[i]) => e[i].key = k}

\* HASHMAP_has, _get, _ref and _remove pass over tombstones.
GetStops(e, k) == {i \in DOMAIN e : \/ e[i] = Empty
                                    \/ IsLive(e[i]) /\ e[i].key = k}

\* What HASHMAP_get finds for k in a table of cap slots.
Lookup(e, cap, k) ==
  IF GetStops(e, k) = {} THEN NoValue
  ELSE LET slot == e[FirstOf(GetStops(e, k), k, cap)]
       IN  IF slot = Empty THEN NoValue ELSE slot.value

\* HASHMAP_has (and HASHMAP_ref # NULL)
Has(k) == size # 0 /\ Lookup(entries, capacity, k) # NoValue

-----------------------------------------------------------------------------
\* Mutant: the load factor leaves the tombstones out.
CrowdedByPairs == capacity = 0 \/ 10 * (size + 1) > 7 * capacity

\* (size + tombstones + 1) / capacity > 0.7: exact, capacity being a power of 2
Crowded == capacity = 0 \/ 10 * (size + tombstones + 1) > 7 * capacity

\* Mutant: a growing set does not start a new count of tombstones.
NewTableKeepsCount(cap) ==
  /\ entries' = [i \in 0 .. cap - 1 |-> Empty]
  /\ capacity' = cap
  /\ size' = 0
  /\ UNCHANGED tombstones

\* The empty table a growing HASHMAP_set begins with.
NewTable(cap) ==
  /\ entries' = [i \in 0 .. cap - 1 |-> Empty]
  /\ capacity' = cap
  /\ size' = 0
  /\ tombstones' = 0

\* Mutant: HASHMAP_remove makes the slot unused instead of a tombstone.
RemovedUnused == Empty

\* What HASHMAP_remove leaves in a slot (used = 2).
Removed == Tomb

\* Mutants: a set that never counts, always counts, keeps an old value, or
\* begins where the key was at home in the old table.
StoreUncounted(k, v) ==
  LET slot == FirstOf(SetStops(entries, k), k, capacity)
  IN  /\ entries' = [entries EXCEPT ![slot] = [key |-> k, value |-> v]]
      /\ size' = size
StoreCounted(k, v) ==
  LET slot == FirstOf(SetStops(entries, k), k, capacity)
  IN  /\ entries' = [entries EXCEPT ![slot] = [key |-> k, value |-> v]]
      /\ size' = size + 1
StoreNew(k, v) ==
  LET slot == FirstOf(SetStops(entries, k), k, capacity)
  IN  IF IsLive(entries[slot]) THEN UNCHANGED <<entries, size>>
      ELSE /\ entries' = [entries EXCEPT ![slot] = [key |-> k, value |-> v]]
           /\ size' = size + 1
StoreOldHome(k, v) ==
  LET cap  == IF old = NoTable THEN capacity ELSE Cardinality(DOMAIN old)
      slot == FirstOf(SetStops(entries, k), k, cap)
  IN  /\ entries' = [entries EXCEPT ![slot] = [key |-> k, value |-> v]]
      /\ size' = IF IsLive(entries[slot]) THEN size ELSE size + 1

\* The tail of HASHMAP_set: store the pair where the loop stops.
Store(k, v) ==
  LET slot == FirstOf(SetStops(entries, k), k, capacity)
  IN  /\ entries' = [entries EXCEPT ![slot] = [key |-> k, value |-> v]]
      /\ size' = IF IsLive(entries[slot]) THEN size ELSE size + 1

\* The client discipline: read and remove only keys that are there, and do not
\* replace the value of a key while the table has tombstones.
MayStore(k) == Careful => ~Has(k) \/ TombSlots(entries) = {}
MayAsk(k) == Careful => Has(k)

Init ==
  /\ entries = NoTable /\ capacity = 0 /\ size = 0 /\ tombstones = 0
  /\ old = NoTable /\ cursor = 0 /\ pending = NoPair
  /\ allocated = 0
  /\ pc = "idle"

\* HASHMAP_set without growth.  A loop with nowhere to stop never returns.
Set(k, v) ==
  /\ pc = "idle" /\ MayStore(k) /\ ~Crowded
  /\ IF SetStops(entries, k) = {}
     THEN pc' = "spinning" /\ UNCHANGED <<entries, size>>
     ELSE Store(k, v) /\ pc' = "idle"
  /\ UNCHANGED <<capacity, tombstones, old, cursor, pending, allocated>>

\* HASHMAP_set that grows: swap in an empty table of twice the size.
SetGrow(k, v) ==
  LET cap == IF capacity = 0 THEN 2 ELSE capacity * 2
  IN  /\ pc = "idle" /\ MayStore(k) /\ Crowded
      /\ cap <= MaxCapacity
      /\ old' = entries
      /\ cursor' = 0
      /\ pending' = <<k, v>>
      /\ NewTable(cap)
      /\ allocated' = Allocated(allocated, cap)
      /\ pc' = "rehash"

\* One turn of the re-insertion loop: HASHMAP_set calls itself, and that call
\* would grow the table again if it were crowded.
Reinsert ==
  /\ pc = "rehash" /\ cursor \in DOMAIN old
  /\ IF ~IsLive(old[cursor])
     THEN UNCHANGED <<entries, size, pc>>
     ELSE IF Crowded
     THEN pc' = "nested" /\ UNCHANGED <<entries, size>>
     ELSE IF SetStops(entries, old[cursor].key) = {}
     THEN pc' = "spinning" /\ UNCHANGED <<entries, size>>
     ELSE Store(old[cursor].key, old[cursor].value) /\ UNCHANGED pc
  /\ cursor' = cursor + 1
  /\ UNCHANGED <<capacity, tombstones, old, pending, allocated>>

\* The loop is over: free the old table (EZ_FREE(NULL) does nothing) and store.
SetGrown ==
  /\ pc = "rehash" /\ cursor \notin DOMAIN old
  /\ IF SetStops(entries, pending[1]) = {}
     THEN pc' = "spinning" /\ UNCHANGED <<entries, size>>
     ELSE Store(pending[1], pending[2]) /\ pc' = "idle"
  /\ allocated' = IF old = NoTable THEN allocated ELSE Freed(allocated, Cardinality(DOMAIN old))
  /\ old' = NoTable
  /\ cursor' = 0
  /\ pending' = NoPair
  /\ UNCHANGED <<capacity, tombstones>>

\* The outcome of the loop shared by HASHMAP_get and HASHMAP_remove when it
\* does not find k: with no table it indexes a null pointer, with no stop it
\* never returns, otherwise EZ_FATAL ends the process.
NotFound(k) == IF capacity = 0 THEN "null"
               ELSE IF GetStops(entries, k) = {} THEN "spinning"
               ELSE "fatal"

\* HASHMAP_get of a key that is absent (of a key that is present: no change).
GetMissing(k) ==
  /\ pc = "idle" /\ MayAsk(k)
  /\ Lookup(entries, capacity, k) = NoValue
  /\ pc' = NotFound(k)
  /\ UNCHANGED <<entries, capacity, size, tombstones, old, cursor, pending, allocated>>

\* HASHMAP_remove
Remove(k) ==
  /\ pc = "idle" /\ MayAsk(k)
  /\ IF Lookup(entries, capacity, k) = NoValue
     THEN pc' = NotFound(k) /\ UNCHANGED <<entries, size, tombstones>>
     ELSE /\ entries' = [entries EXCEPT ![FirstOf(GetStops(entries, k), k, capacity)] = Removed]
          /\ tombstones' = tombstones + 1
          /\ size' = size - 1
          /\ UNCHANGED pc
  /\ UNCHANGED <<capacity, old, cursor, pending, allocated>>

\* HASHMAP_clear: map->tombstones keeps its value.
Clear ==
  /\ pc = "idle"
  /\ entries' = NoTable
  /\ size' = 0
  /\ capacity' = 0
  /\ allocated' = IF capacity = 0 THEN allocated ELSE Freed(allocated, capacity)
  /\ UNCHANGED <<tombstones, old, cursor, pending, pc>>

Growth == Reinsert \/ SetGrown

Next ==
  \/ \E k \in Keys, v \in Values : Set(k, v) \/ SetGrow(k, v)
  \/ \E k \in Keys : GetMissing(k) \/ Remove(k)
  \/ Growth
  \/ Clear

Spec == Init /\ [][Next]_vars

\* The thread that is inside HASHMAP_set runs its loop to the end.
FairSpec == Spec /\ WF_vars(Growth)

-----------------------------------------------------------------------------
\* Properties that hold whatever the client does.

\* Type invariant: the state is a HASHMAP_* and the thread is in one place.
TypeOK ==
  /\ capacity \in Nat /\ size \in Nat /\ tombstones \in Nat /\ allocated \in Nat
  /\ entries \in [0 .. capacity - 1 -> Slots]
  /\ \E n \in 0 .. MaxCapacity : old \in [0 .. n - 1 -> Slots]
  /\ cursor \in Nat
  /\ pending \in (Keys \X Values) \cup {NoPair}
  /\ pc \in {"idle", "rehash", "nested", "spinning", "null", "fatal"}

\* map->size is the number of slots in use; map->tombstones never undercounts
\* the tombstones (a set that lands on one does not take it off the count).
Counted ==
  /\ size = Cardinality(LiveSlots(entries))
  /\ Cardinality(TombSlots(entries)) <= tombstones

\* The load factor leaves every table an unused slot, so no probing loop of
\* set, has, get, ref or remove can go round for ever.
ProbesStop ==
  /\ capacity # 0 => EmptySlots(entries) # {}
  /\ pc # "spinning"

\* The HASHMAP_set calls made while re-inserting never grow the table again.
NoNestedGrowth == pc # "nested"

\* Removing, overwriting and growing never break a probe chain: between the
\* home of a key and the slot that holds it there is no unused slot.
ChainsUnbroken ==
  \A i \in LiveSlots(entries), j \in EmptySlots(entries) :
    Distance(entries[i].key, i, capacity) < Distance(entries[i].key, j, capacity)

\* EZ_ALLOCATED() is the size of the tables the map can still free.
MemoryBalanced ==
  allocated = (IF capacity = 0 THEN 0 ELSE Block(capacity))
              + (IF old = NoTable THEN 0 ELSE Block(Cardinality(DOMAIN old)))

\* A growing map forgets no key it has already passed over.
GrowthKeepsKeys ==
  pc = "rehash" =>
    \A i \in LiveSlots(old) :
      i < cursor => Lookup(entries, capacity, old[i].key) # NoValue

\* A set is visible to the next get of the same key, grown table or not.
SetIsVisible ==
  [][ /\ \A k \in Keys, v \in Values : Set(k, v) => Lookup(entries', capacity', k) = v
      /\ SetGrown => Lookup(entries', capacity', pending[1]) = pending[2] ]_vars

-----------------------------------------------------------------------------
\* Properties of a map whose client keeps to the discipline (Careful).

\* No key occupies two slots.
OneSlotPerKey ==
  \A i, j \in LiveSlots(entries) : entries[i].key = entries[j].key => i = j

\* The dictionary the map stands for; while it grows, it is the old table.
Current == IF pc = "rehash"
           THEN [k \in Keys |-> Lookup(old, Cardinality(DOMAIN old), k)]
           ELSE [k \in Keys |-> Lookup(entries, capacity, k)]

Dict == INSTANCE EzDict WITH dict <- Current

\* The hash map implements a dictionary: set, remove and clear change exactly
\* the key they are called for, and growing changes nothing.
ImplementsDict == Dict!Spec

\* A set that had to grow the table comes to its end.
GrowthEnds == pc = "rehash" ~> pc = "idle"

-----------------------------------------------------------------------------
\* What the tests and messages of the repository say, for any client.

\* "Filled hashmap remove 1": after HASHMAP_remove(k), HASHMAP_has(k) is false.
RemoveForgets ==
  [][\A k \in Keys : Remove(k) => Lookup(entries', capacity', k) = NoValue]_vars

=============================================================================
