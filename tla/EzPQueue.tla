------------------------------ MODULE EzPQueue ------------------------------
(***************************************************************************)
(* The priority queue of include/easyobjects.h (macro IMPL_PQUEUE): a      *)
(* binary heap of references (`refs') into an array of nodes (`list').  A  *)
(* node keeps the heap position of its reference in `index', so that       *)
(* PQUEUE_update can find it from its place in the list, the handle.       *)
(*                                                                         *)
(* The body of each call is one step; every turn of the loops of heapU and *)
(* heapD it ends with is a step of its own (pc = "up" or "down").  Costs   *)
(* are floats in the code and integers here: NaN is left out.              *)
(***************************************************************************)
EXTENDS EzMemory, FiniteSets

CONSTANTS
  Values, Costs,
  Zero,          \* the value of a node of zeroed memory
  Nothing,       \* popped before the first pop
  MaxBuild,      \* bound: PQUEUE_build is called with at most this many pairs
  MaxCapacity,   \* bound: the arrays never grow beyond this many nodes
  MaxBytes,      \* bound: nor does EZ_ALLOCATED(), which a leak would raise
  Careful        \* does the client keep to the discipline below?

ASSUME PQueueAssumption ==
  /\ Costs \subseteq Int
  /\ MaxCapacity \in Nat /\ MaxBytes \in Nat
  /\ MaxBuild \in 0 .. MaxCapacity
  /\ Careful \in BOOLEAN

VARIABLES
  list,        \* pq->list, a function on 0 .. capacity - 1
  refs,        \* pq->refs, likewise
  size,        \* pq->size
  capacity,    \* pq->capacity
  made,        \* pq->list # NULL
  cur,         \* the position i of the running heapU or heapD
  todo,        \* the loop index i of PQUEUE_build, 0 outside of it
  popped,      \* what the last PQUEUE_pop returned
  allocated,   \* EZ_ALLOCATED(), counting from the empty queue
  pc           \* "idle", in heapU ("up"), in heapD ("down"), or "failed"

vars == <<list, refs, size, capacity, made, cur, todo, popped, allocated, pc>>

Node(v, c, i) == [value |-> v, cost |-> c, index |-> i]
ZeroNode == Node(Zero, 0, 0)
NoNodes == [i \in {} |-> ZeroNode]
NoRefs == [i \in {} |-> 0]

Positions == 0 .. size - 1
Live == {refs[j] : j \in Positions}      \* the nodes that are in the queue
CostAt(j) == list[refs[j]].cost
Parent(j) == (j - 1) \div 2

\* The client discipline: pop and update only what is queued, build only on a
\* cleared queue and not from nothing, and insert only while the node that
\* insert will take, list[size], is not in use.
MayInsert == Careful => size \notin Live
MayPop == Careful => size > 0
MayUpdate(h) == Careful => h \in Live
MayBuild(n) == Careful => ~made /\ n > 0

-----------------------------------------------------------------------------
Init ==
  /\ list = NoNodes /\ refs = NoRefs
  /\ size = 0 /\ capacity = 0 /\ made = FALSE
  /\ cur = 0 /\ todo = 0
  /\ popped = Nothing
  /\ allocated = 0
  /\ pc = "idle"

\* PQUEUE_build up to its loop, which calls heapD for n/2 - 1 down to 0.
Build(n, pairs) ==
  /\ pc = "idle" /\ MayBuild(n)
  /\ size' = n /\ capacity' = n
  /\ list' = [i \in 0 .. n - 1 |-> Node(pairs[i].value, pairs[i].cost, i)]
  /\ refs' = [i \in 0 .. n - 1 |-> i]
  /\ made' = TRUE
  /\ allocated' = Allocated(Allocated(allocated, n), n)
  /\ allocated' <= MaxBytes
  /\ IF n >= 2
     THEN pc' = "down" /\ cur' = n \div 2 - 1 /\ todo' = n \div 2 - 1
     ELSE UNCHANGED <<pc, cur, todo>>
  /\ UNCHANGED popped

\* The arrays double when they are full; capacity 0 first becomes 1.
Grown(f, cap, zero) == [i \in 0 .. cap - 1 |-> IF i < capacity THEN f[i] ELSE zero]

\* PQUEUE_insert up to its call of heapU.
Insert(v, c) ==
  LET full == size >= capacity
      from == IF capacity = 0 THEN 1 ELSE capacity
      cap  == IF full THEN from * 2 ELSE capacity
      acc  == IF capacity = 0 THEN Allocated(Allocated(allocated, 1), 1) ELSE allocated
  IN  /\ pc = "idle" /\ MayInsert
      /\ cap <= MaxCapacity
      /\ capacity' = cap
      /\ list' = [Grown(list, cap, ZeroNode) EXCEPT ![size] = Node(v, c, size)]
      /\ refs' = [Grown(refs, cap, 0) EXCEPT ![size] = size]
      /\ size' = size + 1
      /\ made' = TRUE
      /\ allocated' = IF full THEN Reallocated(Reallocated(acc, from, cap), from, cap)
                              ELSE allocated
      /\ allocated' <= MaxBytes
      /\ pc' = "up" /\ cur' = size
      /\ UNCHANGED <<todo, popped>>

\* PQUEUE_pop up to its call of heapD; EZ_ASSERT ends the process on an empty
\* queue, as it does in PQUEUE_top.
Pop ==
  /\ pc = "idle" /\ MayPop
  /\ IF size = 0
     THEN pc' = "failed" /\ UNCHANGED <<list, refs, size, cur, popped>>
     ELSE /\ popped' = list[refs[0]].value
          /\ size' = size - 1
          /\ IF size = 1
             THEN UNCHANGED <<list, refs, cur, pc>>
             ELSE /\ refs' = [refs EXCEPT ![0] = refs[size - 1]]
                  /\ list' = [list EXCEPT ![refs[size - 1]].index = 0]
                  /\ pc' = "down" /\ cur' = 0
  /\ UNCHANGED <<capacity, made, todo, allocated>>

\* PQUEUE_update up to its call of heapU or heapD.  Its test reads the node
\* before it compares the handle with the capacity: a handle that is too
\* large ends the process, there or in EZ_ASSERT.
Update(h, c) ==
  /\ pc = "idle" /\ MayUpdate(h)
  /\ IF h >= capacity \/ list[h].index >= size
     THEN pc' = "failed" /\ UNCHANGED <<list, cur>>
     ELSE /\ list' = [list EXCEPT ![h].cost = c]
          /\ pc' = IF c < list[h].cost THEN "up" ELSE "down"
          /\ cur' = list[h].index
  /\ UNCHANGED <<refs, size, capacity, made, todo, popped, allocated>>

\* PQUEUE_clear (EZ_FREE(NULL) does nothing)
Clear ==
  /\ pc = "idle"
  /\ list' = NoNodes /\ refs' = NoRefs
  /\ size' = 0 /\ capacity' = 0 /\ made' = FALSE
  /\ allocated' = IF made THEN Freed(Freed(allocated, capacity), capacity) ELSE allocated
  /\ UNCHANGED <<cur, todo, popped, pc>>

-----------------------------------------------------------------------------
\* Mutant: the two nodes are not told of their new positions.
SwapRefs(i, j) ==
  /\ refs' = [refs EXCEPT ![i] = refs[j], ![j] = refs[i]]
  /\ UNCHANGED list

\* PQUEUE_swap, also when both positions refer to the same node.
Swap(i, j) ==
  /\ refs' = [refs EXCEPT ![i] = refs[j], ![j] = refs[i]]
  /\ list' = [list EXCEPT ![refs[j]].index = i, ![refs[i]].index = j]

\* One turn of the loop of PQUEUE_heapU.
SiftUp ==
  /\ pc = "up"
  /\ IF cur = 0 \/ CostAt(cur) >= CostAt(Parent(cur))
     THEN pc' = "idle" /\ cur' = 0 /\ UNCHANGED <<list, refs>>
     ELSE Swap(cur, Parent(cur)) /\ cur' = Parent(cur) /\ UNCHANGED pc
  /\ UNCHANGED <<size, capacity, made, todo, popped, allocated>>

\* Mutants: the right child looked for up to the capacity, only when the left
\* one will not do, or never.
SmallestOfAll(i) ==
  LET left  == 2 * i + 1
      right == 2 * i + 2
      least == IF left < size /\ CostAt(left) < CostAt(i) THEN left ELSE i
  IN  IF right < capacity /\ CostAt(right) < CostAt(least) THEN right ELSE least
SmallestFirst(i) ==
  LET left  == 2 * i + 1
      right == 2 * i + 2
  IN  IF left < size /\ CostAt(left) < CostAt(i) THEN left
      ELSE IF right < size /\ CostAt(right) < CostAt(i) THEN right ELSE i
SmallestLeft(i) ==
  LET left == 2 * i + 1
  IN  IF left < size /\ CostAt(left) < CostAt(i) THEN left ELSE i

\* The cheapest of position i and its children, the left one first.
Smallest(i) ==
  LET left  == 2 * i + 1
      right == 2 * i + 2
      least == IF left < size /\ CostAt(left) < CostAt(i) THEN left ELSE i
  IN  IF right < size /\ CostAt(right) < CostAt(least) THEN right ELSE least

\* One turn of the loop of PQUEUE_heapD; PQUEUE_build then goes on with the
\* position before, the other callers return.
SiftDown ==
  LET s == Smallest(cur)
  IN  /\ pc = "down"
      /\ IF s # cur
         THEN Swap(cur, s) /\ cur' = s /\ UNCHANGED <<pc, todo>>
         ELSE /\ UNCHANGED <<list, refs>>
              /\ IF todo > 0
                 THEN todo' = todo - 1 /\ cur' = todo - 1 /\ UNCHANGED pc
                 ELSE pc' = "idle" /\ cur' = 0 /\ UNCHANGED todo
      /\ UNCHANGED <<size, capacity, made, popped, allocated>>

Sift == SiftUp \/ SiftDown

Next ==
  \/ \E n \in 0 .. MaxBuild :
       \E pairs \in [0 .. n - 1 -> [value : Values, cost : Costs]] : Build(n, pairs)
  \/ \E c \in Costs :
       \/ \E v \in Values : Insert(v, c)
       \/ \E h \in 0 .. capacity : Update(h, c)
  \/ Pop
  \/ Clear
  \/ Sift

Spec == Init /\ [][Next]_vars

-----------------------------------------------------------------------------
\* EZ_ALLOCATED() is the size of the two arrays PQUEUE_clear can still free.
MemoryBalanced ==
  allocated = IF made THEN 2 * Block(capacity) ELSE 0

\* Type invariant: also, refs never points outside the array of nodes, a
\* running sift is at a position of the heap, and no memory is lost.
TypeOK ==
  /\ size \in Nat /\ capacity \in Nat /\ size <= capacity
  /\ list \in [0 .. capacity - 1 ->
                 [value : Values \cup {Zero}, cost : Costs \cup {0}, index : Nat]]
  /\ refs \in [0 .. capacity - 1 -> Nat]
  /\ Live \subseteq DOMAIN list
  /\ cur \in Nat /\ todo \in Nat
  /\ popped \in Values \cup {Zero, Nothing}
  /\ allocated \in Nat /\ made \in BOOLEAN
  /\ pc \in {"idle", "up", "down", "failed"}
  /\ pc \in {"up", "down"} => cur < size
  /\ MemoryBalanced

\* Every queued node knows its position in the heap (so PQUEUE_update sifts
\* the right one), and no node is queued twice.
HandlesMatch == \A j \in Positions : list[refs[j]].index = j

\* "Priority queue insert and pop": each of the pq->size elements in the queue
\* has a node of its own; none has been overwritten by a later one.
NothingLost == Cardinality(Live) = size

\* The order of the heap, at rest and in the middle of a sift.  While heapU
\* runs only cur may be cheaper than its parent; while heapD runs only cur may
\* be dearer than its children, and in PQUEUE_build nothing is known yet of
\* the positions before todo.
Ordered(j) == CostAt(Parent(j)) <= CostAt(j)

HeapOrder ==
  /\ pc = "idle" => \A j \in Positions \ {0} : Ordered(j)
  /\ pc = "up" =>
       \A j \in Positions \ {0} :
         IF Parent(j) = cur /\ cur > 0 THEN CostAt(Parent(cur)) <= CostAt(j)
                                       ELSE j # cur => Ordered(j)
  /\ pc = "down" =>
       \A j \in Positions \ {0} :
         /\ Parent(j) >= todo /\ Parent(j) # cur => Ordered(j)
         /\ Parent(j) = cur /\ cur > 0 /\ Parent(cur) >= todo
              => CostAt(Parent(cur)) <= CostAt(j)

\* The queue as its caller sees it.
Queued == [h \in Live |-> [value |-> list[h].value, cost |-> list[h].cost]]

Priority == INSTANCE EzPriority
              WITH items <- Queued, Handles <- 0 .. MaxCapacity - 1

\* The heap implements a priority queue: insert, pop, update and clear change
\* exactly one item, and pop takes one of least cost.
ImplementsPriority == Priority!Spec

=============================================================================
