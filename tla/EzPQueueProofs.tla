---------------------------- MODULE EzPQueueProofs ----------------------------
(***************************************************************************)
(* What EzPQueue guarantees a careful client, for every set of values and  *)
(* costs and every bound: the two arrays keep referring to each other, the *)
(* heap is in order, and the queue is that of EzPriority.                  *)
(***************************************************************************)
EXTENDS EzPQueue, EzLemmas

-----------------------------------------------------------------------------
\* The inductive invariant: the counters and the memory,
CountsOK ==
  /\ size \in Nat /\ capacity \in Nat /\ size <= capacity /\ capacity <= MaxCapacity
  /\ cur \in Nat /\ todo \in Nat
  /\ made \in BOOLEAN /\ (made <=> capacity > 0)
  /\ pc \in {"idle", "up", "down", "failed"}
  /\ pc \in {"up", "down"} => cur < size
  /\ IF pc = "down" THEN todo <= cur ELSE todo = 0
  /\ popped \in Values \cup {Nothing}
  /\ MemoryBalanced

\* the arrays,
Nodes == [value : Values \cup {Zero}, cost : Costs \cup {0}, index : Nat]

ArraysOK ==
  /\ list \in [0 .. capacity - 1 -> Nodes]
  /\ refs \in [0 .. capacity - 1 -> Nat]

\* the references and the positions the nodes keep, which are each other's
\* inverse,
LinksOK ==
  \A j \in Positions : refs[j] \in 0 .. capacity - 1 /\ list[refs[j]].index = j

\* the queued nodes, none of which is made of zeroed memory,
ItemsOK ==
  \A j \in Positions : list[refs[j]].value \in Values /\ list[refs[j]].cost \in Costs

\* and the order of their costs f at the n positions: at rest, while heapU is at
\* position i (the children of i are in order, too), and while heapD is at i and
\* PQUEUE_build at t.
InOrder(f, j) == f[Parent(j)] <= f[j]

AtRest(f, n) == \A j \in 1 .. n - 1 : InOrder(f, j)

Rising(f, n, i) ==
  \A j \in 1 .. n - 1 :
    /\ j # i => InOrder(f, j)
    /\ Parent(j) = i /\ i > 0 => f[Parent(i)] <= f[j]

Falling(f, n, i, t) ==
  \A j \in 1 .. n - 1 :
    /\ Parent(j) >= t /\ Parent(j) # i => InOrder(f, j)
    /\ Parent(j) = i /\ i > 0 /\ Parent(i) >= t => f[Parent(i)] <= f[j]

Cost == [j \in Positions |-> CostAt(j)]

OrderOK ==
  /\ pc = "idle" => AtRest(Cost, size)
  /\ pc = "up" => Rising(Cost, size, cur)
  /\ pc = "down" => Falling(Cost, size, cur, todo)

LayoutOK == ArraysOK /\ LinksOK /\ ItemsOK

IInv == CountsOK /\ LayoutOK /\ OrderOK

-----------------------------------------------------------------------------
\* Positions of the heap and their parents.
LEMMA ParentFacts ==
  /\ \A j \in Nat \ {0} : /\ Parent(j) \in Nat /\ Parent(j) < j
                          /\ j = 2 * Parent(j) + 1 \/ j = 2 * Parent(j) + 2
  /\ \A i \in Nat : Parent(2 * i + 1) = i /\ Parent(2 * i + 2) = i
BY DEF Parent

\* The same of the positions of a heap.
LEMMA ParentIn ==
  ASSUME NEW n \in Nat, NEW j \in 1 .. n - 1
  PROVE  Parent(j) \in Nat /\ Parent(j) \in 0 .. n - 1 /\ Parent(j) < j
BY DEF Parent

\* What the layout says of a position.
LEMMA PositionFacts ==
  ASSUME CountsOK, LayoutOK
  PROVE  /\ Positions \subseteq 0 .. capacity - 1
         /\ \A j \in Positions : /\ j \in Nat /\ j < size
                                 /\ refs[j] \in 0 .. capacity - 1 /\ refs[j] \in Nat
                                 /\ list[refs[j]].index = j
                                 /\ CostAt(j) \in Costs /\ CostAt(j) \in Int
                                 /\ refs[j] \in Live
         /\ \A i, j \in Positions : refs[i] = refs[j] => i = j
         /\ Live \subseteq 0 .. capacity - 1
         /\ Cost \in [0 .. size - 1 -> Int] /\ \A j \in Positions : Cost[j] = CostAt(j)
<1>1. Positions \subseteq 0 .. capacity - 1
  BY DEF CountsOK, Positions
<1>2. \A j \in Positions : j \in Nat /\ j < size
  BY DEF CountsOK, Positions
<1>3. \A j \in Positions : CostAt(j) \in Costs /\ CostAt(j) \in Int
  BY PQueueAssumption DEF LayoutOK, ItemsOK, CostAt
<1>4. \A i, j \in Positions : refs[i] = refs[j] => i = j
  BY DEF LayoutOK, LinksOK
<1>5. \A j \in Positions : refs[j] \in 0 .. capacity - 1 /\ list[refs[j]].index = j
  BY DEF LayoutOK, LinksOK
<1>6. Cost \in [0 .. size - 1 -> Int] /\ \A j \in Positions : Cost[j] = CostAt(j)
  BY <1>3 DEF Cost, Positions
<1>7. QED
  BY <1>1, <1>2, <1>3, <1>4, <1>5, <1>6 DEF Live

\* Two positions that swap their references.
Swapped(f, a, b) == [f EXCEPT ![a] = f[b], ![b] = f[a]]

\* A swap of two references keeps the layout, and swaps their costs.
LEMMA SwapFacts ==
  ASSUME CountsOK, LayoutOK, NEW a \in Positions, NEW b \in Positions, a # b,
         Swap(a, b), UNCHANGED <<size, capacity>>
  PROVE  LayoutOK' /\ Queued' = Queued /\ Cost' = Swapped(Cost, a, b)
<1> DEFINE g == refs[a]
           h == refs[b]
<1>1. /\ refs' = [refs EXCEPT ![a] = refs[b], ![b] = refs[a]]
      /\ list' = [list EXCEPT ![h].index = a, ![g].index = b]
  BY DEF Swap
<1>2. /\ g \in 0 .. capacity - 1 /\ h \in 0 .. capacity - 1 /\ g # h
      /\ a \in 0 .. capacity - 1 /\ b \in 0 .. capacity - 1
      /\ a \in Nat /\ b \in Nat /\ g \in Nat /\ h \in Nat
  BY PositionFacts
<1>3. list \in [0 .. capacity - 1 -> Nodes] /\ refs \in [0 .. capacity - 1 -> Nat]
  BY DEF LayoutOK, ArraysOK
<1>4. Positions' = Positions /\ capacity' = capacity
  BY DEF Positions
<1>5. /\ refs' \in [0 .. capacity - 1 -> Nat]
      /\ refs'[a] = h /\ refs'[b] = g
      /\ \A j \in 0 .. capacity - 1 : j # a /\ j # b => refs'[j] = refs[j]
  BY <1>1, <1>2, <1>3
<1> HIDE DEF g, h
<1>6. /\ list' \in [0 .. capacity - 1 -> Nodes]
      /\ list'[h].index = a /\ list'[g].index = b
      /\ \A k \in 0 .. capacity - 1 : /\ k # g /\ k # h => list'[k] = list[k]
                                      /\ list'[k].value = list[k].value
                                      /\ list'[k].cost = list[k].cost
  BY <1>1, <1>2, <1>3 DEF Nodes
<1>7. ASSUME NEW j \in Positions, j # a, j # b
      PROVE  /\ refs'[j] = refs[j] /\ refs[j] \in 0 .. capacity - 1
             /\ list'[refs[j]] = list[refs[j]]
  BY <1>5, <1>6, <1>7, PositionFacts DEF g, h
<1>8. CostAt(a)' = CostAt(b) /\ CostAt(b)' = CostAt(a)
  BY <1>2, <1>5, <1>6 DEF CostAt, g, h
<1>9. \A j \in Positions : j # a /\ j # b => CostAt(j)' = CostAt(j)
  BY <1>7 DEF CostAt
<1>10. LinksOK'
  BY <1>2, <1>4, <1>5, <1>6, <1>7 DEF LayoutOK, LinksOK
<1>11. ItemsOK'
  BY <1>2, <1>4, <1>5, <1>6, <1>7 DEF LayoutOK, ItemsOK, g, h
<1>12. Live' = Live
  <2>1. \A j \in Positions : \E i \in Positions : refs'[j] = refs[i]
    BY <1>5, <1>7 DEF g, h
  <2>2. \A j \in Positions : \E i \in Positions : refs[j] = refs'[i]
    BY <1>5, <1>7 DEF g, h
  <2>3. QED
    BY <1>4, <2>1, <2>2 DEF Live
<1>13. Queued' = Queued
  <2>1. \A k \in Live : list'[k].value = list[k].value /\ list'[k].cost = list[k].cost
    BY <1>6, PositionFacts
  <2>2. QED
    BY <1>12, <2>1 DEF Queued
<1>14. ArraysOK'
  BY <1>4, <1>5, <1>6 DEF ArraysOK
<1>15. Cost' = Swapped(Cost, a, b)
  BY <1>4, <1>8, <1>9 DEF Cost, Swapped
<1>16. QED
  BY <1>10, <1>11, <1>13, <1>14, <1>15 DEF LayoutOK

\* The arrays are what they were.
LEMMA SameArrays ==
  ASSUME LayoutOK, UNCHANGED <<list, refs, size, capacity>>
  PROVE  LayoutOK' /\ Queued' = Queued /\ Cost' = Cost
BY DEF LayoutOK, ArraysOK, LinksOK, ItemsOK, Queued, Live, Positions, Cost, CostAt

-----------------------------------------------------------------------------
\* The heap, as the costs at its positions.

\* A turn of heapU that goes on.
LEMMA RisesOn ==
  ASSUME NEW n \in Nat, NEW f \in [0 .. n - 1 -> Int], NEW i \in 1 .. n - 1,
         Rising(f, n, i), f[i] < f[Parent(i)]
  PROVE  Rising(Swapped(f, i, Parent(i)), n, Parent(i))
<1> DEFINE p == Parent(i)
           g == Swapped(f, i, p)
<1>1. /\ i \in 0 .. n - 1 /\ p \in 0 .. n - 1 /\ p \in Nat /\ p < i
      /\ f[i] \in Int /\ f[p] \in Int /\ f[i] < f[p]
  BY ParentIn
<1>2. \A j \in 1 .. n - 1 :
        /\ Parent(j) \in Nat /\ Parent(j) \in 0 .. n - 1 /\ Parent(j) < j
        /\ f[j] \in Int /\ f[Parent(j)] \in Int
  BY ParentIn
<1>3. /\ g[i] = f[p] /\ g[p] = f[i]
      /\ \A j \in 0 .. n - 1 : j # i /\ j # p => g[j] = f[j]
  BY <1>1 DEF Swapped
<1> HIDE DEF p, g
<1>4. /\ \A j \in 1 .. n - 1 : j # i => f[Parent(j)] <= f[j]
      /\ \A j \in 1 .. n - 1 : Parent(j) = i => f[p] <= f[j]
  BY DEF Rising, InOrder, p
<1>5. ASSUME NEW j \in 1 .. n - 1, j # p
      PROVE  g[Parent(j)] <= g[j]
  <2>1. Parent(i) = p
    BY DEF p
  <2>2. CASE j = i
    BY <1>1, <1>3, <2>1, <2>2
  <2>3. CASE j # i /\ Parent(j) = i
    BY <1>3, <1>4, <1>5, <2>3
  <2>4. CASE j # i /\ Parent(j) = p
    BY <1>1, <1>2, <1>3, <1>4, <1>5, <2>4
  <2>5. CASE j # i /\ Parent(j) # i /\ Parent(j) # p
    BY <1>2, <1>3, <1>4, <1>5, <2>5
  <2>6. QED
    BY <2>2, <2>3, <2>4, <2>5
<1>6. ASSUME NEW j \in 1 .. n - 1, Parent(j) = p, p > 0
      PROVE  g[Parent(p)] <= g[j]
  <2>1. p \in 1 .. n - 1 /\ p # i
    BY <1>1, <1>6
  <2>2. /\ Parent(p) \in 0 .. n - 1 /\ Parent(p) # p /\ Parent(p) # i
        /\ f[Parent(p)] \in Int /\ f[Parent(p)] <= f[p]
    BY <1>1, <1>2, <1>4, <2>1
  <2>3. g[Parent(p)] = f[Parent(p)]
    BY <1>3, <2>2
  <2>4. CASE j = i
    BY <1>3, <2>2, <2>3, <2>4
  <2>5. CASE j # i
    <3>1. j # p /\ f[p] <= f[j] /\ f[j] \in Int
      BY <1>2, <1>4, <1>6, <2>5
    <3>2. g[j] = f[j]
      BY <1>3, <2>5, <3>1
    <3>3. QED
      BY <1>1, <2>2, <2>3, <3>1, <3>2
  <2>6. QED
    BY <2>4, <2>5
<1>7. Rising(g, n, p)
  BY <1>5, <1>6 DEF Rising, InOrder
<1>8. QED
  BY <1>7 DEF g, p

\* and one that stops.
LEMMA RisenUp ==
  ASSUME NEW n \in Nat, NEW f \in [0 .. n - 1 -> Int], NEW i \in 0 .. n - 1,
         Rising(f, n, i), i > 0 => f[i] >= f[Parent(i)]
  PROVE  AtRest(f, n)
<1>1. ASSUME NEW j \in 1 .. n - 1 PROVE f[Parent(j)] <= f[j]
  <2>1. Parent(j) \in 0 .. n - 1 /\ f[Parent(j)] \in Int /\ f[j] \in Int
    BY ParentIn
  <2>2. CASE j = i
    BY <2>1, <2>2
  <2>3. CASE j # i
    BY <2>3 DEF Rising, InOrder
  <2>4. QED
    BY <2>2, <2>3
<1>2. QED
  BY <1>1 DEF AtRest, InOrder

\* A turn of heapD that goes on.
LEMMA FallsOn ==
  ASSUME NEW n \in Nat, NEW f \in [0 .. n - 1 -> Int], NEW i \in 0 .. n - 1,
         NEW t \in Nat, NEW s \in 1 .. n - 1,
         Falling(f, n, i, t), t <= i, Parent(s) = i, f[s] < f[i],
         \A j \in 1 .. n - 1 : Parent(j) = i => f[s] <= f[j]
  PROVE  Falling(Swapped(f, i, s), n, s, t)
<1> DEFINE g == Swapped(f, i, s)
<1>1. i < s /\ s \in 0 .. n - 1 /\ f[i] \in Int /\ f[s] \in Int
  BY ParentIn
<1>2. \A j \in 1 .. n - 1 :
        /\ Parent(j) \in Nat /\ Parent(j) \in 0 .. n - 1 /\ Parent(j) < j
        /\ f[j] \in Int /\ f[Parent(j)] \in Int
  BY ParentIn
<1>3. /\ g[i] = f[s] /\ g[s] = f[i]
      /\ \A j \in 0 .. n - 1 : j # i /\ j # s => g[j] = f[j]
  BY <1>1 DEF Swapped
<1> HIDE DEF g
<1>4. /\ \A j \in 1 .. n - 1 : Parent(j) >= t /\ Parent(j) # i => f[Parent(j)] <= f[j]
      /\ \A j \in 1 .. n - 1 : Parent(j) = i /\ i > 0 /\ Parent(i) >= t => f[Parent(i)] <= f[j]
  BY DEF Falling, InOrder
<1>5. ASSUME NEW j \in 1 .. n - 1, Parent(j) >= t, Parent(j) # s
      PROVE  g[Parent(j)] <= g[j]
  <2>1. CASE j = s
    BY <1>1, <1>3, <2>1
  <2>2. CASE j # s /\ Parent(j) = i
    <3>1. j # i /\ f[s] <= f[j]
      BY <1>2, <2>2
    <3>2. QED
      BY <1>3, <2>2, <3>1
  <2>3. CASE j = i
    <3>1. i > 0 /\ f[Parent(i)] <= f[s] /\ Parent(i) # i /\ Parent(i) # s
      BY <1>1, <1>2, <1>4, <1>5, <2>3
    <3>2. QED
      BY <1>2, <1>3, <2>3, <3>1
  <2>4. CASE j # s /\ j # i /\ Parent(j) # i
    <3>1. f[Parent(j)] <= f[j]
      BY <1>4, <1>5, <2>4
    <3>2. Parent(j) \in 0 .. n - 1
      BY <1>2
    <3>3. g[Parent(j)] = f[Parent(j)]
      BY <1>3, <1>5, <2>4, <3>2
    <3>4. g[j] = f[j]
      BY <1>3, <2>4
    <3>5. QED
      BY <3>1, <3>3, <3>4
  <2>5. QED
    BY <2>1, <2>2, <2>3, <2>4
<1>6. ASSUME NEW j \in 1 .. n - 1, Parent(j) = s
      PROVE  g[i] <= g[j]
  <2>1. j # s /\ j # i /\ s # i /\ s >= t
    BY <1>1, <1>2, <1>6
  <2>2. f[s] <= f[j]
    BY <1>4, <1>6, <2>1
  <2>3. QED
    BY <1>3, <2>1, <2>2
<1>7. Falling(g, n, s, t)
  BY <1>5, <1>6 DEF Falling, InOrder
<1>8. QED
  BY <1>7 DEF g

\* and one that stops: PQUEUE_build goes on one position before, or all is done.
LEMMA FallenDown ==
  ASSUME NEW n \in Nat, NEW f \in [0 .. n - 1 -> Int], NEW i \in 0 .. n - 1,
         NEW t \in Nat, Falling(f, n, i, t), t <= i,
         \A j \in 1 .. n - 1 : Parent(j) = i => f[i] <= f[j]
  PROVE  IF t > 0 THEN Falling(f, n, t - 1, t - 1) ELSE AtRest(f, n)
<1>1. \A j \in 1 .. n - 1 : Parent(j) \in Nat /\ Parent(j) < j
  BY ParentIn
<1>2. \A j \in 1 .. n - 1 : Parent(j) >= t => InOrder(f, j)
  BY DEF Falling, InOrder
<1>3. CASE t > 0
  <2>1. \A j \in 1 .. n - 1 : Parent(j) >= t - 1 /\ Parent(j) # t - 1 => Parent(j) >= t
    BY <1>1
  <2>2. t - 1 > 0 => Parent(t - 1) < t - 1 /\ Parent(t - 1) \in Nat
    BY <1>3 DEF Parent
  <2>3. QED
    BY <1>2, <1>3, <2>1, <2>2 DEF Falling
<1>4. CASE t = 0
  BY <1>1, <1>2, <1>4 DEF AtRest
<1>5. QED
  BY <1>3, <1>4

-----------------------------------------------------------------------------
\* A turn of heapD.
LEMMA SmallestFacts ==
  ASSUME CountsOK, LayoutOK, cur \in Positions
  PROVE  /\ Smallest(cur) \in Positions
         /\ Smallest(cur) # cur => Parent(Smallest(cur)) = cur /\ cur < Smallest(cur)
                                   /\ CostAt(Smallest(cur)) < CostAt(cur)
         /\ \A j \in Positions \ {0} : Parent(j) = cur => CostAt(Smallest(cur)) <= CostAt(j)
<1> DEFINE l == 2 * cur + 1
           r == 2 * cur + 2
           least == IF l < size /\ CostAt(l) < CostAt(cur) THEN l ELSE cur
           s == IF r < size /\ CostAt(r) < CostAt(least) THEN r ELSE least
<1>1. Smallest(cur) = s
  BY DEF Smallest
<1>2. size \in Nat /\ cur \in Nat /\ cur < size /\ l \in Nat /\ r \in Nat /\ cur < l /\ cur < r
  BY DEF CountsOK, Positions
<1>3. \A j \in Nat : j < size => j \in Positions /\ CostAt(j) \in Int
  BY <1>2, PositionFacts DEF Positions
<1>4. Parent(l) = cur /\ Parent(r) = cur
  BY <1>2, ParentFacts
<1>5. ASSUME NEW j \in Positions \ {0}, Parent(j) = cur
      PROVE  (j = l \/ j = r) /\ j < size
  <2>1. j \in Nat \ {0} /\ j < size
    BY <1>2 DEF Positions
  <2>2. j = 2 * Parent(j) + 1 \/ j = 2 * Parent(j) + 2
    BY <2>1, ParentFacts
  <2>3. QED
    BY <1>5, <2>1, <2>2
<1> HIDE DEF l, r
<1>6. /\ least \in Positions /\ (least = cur \/ least = l)
      /\ CostAt(least) <= CostAt(cur) /\ CostAt(least) \in Int
      /\ least # cur => CostAt(least) < CostAt(cur)
      /\ l < size => CostAt(least) <= CostAt(l)
  BY <1>2, <1>3
<1> HIDE DEF least
<1>7. /\ s \in Positions /\ (s = least \/ s = r)
      /\ CostAt(s) <= CostAt(least) /\ CostAt(s) \in Int
      /\ s = r => CostAt(s) < CostAt(least) \/ s = least
      /\ r < size => CostAt(s) <= CostAt(r)
  BY <1>2, <1>3, <1>6
<1> HIDE DEF s
<1>8. ASSUME s # cur
      PROVE  Parent(s) = cur /\ cur < s /\ CostAt(s) < CostAt(cur)
  BY <1>2, <1>3, <1>4, <1>6, <1>7, <1>8
<1>9. ASSUME NEW j \in Positions \ {0}, Parent(j) = cur
      PROVE  CostAt(s) <= CostAt(j)
  BY <1>2, <1>3, <1>5, <1>6, <1>7, <1>9
<1>10. QED
  BY <1>1, <1>7, <1>8, <1>9

\* A turn of heapU keeps the invariant, and what is queued.
LEMMA SiftUpInv ==
  ASSUME IInv, SiftUp
  PROVE  IInv' /\ UNCHANGED <<Queued, popped>>
<1>1. /\ pc = "up"
      /\ UNCHANGED <<size, capacity, made, todo, popped, allocated>>
  BY DEF SiftUp
<1>2. /\ CountsOK /\ LayoutOK /\ Rising(Cost, size, cur)
      /\ size \in Nat /\ cur \in Nat /\ cur < size /\ todo = 0
  BY <1>1 DEF IInv, OrderOK, CountsOK
<1>3. PICK i : i = cur
  OBVIOUS
<1>4. i \in 0 .. size - 1 /\ i \in Positions
  BY <1>2, <1>3 DEF Positions
<1>5. Cost \in [0 .. size - 1 -> Int] /\ \A j \in Positions : Cost[j] = CostAt(j)
  BY <1>2, PositionFacts
<1>6. CASE i = 0 \/ CostAt(i) >= CostAt(Parent(i))
  <2>1. pc' = "idle" /\ cur' = 0 /\ UNCHANGED <<list, refs>>
    BY <1>3, <1>6 DEF SiftUp
  <2>2. LayoutOK' /\ Queued' = Queued /\ Cost' = Cost
    BY <1>1, <1>2, <2>1, SameArrays
  <2>3. i > 0 => Cost[i] >= Cost[Parent(i)]
    <3> SUFFICES ASSUME i > 0 PROVE Cost[i] >= Cost[Parent(i)]
      OBVIOUS
    <3>1. Parent(i) \in Positions
      BY <1>2, <1>4, ParentIn DEF Positions
    <3>2. Cost[i] = CostAt(i) /\ Cost[Parent(i)] = CostAt(Parent(i))
      BY <1>4, <1>5, <3>1
    <3>3. CostAt(i) >= CostAt(Parent(i))
      BY <1>6
    <3>4. QED
      BY <3>2, <3>3
  <2>4. AtRest(Cost, size)
    BY <1>2, <1>3, <1>4, <1>5, <2>3, RisenUp
  <2>5. CountsOK'
    BY <1>1, <1>2, <2>1 DEF CountsOK, MemoryBalanced
  <2>6. AtRest(Cost, size)'
    BY <1>1, <2>2, <2>4 DEF AtRest, InOrder
  <2>7. QED
    BY <1>1, <2>1, <2>2, <2>5, <2>6 DEF IInv, OrderOK
<1>7. CASE ~(i = 0 \/ CostAt(i) >= CostAt(Parent(i)))
  <2>1. PICK p : p = Parent(i)
    OBVIOUS
  <2>2. i \in 1 .. size - 1 /\ p \in Nat /\ p < i /\ p \in Positions
    BY <1>2, <1>4, <1>7, <2>1, ParentIn DEF Positions
  <2>3. pc' = "up" /\ Swap(i, p) /\ cur' = p
    BY <1>1, <1>3, <1>7, <2>1 DEF SiftUp, Swap
  <2>4. LayoutOK' /\ Queued' = Queued /\ Cost' = Swapped(Cost, i, p)
    BY <1>1, <1>2, <1>4, <2>2, <2>3, SwapFacts
  <2>5. Cost[i] < Cost[Parent(i)]
    BY <1>4, <1>5, <1>7, <2>1, <2>2 DEF Positions
  <2>6. Rising(Swapped(Cost, i, p), size, p)
    BY <1>2, <1>3, <1>5, <2>1, <2>2, <2>5, RisesOn
  <2>7. Rising(Cost, size, cur)'
    BY <1>1, <2>3, <2>4, <2>6 DEF Rising, InOrder
  <2>8. CountsOK'
    BY <1>1, <1>2, <1>3, <2>2, <2>3 DEF CountsOK, MemoryBalanced
  <2>9. QED
    BY <1>1, <2>3, <2>4, <2>7, <2>8 DEF IInv, OrderOK
<1>8. QED
  BY <1>6, <1>7

\* So does a turn of heapD.
LEMMA SiftDownInv ==
  ASSUME IInv, SiftDown
  PROVE  IInv' /\ UNCHANGED <<Queued, popped>>
<1>1. /\ pc = "down"
      /\ UNCHANGED <<size, capacity, made, popped, allocated>>
  BY DEF SiftDown
<1>2. /\ CountsOK /\ LayoutOK /\ Falling(Cost, size, cur, todo)
      /\ size \in Nat /\ cur \in Nat /\ cur < size /\ todo \in Nat /\ todo <= cur
  BY <1>1 DEF IInv, OrderOK, CountsOK
<1>3. PICK i : i = cur
  OBVIOUS
<1>4. PICK s : s = Smallest(cur)
  OBVIOUS
<1>5. i \in 0 .. size - 1 /\ i \in Positions
  BY <1>2, <1>3 DEF Positions
<1>6. Cost \in [0 .. size - 1 -> Int] /\ \A j \in Positions : Cost[j] = CostAt(j)
  BY <1>2, PositionFacts
<1>7. /\ s \in Positions
      /\ s # i => Parent(s) = i /\ i < s /\ CostAt(s) < CostAt(i)
      /\ \A j \in Positions \ {0} : Parent(j) = i => CostAt(s) <= CostAt(j)
  BY <1>2, <1>3, <1>4, <1>5, SmallestFacts
<1>8. \A j \in 1 .. size - 1 : j \in Positions \ {0}
  BY <1>2 DEF Positions
<1>9. \A j \in 1 .. size - 1 : Parent(j) = i => Cost[s] <= Cost[j]
  BY <1>6, <1>7, <1>8
<1>10. CASE s # i
  <2>1. Swap(i, s) /\ cur' = s /\ UNCHANGED <<pc, todo>>
    BY <1>3, <1>4, <1>10 DEF SiftDown, Swap
  <2>2. LayoutOK' /\ Queued' = Queued /\ Cost' = Swapped(Cost, i, s)
    BY <1>1, <1>2, <1>5, <1>7, <1>10, <2>1, SwapFacts
  <2>3. s \in 1 .. size - 1 /\ Parent(s) = i /\ Cost[s] < Cost[i] /\ i < s
    BY <1>2, <1>5, <1>6, <1>7, <1>10 DEF Positions
  <2>4. Falling(Swapped(Cost, i, s), size, s, todo)
    BY <1>2, <1>3, <1>5, <1>6, <1>9, <2>3, FallsOn
  <2>5. Falling(Cost, size, cur, todo)'
    BY <1>1, <2>1, <2>2, <2>4 DEF Falling, InOrder
  <2>6. CountsOK'
    BY <1>1, <1>2, <1>3, <2>1, <2>3 DEF CountsOK, MemoryBalanced
  <2>7. QED
    BY <1>1, <2>1, <2>2, <2>5, <2>6 DEF IInv, OrderOK
<1>11. CASE s = i
  <2>1. /\ UNCHANGED <<list, refs>>
        /\ IF todo > 0 THEN todo' = todo - 1 /\ cur' = todo - 1 /\ pc' = pc
                       ELSE pc' = "idle" /\ cur' = 0 /\ todo' = todo
    BY <1>3, <1>4, <1>11 DEF SiftDown
  <2>2. LayoutOK' /\ Queued' = Queued /\ Cost' = Cost
    BY <1>1, <1>2, <2>1, SameArrays
  <2>3. IF todo > 0 THEN Falling(Cost, size, todo - 1, todo - 1) ELSE AtRest(Cost, size)
    BY <1>2, <1>3, <1>5, <1>6, <1>9, <1>11, FallenDown
  <2>4. CountsOK'
    BY <1>1, <1>2, <2>1 DEF CountsOK, MemoryBalanced
  <2>5. OrderOK'
    <3>1. CASE todo > 0
      <4>1. Falling(Cost, size, cur, todo)'
        BY <1>1, <2>1, <2>2, <2>3, <3>1 DEF Falling, InOrder
      <4>2. QED
        BY <1>1, <2>1, <3>1, <4>1 DEF OrderOK
    <3>2. CASE ~(todo > 0)
      <4>1. AtRest(Cost, size)'
        BY <1>1, <2>2, <2>3, <3>2 DEF AtRest, InOrder
      <4>2. QED
        BY <1>1, <2>1, <3>2, <4>1 DEF OrderOK
    <3>3. QED
      BY <3>1, <3>2
  <2>6. QED
    BY <1>1, <2>2, <2>4, <2>5 DEF IInv
<1>12. QED
  BY <1>10, <1>11

-----------------------------------------------------------------------------
\* The calls.

\* The counter of a call that leaves a queue of n positions and m nodes.
LEMMA Weights ==
  ASSUME CountsOK
  PROVE  /\ Header \in Nat /\ allocated \in Nat
         /\ allocated = IF made THEN 2 * (capacity + Header) ELSE 0
BY HeaderAssumption DEF CountsOK, MemoryBalanced, Block

\* PQUEUE_clear
LEMMA ClearInv ==
  ASSUME IInv, Clear
  PROVE  IInv' /\ Priority!Drop
<1>1. /\ pc = "idle" /\ UNCHANGED <<cur, todo, popped, pc>>
      /\ list' = NoNodes /\ refs' = NoRefs
      /\ size' = 0 /\ capacity' = 0 /\ made' = FALSE
      /\ allocated' = IF made THEN Freed(Freed(allocated, capacity), capacity) ELSE allocated
  BY DEF Clear
<1>2. CountsOK
  BY DEF IInv
<1>3. Positions' = {} /\ Live' = {}
  BY <1>1 DEF Positions, Live
<1>4. LayoutOK'
  BY <1>1, <1>3 DEF LayoutOK, ArraysOK, LinksOK, ItemsOK, NoNodes, NoRefs
<1>5. allocated' = 0
  BY <1>1, <1>2, Weights DEF CountsOK, Freed, Block
<1>6. CountsOK'
  <2>1. made' \in BOOLEAN /\ (made' <=> capacity' > 0) /\ MemoryBalanced'
    <3>1. ~(capacity' > 0)
      BY <1>1
    <3>2. QED
      BY <1>1, <1>5, <3>1, Zenon DEF MemoryBalanced
  <2>2. /\ size' \in Nat /\ capacity' \in Nat /\ size' <= capacity' /\ capacity' <= MaxCapacity
        /\ cur' \in Nat /\ todo' \in Nat /\ todo' = 0 /\ pc' = "idle"
        /\ popped' \in Values \cup {Nothing}
    BY <1>1, <1>2, PQueueAssumption DEF CountsOK
  <2>3. QED
    BY <2>1, <2>2 DEF CountsOK
<1>7. OrderOK'
  BY <1>1 DEF OrderOK, AtRest
<1>8. Priority!Drop
  BY <1>1, <1>3 DEF Priority!Drop, Queued
<1>9. QED
  BY <1>4, <1>6, <1>7, <1>8 DEF IInv

\* PQUEUE_build
LEMMA BuildInv ==
  ASSUME IInv, Careful, NEW n \in 0 .. MaxBuild,
         NEW pairs \in [0 .. n - 1 -> [value : Values, cost : Costs]], Build(n, pairs)
  PROVE  IInv' /\ Priority!Fill
<1>1. /\ pc = "idle" /\ ~made /\ n > 0 /\ n \in Nat /\ n <= MaxCapacity
      /\ size' = n /\ capacity' = n /\ made' = TRUE /\ popped' = popped
      /\ list' = [i \in 0 .. n - 1 |-> Node(pairs[i].value, pairs[i].cost, i)]
      /\ refs' = [i \in 0 .. n - 1 |-> i]
      /\ allocated' = Allocated(Allocated(allocated, n), n)
      /\ IF n >= 2 THEN pc' = "down" /\ cur' = n \div 2 - 1 /\ todo' = n \div 2 - 1
                   ELSE UNCHANGED <<pc, cur, todo>>
  BY PQueueAssumption DEF Build, MayBuild
<1>2. CountsOK /\ Positions = {}
  BY <1>1 DEF IInv, CountsOK, Positions
<1>3. Positions' = 0 .. n - 1 /\ Live' = 0 .. n - 1
  BY <1>1 DEF Positions, Live
<1>4. ASSUME NEW i \in 0 .. n - 1
      PROVE  /\ refs'[i] = i /\ list'[i].index = i /\ i \in Nat
             /\ list'[i].value \in Values /\ list'[i].cost \in Costs
             /\ list'[i] \in Nodes
  BY <1>1 DEF Node, Nodes
<1>5. LayoutOK'
  <2>1. ArraysOK'
    BY <1>1, <1>4 DEF ArraysOK
  <2>2. LinksOK' /\ ItemsOK'
    BY <1>1, <1>3, <1>4 DEF LinksOK, ItemsOK
  <2>3. QED
    BY <2>1, <2>2 DEF LayoutOK
<1>6. allocated' = 2 * (n + Header)
  BY <1>1, <1>2, Weights DEF Allocated, Block
<1>7. n >= 2 => n \div 2 - 1 \in Nat /\ n \div 2 - 1 < n
  BY <1>1
<1>8. CountsOK'
  BY <1>1, <1>2, <1>6, <1>7 DEF CountsOK, MemoryBalanced, Block
<1>9. OrderOK'
  <2>1. CASE n >= 2
    <3> DEFINE t == n \div 2 - 1
    <3>1. \A j \in 1 .. n - 1 : Parent(j) \in Nat /\ Parent(j) <= t
      BY <1>1, <2>1 DEF Parent
    <3>2. t \in Nat /\ (t > 0 => Parent(t) < t /\ Parent(t) \in Nat)
      BY <1>7, <2>1 DEF Parent
    <3>3. pc' = "down" /\ cur' = t /\ todo' = t /\ size' = n
      BY <1>1, <2>1
    <3> HIDE DEF t
    <3>4. Falling(Cost, size, cur, todo)'
      BY <3>1, <3>2, <3>3 DEF Falling
    <3>5. QED
      BY <3>3, <3>4 DEF OrderOK
  <2>2. CASE n = 1
    BY <1>1, <2>2 DEF OrderOK, AtRest
  <2>3. QED
    BY <1>1, <2>1, <2>2
<1>10. Priority!Fill
  <2>1. Live = {} /\ DOMAIN Queued = {}
    BY <1>2 DEF Live, Queued
  <2>2. Live' \in SUBSET (0 .. MaxCapacity - 1)
    BY <1>1, <1>3, PQueueAssumption
  <2>3. Queued' \in [Live' -> [value : Values, cost : Costs]]
    BY <1>3, <1>4 DEF Queued
  <2>4. QED
    BY <1>1, <2>1, <2>2, <2>3 DEF Priority!Fill, Priority!Items
<1>11. QED
  BY <1>5, <1>8, <1>9, <1>10 DEF IInv

\* PQUEUE_insert, into a node that is not queued
LEMMA InsertInv ==
  ASSUME IInv, Careful, NEW v \in Values, NEW c \in Costs, Insert(v, c)
  PROVE  IInv' /\ size \in 0 .. MaxCapacity - 1 /\ Priority!Put(size, v, c)
<1> DEFINE full == size >= capacity
           from == IF capacity = 0 THEN 1 ELSE capacity
           cap == IF full THEN from * 2 ELSE capacity
           acc == IF capacity = 0 THEN Allocated(Allocated(allocated, 1), 1) ELSE allocated
<1>1. /\ pc = "idle" /\ size \notin Live
      /\ cap <= MaxCapacity /\ capacity' = cap
      /\ list' = [Grown(list, cap, ZeroNode) EXCEPT ![size] = Node(v, c, size)]
      /\ refs' = [Grown(refs, cap, 0) EXCEPT ![size] = size]
      /\ size' = size + 1 /\ made' = TRUE
      /\ allocated' = IF full THEN Reallocated(Reallocated(acc, from, cap), from, cap)
                              ELSE allocated
      /\ pc' = "up" /\ cur' = size
      /\ UNCHANGED <<todo, popped>>
  BY DEF Insert, MayInsert
<1>2. CountsOK /\ LayoutOK /\ AtRest(Cost, size)
  BY <1>1 DEF IInv, OrderOK
<1>3. PICK n : n = size
  OBVIOUS
<1>4. /\ n \in Nat /\ capacity \in Nat /\ n <= capacity
      /\ cap \in Nat /\ n < cap /\ capacity <= cap
  BY <1>2, <1>3 DEF CountsOK
<1>5. allocated' = 2 * (cap + Header)
  <2>1. CASE capacity = 0
    BY <1>1, <1>2, <1>4, <2>1, Weights DEF CountsOK, Allocated, Reallocated, Block
  <2>2. CASE capacity > 0
    BY <1>1, <1>2, <1>4, <2>2, Weights DEF CountsOK, Allocated, Reallocated, Block
  <2>3. QED
    BY <1>4, <2>1, <2>2
<1> HIDE DEF cap, full, from, acc
<1>6. list \in [0 .. capacity - 1 -> Nodes] /\ refs \in [0 .. capacity - 1 -> Nat]
  BY <1>2 DEF LayoutOK, ArraysOK
<1>7. /\ ZeroNode \in Nodes /\ Node(v, c, n) \in Nodes
      /\ Node(v, c, n).value = v /\ Node(v, c, n).cost = c /\ Node(v, c, n).index = n
  BY <1>4 DEF ZeroNode, Node, Nodes
<1>8. /\ Grown(list, cap, ZeroNode) \in [0 .. cap - 1 -> Nodes]
      /\ Grown(refs, cap, 0) \in [0 .. cap - 1 -> Nat]
      /\ \A i \in 0 .. capacity - 1 :
           Grown(list, cap, ZeroNode)[i] = list[i] /\ Grown(refs, cap, 0)[i] = refs[i]
  BY <1>4, <1>6, <1>7 DEF Grown
<1>9. /\ n \in 0 .. cap - 1 /\ list' \in [0 .. cap - 1 -> Nodes] /\ refs' \in [0 .. cap - 1 -> Nat]
      /\ list'[n] = Node(v, c, n) /\ refs'[n] = n
      /\ \A i \in 0 .. capacity - 1 : i # n => list'[i] = list[i] /\ refs'[i] = refs[i]
  BY <1>1, <1>3, <1>4, <1>7, <1>8
<1>10. Positions = 0 .. n - 1 /\ Positions' = Positions \cup {n} /\ n \notin Positions
  BY <1>1, <1>3, <1>4 DEF Positions
<1>11. ASSUME NEW j \in Positions
       PROVE  /\ refs'[j] = refs[j] /\ refs[j] \in 0 .. capacity - 1 /\ refs[j] # n
              /\ list'[refs[j]] = list[refs[j]]
              /\ CostAt(j)' = CostAt(j)
  <2>1. j \in 0 .. capacity - 1 /\ j # n /\ refs[j] \in 0 .. capacity - 1 /\ refs[j] \in Live
    BY <1>2, <1>10, PositionFacts
  <2>2. refs[j] # n
    BY <1>1, <1>3, <2>1
  <2>3. refs'[j] = refs[j] /\ list'[refs[j]] = list[refs[j]]
    BY <1>9, <2>1, <2>2
  <2>4. QED
    BY <2>1, <2>2, <2>3 DEF CostAt
<1>12. LayoutOK'
  <2>1. ArraysOK'
    BY <1>1, <1>9 DEF ArraysOK
  <2>2. LinksOK'
    BY <1>1, <1>2, <1>4, <1>7, <1>9, <1>10, <1>11 DEF LinksOK, LayoutOK
  <2>3. ItemsOK'
    BY <1>2, <1>7, <1>9, <1>10, <1>11 DEF ItemsOK, LayoutOK
  <2>4. QED
    BY <2>1, <2>2, <2>3 DEF LayoutOK
<1>13. CountsOK'
  BY <1>1, <1>2, <1>3, <1>4, <1>5 DEF CountsOK, MemoryBalanced, Block
<1>14. Rising(Cost, size, cur)'
  <2>1. \A j \in Positions : Cost'[j] = Cost[j]
    BY <1>10, <1>11 DEF Cost
  <2>2. \A j \in 1 .. n : Parent(j) \in Positions /\ Parent(j) # n
    BY <1>4, <1>10 DEF Parent
  <2>3. \A j \in 1 .. n - 1 : j \in Positions /\ Cost[Parent(j)] <= Cost[j]
    BY <1>2, <1>3, <1>10 DEF AtRest, InOrder
  <2>4. \A j \in 1 .. n : j # n => Cost'[Parent(j)] <= Cost'[j]
    BY <1>4, <2>1, <2>2, <2>3
  <2>5. size' - 1 = n /\ cur' = n
    BY <1>1, <1>3, <1>4
  <2>6. QED
    BY <2>2, <2>4, <2>5 DEF Rising, InOrder
<1>15. Priority!Put(size, v, c)
  <2>1. Live' = Live \cup {n}
    BY <1>9, <1>10, <1>11 DEF Live
  <2>2. \A g \in Live : g \in 0 .. capacity - 1 /\ g # n
    BY <1>1, <1>2, <1>3, PositionFacts
  <2>3. \A g \in Live : list'[g] = list[g]
    BY <1>9, <2>2
  <2>4. Queued' = [g \in Live \cup {n} |-> IF g = n THEN [value |-> v, cost |-> c] ELSE Queued[g]]
    BY <1>7, <1>9, <2>1, <2>2, <2>3 DEF Queued
  <2>5. DOMAIN Queued = Live
    BY DEF Queued
  <2>6. QED
    BY <1>1, <1>3, <2>4, <2>5 DEF Priority!Put
<1>16. size \in 0 .. MaxCapacity - 1
  BY <1>1, <1>3, <1>4, PQueueAssumption
<1>17. QED
  BY <1>1, <1>12, <1>13, <1>14, <1>15, <1>16 DEF IInv, OrderOK

\* The cheapest node of a heap is at its root.
LEMMA RootLeast ==
  ASSUME NEW n \in Nat, NEW f \in [0 .. n - 1 -> Int], n > 0, AtRest(f, n)
  PROVE  \A j \in 0 .. n - 1 : f[0] <= f[j]
<1> DEFINE D == {j \in 0 .. n - 1 : f[j] < f[0]}
<1>1. SUFFICES ASSUME D # {} PROVE FALSE
  OBVIOUS
<1>2. D \in SUBSET Nat
  OBVIOUS
<1> HIDE DEF D
<1>3. PICK d \in D : \A c \in D : d <= c
  BY <1>1, <1>2, LeastNatural
<1>4. d \in 1 .. n - 1 /\ f[d] < f[0] /\ f[d] \in Int /\ f[0] \in Int
  BY DEF D
<1>5. Parent(d) \in 0 .. n - 1 /\ Parent(d) \in Nat /\ Parent(d) < d /\ f[Parent(d)] \in Int
  BY <1>4, ParentIn
<1>6. f[Parent(d)] <= f[d]
  BY <1>4 DEF AtRest, InOrder
<1>7. Parent(d) \in D
  BY <1>4, <1>5, <1>6 DEF D
<1>8. QED
  BY <1>3, <1>4, <1>5, <1>7

\* PQUEUE_pop, of a queue that is not empty
LEMMA PopInv ==
  ASSUME IInv, Careful, Pop
  PROVE  IInv' /\ \E h \in 0 .. MaxCapacity - 1 : Priority!Take(h)
<1>1. /\ pc = "idle" /\ size > 0
      /\ popped' = list[refs[0]].value /\ size' = size - 1
      /\ IF size = 1
         THEN UNCHANGED <<list, refs, cur, pc>>
         ELSE /\ refs' = [refs EXCEPT ![0] = refs[size - 1]]
              /\ list' = [list EXCEPT ![refs[size - 1]].index = 0]
              /\ pc' = "down" /\ cur' = 0
      /\ UNCHANGED <<capacity, made, todo, allocated>>
  BY DEF Pop, MayPop, IInv, CountsOK
<1>2. CountsOK /\ LayoutOK /\ AtRest(Cost, size)
  BY <1>1 DEF IInv, OrderOK
<1>3. PICK n : n = size
  OBVIOUS
<1>4. n \in Nat /\ n > 0 /\ n <= capacity /\ capacity \in Nat /\ capacity <= MaxCapacity
  BY <1>1, <1>2, <1>3 DEF CountsOK
<1>5. Positions = 0 .. n - 1 /\ Positions' = 0 .. n - 2 /\ 0 \in Positions /\ n - 1 \in Positions
  BY <1>1, <1>3, <1>4 DEF Positions
<1>6. PICK h : h = refs[0]
  OBVIOUS
<1>7. PICK l : l = refs[n - 1]
  OBVIOUS
<1>8. /\ h \in 0 .. capacity - 1 /\ h \in Live /\ l \in 0 .. capacity - 1
      /\ list[h].value \in Values
  BY <1>2, <1>5, <1>6, <1>7, PositionFacts DEF LayoutOK, ItemsOK
<1>9. CountsOK'
  BY <1>1, <1>2, <1>3, <1>4, <1>6, <1>8 DEF CountsOK, MemoryBalanced
<1>10. /\ list \in [0 .. capacity - 1 -> Nodes] /\ refs \in [0 .. capacity - 1 -> Nat]
       /\ capacity' = capacity
  BY <1>1, <1>2 DEF LayoutOK, ArraysOK
<1>11. LayoutOK' /\ OrderOK' /\ Live' = Live \ {h}
       /\ \A g \in Live' : list'[g].value = list[g].value /\ list'[g].cost = list[g].cost
  <2>1. CASE n = 1
    <3>1. Positions' = {} /\ Live' = {} /\ Live = {h} /\ UNCHANGED <<list, refs, pc>>
      BY <1>1, <1>3, <1>5, <1>6, <2>1 DEF Live
    <3>2. LayoutOK'
      BY <1>10, <3>1 DEF LayoutOK, ArraysOK, LinksOK, ItemsOK
    <3>3. OrderOK'
      BY <1>1, <1>3, <2>1, <3>1 DEF OrderOK, AtRest
    <3>4. QED
      BY <3>1, <3>2, <3>3
  <2>2. CASE n > 1
    <3>1. /\ refs' = [refs EXCEPT ![0] = l] /\ list' = [list EXCEPT ![l].index = 0]
          /\ pc' = "down" /\ cur' = 0 /\ todo' = 0
      BY <1>1, <1>2, <1>3, <1>7, <2>2 DEF CountsOK
    <3>2. /\ refs' \in [0 .. capacity - 1 -> Nat] /\ refs'[0] = l
          /\ \A j \in 0 .. capacity - 1 : j # 0 => refs'[j] = refs[j]
      BY <1>4, <1>8, <1>10, <3>1
    <3>3. /\ list' \in [0 .. capacity - 1 -> Nodes] /\ list'[l].index = 0
          /\ \A k \in 0 .. capacity - 1 : /\ k # l => list'[k] = list[k]
                                          /\ list'[k].value = list[k].value
                                          /\ list'[k].cost = list[k].cost
      BY <1>8, <1>10, <3>1 DEF Nodes
    <3>4. ASSUME NEW j \in Positions', j # 0
          PROVE  /\ j \in Positions /\ j # n - 1 /\ refs'[j] = refs[j]
                 /\ refs[j] \in 0 .. capacity - 1 /\ refs[j] # l /\ refs[j] # h
                 /\ list'[refs[j]] = list[refs[j]]
      <4>1. j \in Positions /\ j # n - 1 /\ j \in 0 .. capacity - 1
        BY <1>4, <1>5, <3>4
      <4>2. refs[j] \in 0 .. capacity - 1 /\ refs[j] # l /\ refs[j] # h
        BY <1>2, <1>5, <1>6, <1>7, <3>4, <4>1, PositionFacts
      <4>3. QED
        BY <3>2, <3>3, <3>4, <4>1, <4>2
    <3>5. LinksOK'
      BY <1>2, <1>8, <1>10, <3>2, <3>3, <3>4 DEF LayoutOK, LinksOK
    <3>6. ItemsOK'
      BY <1>2, <1>5, <1>7, <1>8, <3>2, <3>3, <3>4 DEF LayoutOK, ItemsOK
    <3>7. LayoutOK'
      BY <1>10, <3>2, <3>3, <3>5, <3>6 DEF LayoutOK, ArraysOK
    <3>8. Live' = Live \ {h}
      <4>1. l # h /\ l \in Live
        BY <1>2, <1>4, <1>5, <1>6, <1>7, <2>2, PositionFacts
      <4>2. \A j \in Positions' : refs'[j] \in Live \ {h}
        BY <3>2, <3>4, <4>1 DEF Live
      <4>3. ASSUME NEW j \in Positions, refs[j] # h
            PROVE  \E i \in Positions' : refs'[i] = refs[j]
        <5>1. j # 0
          BY <1>6, <4>3
        <5>2. CASE j = n - 1
          <6>1. 0 \in Positions' /\ refs'[0] = refs[j]
            <7>1. 0 \in 0 .. n - 2
              BY <1>4, <2>2
            <7>2. QED
              BY <1>5, <1>7, <3>2, <5>2, <7>1
          <6>2. QED
            BY <6>1
        <5>3. CASE j # n - 1
          <6>1. j \in Positions'
            BY <1>4, <1>5, <5>1, <5>3
          <6>2. QED
            BY <3>4, <5>1, <6>1
        <5>4. QED
          BY <5>2, <5>3
      <4>4. QED
        BY <4>2, <4>3 DEF Live
    <3>9. \A j \in Positions' : j # 0 => Cost'[j] = Cost[j]
      BY <3>4 DEF Cost, CostAt
    <3>10. \A j \in 1 .. n - 2 : /\ Parent(j) \in Positions' /\ j \in Positions' /\ j # 0
                                 /\ Cost[Parent(j)] <= Cost[j]
      BY <1>2, <1>3, <1>4, <1>5 DEF AtRest, InOrder, Parent
    <3>11. Falling(Cost, size, cur, todo)'
      <4>1. size' - 1 = n - 2
        BY <1>1, <1>3, <1>4
      <4>2. QED
        BY <3>1, <3>9, <3>10, <4>1 DEF Falling, InOrder
    <3>12. OrderOK'
      BY <3>1, <3>11 DEF OrderOK
    <3>13. \A g \in Live' : g \in 0 .. capacity - 1
      BY <1>2, <3>8, PositionFacts
    <3>14. QED
      BY <3>3, <3>7, <3>8, <3>12, <3>13
  <2>3. QED
    BY <1>4, <2>1, <2>2
<1>12. Priority!Take(h)
  <2>1. DOMAIN Queued = Live /\ \A g \in Live : Queued[g] = [value |-> list[g].value, cost |-> list[g].cost]
    BY DEF Queued
  <2>2. ASSUME NEW g \in Live
        PROVE  Queued[h].cost <= Queued[g].cost
    <3>1. PICK j \in Positions : g = refs[j]
      BY DEF Live
    <3>2. Cost[0] <= Cost[j] /\ Cost[0] = CostAt(0) /\ Cost[j] = CostAt(j)
      BY <1>2, <1>3, <1>4, <1>5, PositionFacts, RootLeast
    <3>3. Queued[h].cost = CostAt(0) /\ Queued[g].cost = CostAt(j)
      BY <1>6, <1>8, <2>1, <3>1 DEF CostAt
    <3>4. QED
      BY <3>2, <3>3
  <2>3. Queued' = [g \in Live \ {h} |-> Queued[g]]
    BY <1>11, <2>1 DEF Queued
  <2>4. popped' = Queued[h].value
    BY <1>1, <1>6, <1>8, <2>1
  <2>5. QED
    BY <1>8, <2>1, <2>2, <2>3, <2>4 DEF Priority!Take
<1>13. h \in 0 .. MaxCapacity - 1
  BY <1>4, <1>8, PQueueAssumption
<1>14. QED
  BY <1>9, <1>11, <1>12, <1>13 DEF IInv

\* PQUEUE_update, of a node that is queued
LEMMA UpdateInv ==
  ASSUME IInv, Careful, NEW c \in Costs, NEW h, Update(h, c)
  PROVE  IInv' /\ h \in 0 .. MaxCapacity - 1 /\ Priority!Reprice(h, c)
<1>1. pc = "idle" /\ h \in Live /\ UNCHANGED <<refs, size, capacity, made, todo, popped, allocated>>
  BY DEF Update, MayUpdate
<1>2. CountsOK /\ LayoutOK /\ AtRest(Cost, size)
  BY <1>1 DEF IInv, OrderOK
<1>3. PICK k \in Positions : refs[k] = h
  BY <1>1 DEF Live
<1>4. /\ size \in Nat /\ k \in 0 .. size - 1 /\ k \in Nat /\ k < size
      /\ list[h].index = k /\ h \in 0 .. capacity - 1 /\ list[h].cost = CostAt(k)
      /\ Cost \in [0 .. size - 1 -> Int] /\ Cost[k] = CostAt(k) /\ c \in Int /\ todo = 0
  BY <1>1, <1>2, <1>3, PositionFacts, PQueueAssumption DEF Positions, CountsOK, CostAt
<1>5. /\ list' = [list EXCEPT ![h].cost = c] /\ cur' = k
      /\ pc' = IF c < Cost[k] THEN "up" ELSE "down"
  <2>1. ~(h >= capacity) /\ ~(list[h].index >= size)
    BY <1>2, <1>4 DEF CountsOK
  <2>2. QED
    BY <1>4, <2>1 DEF Update
<1>6. CountsOK'
  BY <1>1, <1>2, <1>4, <1>5 DEF CountsOK, MemoryBalanced
<1>7. /\ list \in [0 .. capacity - 1 -> Nodes] /\ refs \in [0 .. capacity - 1 -> Nat]
      /\ Positions' = Positions /\ Live' = Live
  BY <1>1, <1>2 DEF LayoutOK, ArraysOK, Positions, Live
<1>8. /\ list' \in [0 .. capacity - 1 -> Nodes] /\ list'[h].cost = c
      /\ list'[h].value = list[h].value /\ list'[h].index = list[h].index
      /\ \A g \in 0 .. capacity - 1 : g # h => list'[g] = list[g]
  BY <1>4, <1>5, <1>7 DEF Nodes
<1>9. ASSUME NEW j \in Positions, j # k
      PROVE  refs[j] \in 0 .. capacity - 1 /\ list'[refs[j]] = list[refs[j]]
  BY <1>2, <1>3, <1>8, <1>9, PositionFacts
<1>10. LayoutOK'
  <2>1. ArraysOK'
    BY <1>1, <1>7, <1>8 DEF ArraysOK
  <2>2. LinksOK'
    BY <1>1, <1>2, <1>3, <1>7, <1>8, <1>9 DEF LayoutOK, LinksOK
  <2>3. ItemsOK'
    BY <1>1, <1>2, <1>3, <1>7, <1>8, <1>9 DEF LayoutOK, ItemsOK
  <2>4. QED
    BY <2>1, <2>2, <2>3 DEF LayoutOK
<1>11. /\ Cost'[k] = c
       /\ \A j \in 0 .. size - 1 : j # k => Cost'[j] = Cost[j]
  BY <1>1, <1>3, <1>7, <1>8, <1>9 DEF Cost, CostAt, Positions
<1>12. \A j \in 1 .. size - 1 :
         /\ Parent(j) \in 0 .. size - 1 /\ Parent(j) \in Nat /\ Parent(j) < j
         /\ Cost[Parent(j)] <= Cost[j] /\ Cost[j] \in Int /\ Cost[Parent(j)] \in Int
  BY <1>2, <1>4, ParentIn DEF AtRest, InOrder
\* The children of k are not cheaper than its parent.
<1>13. ASSUME NEW j \in 1 .. size - 1, Parent(j) = k, k > 0
       PROVE  Cost'[Parent(k)] <= Cost'[j]
  <2>1. k \in 1 .. size - 1 /\ j # k /\ Parent(k) # k
    BY <1>4, <1>12, <1>13
  <2>2. Cost[Parent(k)] <= Cost[k] /\ Cost[k] <= Cost[j]
    BY <1>12, <1>13, <2>1
  <2>3. Cost'[Parent(k)] = Cost[Parent(k)] /\ Cost'[j] = Cost[j]
    BY <1>11, <1>12, <2>1
  <2>4. QED
    BY <1>4, <1>12, <2>1, <2>2, <2>3
<1>14. ASSUME NEW j \in 1 .. size - 1, j # k, Parent(j) # k
       PROVE  Cost'[Parent(j)] <= Cost'[j]
  BY <1>11, <1>12, <1>14
<1>15. OrderOK'
  <2>1. CASE c < Cost[k]
    <3>1. ASSUME NEW j \in 1 .. size - 1, Parent(j) = k
          PROVE  Cost'[Parent(j)] <= Cost'[j]
      <4>1. j # k /\ Cost[k] <= Cost[j]
        BY <1>4, <1>12, <3>1
      <4>2. QED
        BY <1>4, <1>11, <1>12, <2>1, <3>1, <4>1
    <3>2. Rising(Cost, size, cur)'
      BY <1>1, <1>5, <1>13, <1>14, <3>1 DEF Rising, InOrder
    <3>3. QED
      BY <1>5, <2>1, <3>2 DEF OrderOK
  <2>2. CASE ~(c < Cost[k])
    <3>1. ASSUME k > 0
          PROVE  Cost'[Parent(k)] <= Cost'[k]
      <4>1. k \in 1 .. size - 1 /\ Parent(k) # k
        BY <1>4, <1>12, <3>1
      <4>2. QED
        BY <1>4, <1>11, <1>12, <2>2, <4>1
    <3>2. \A j \in 1 .. size - 1 : Parent(j) # k => Cost'[Parent(j)] <= Cost'[j]
      BY <1>14, <3>1
    <3>3. Falling(Cost, size, cur, todo)'
      BY <1>1, <1>4, <1>5, <1>13, <3>2 DEF Falling, InOrder
    <3>4. QED
      BY <1>5, <2>2, <3>3 DEF OrderOK
  <2>3. QED
    BY <2>1, <2>2
<1>16. Priority!Reprice(h, c)
  <2>1. \A g \in Live : g \in 0 .. capacity - 1
    BY <1>2, PositionFacts
  <2>2. DOMAIN Queued = Live
    BY DEF Queued
  <2>3. Queued' = [Queued EXCEPT ![h].cost = c]
    BY <1>1, <1>7, <1>8, <2>1 DEF Queued
  <2>4. QED
    BY <1>1, <2>2, <2>3 DEF Priority!Reprice
<1>17. h \in 0 .. MaxCapacity - 1
  BY <1>2, <1>4, PQueueAssumption DEF CountsOK
<1>18. QED
  BY <1>6, <1>10, <1>15, <1>16, <1>17 DEF IInv

-----------------------------------------------------------------------------
\* The invariant holds in the empty queue, which is an empty set of items,
LEMMA InitInv ==
  ASSUME Init
  PROVE  IInv /\ Priority!Init
<1>1. /\ Positions = {} /\ size = 0 /\ capacity = 0 /\ made = FALSE /\ cur = 0 /\ todo = 0
      /\ popped = Nothing /\ allocated = 0 /\ pc = "idle" /\ list = NoNodes /\ refs = NoRefs
  BY DEF Init, Positions
<1>2. CountsOK
  <2>1. made \in BOOLEAN /\ (made <=> capacity > 0) /\ MemoryBalanced
    <3>1. ~(capacity > 0)
      BY <1>1
    <3>2. QED
      BY <1>1, <3>1, Zenon DEF MemoryBalanced
  <2>2. /\ size \in Nat /\ capacity \in Nat /\ size <= capacity /\ capacity <= MaxCapacity
        /\ cur \in Nat /\ todo \in Nat /\ todo = 0 /\ pc = "idle"
        /\ popped \in Values \cup {Nothing}
    BY <1>1, PQueueAssumption
  <2>3. QED
    BY <2>1, <2>2 DEF CountsOK
<1>3. LayoutOK
  BY <1>1 DEF LayoutOK, ArraysOK, LinksOK, ItemsOK, NoNodes, NoRefs
<1>4. OrderOK
  BY <1>1 DEF OrderOK, AtRest
<1>5. Priority!Init
  BY <1>1 DEF Priority!Init, Queued, Live
<1>6. QED
  BY <1>2, <1>3, <1>4, <1>5 DEF IInv

\* and every step keeps it, and is one of a set of items or none.
LEMMA StepInv ==
  ASSUME IInv, Careful, [Next]_vars
  PROVE  IInv' /\ [Priority!Next]_<<Queued, popped>>
<1>1. ASSUME NEW n \in 0 .. MaxBuild,
             NEW pairs \in [0 .. n - 1 -> [value : Values, cost : Costs]], Build(n, pairs)
      PROVE  IInv' /\ Priority!Next
  BY <1>1, BuildInv DEF Priority!Next
<1>2. ASSUME NEW c \in Costs, NEW v \in Values, Insert(v, c)
      PROVE  IInv' /\ Priority!Next
  <2>1. IInv' /\ size \in 0 .. MaxCapacity - 1 /\ Priority!Put(size, v, c)
    BY <1>2, InsertInv
  <2>2. QED
    BY <2>1 DEF Priority!Next
<1>3. ASSUME NEW c \in Costs, NEW h, Update(h, c)
      PROVE  IInv' /\ Priority!Next
  <2>1. IInv' /\ h \in 0 .. MaxCapacity - 1 /\ Priority!Reprice(h, c)
    BY <1>3, UpdateInv
  <2>2. QED
    BY <2>1 DEF Priority!Next
<1>4. CASE Pop
  <2>1. IInv' /\ \E h \in 0 .. MaxCapacity - 1 : Priority!Take(h)
    BY <1>4, PopInv
  <2>2. QED
    BY <2>1 DEF Priority!Next
<1>5. CASE Clear
  BY <1>5, ClearInv DEF Priority!Next
<1>6. CASE Sift
  <2>1. IInv' /\ UNCHANGED <<Queued, popped>>
    BY <1>6, SiftUpInv, SiftDownInv DEF Sift
  <2>2. QED
    BY <2>1
<1>7. CASE UNCHANGED vars
  <2>1. /\ UNCHANGED <<list, refs, size, capacity, made, cur, todo, popped, allocated, pc>>
        /\ CountsOK /\ LayoutOK /\ OrderOK
    BY <1>7 DEF vars, IInv
  <2>2. LayoutOK' /\ Queued' = Queued /\ Cost' = Cost
    BY <2>1, SameArrays
  <2>3. CountsOK'
    BY <2>1 DEF CountsOK, MemoryBalanced
  <2>4. OrderOK'
    BY <2>1, <2>2 DEF OrderOK, AtRest, Rising, Falling, InOrder
  <2>5. QED
    BY <2>1, <2>2, <2>3, <2>4 DEF IInv
<1>8. QED
  BY <1>1, <1>2, <1>3, <1>4, <1>5, <1>6, <1>7 DEF Next

\* The invariant of a careful client.
LEMMA Invariance ==
  ASSUME Careful
  PROVE  Spec => []IInv
<1>1. Init => IInv
  BY InitInv
<1>2. IInv /\ [Next]_vars => IInv'
  BY StepInv
<1>3. QED
  BY <1>1, <1>2, PTL DEF Spec

\* PQUEUE_*: the references stay inside the array of nodes, every running sift
\* inside the heap, and EZ_ALLOCATED() counts the two arrays.
THEOREM ReferencesInside ==
  ASSUME Careful
  PROVE  Spec => []TypeOK
<1>1. IInv => TypeOK
  <2>1. SUFFICES ASSUME IInv PROVE TypeOK
    OBVIOUS
  <2>2. CountsOK /\ LayoutOK /\ ArraysOK
    BY <2>1 DEF IInv, LayoutOK
  <2>3. Live \subseteq DOMAIN list
    BY <2>2, PositionFacts DEF ArraysOK
  <2>4. allocated \in Nat
    <3>1. CASE made
      BY <2>2, <3>1, HeaderAssumption DEF CountsOK, MemoryBalanced, Block
    <3>2. CASE ~made
      BY <2>2, <3>2 DEF CountsOK, MemoryBalanced
    <3>3. QED
      BY <3>1, <3>2
  <2>5. QED
    BY <2>2, <2>3, <2>4 DEF CountsOK, ArraysOK, Nodes, TypeOK
<1>2. QED
  BY <1>1, Invariance, PTL

\* PQUEUE_update finds the position of every queued node in its index, in the
\* middle of a sift, too.
THEOREM HandlesStayValid ==
  ASSUME Careful
  PROVE  Spec => []HandlesMatch
<1>1. IInv => HandlesMatch
  BY DEF IInv, LayoutOK, LinksOK, HandlesMatch
<1>2. QED
  BY <1>1, Invariance, PTL

\* The heap is in order, but for the position that heapU or heapD is at.
THEOREM HeapStaysOrdered ==
  ASSUME Careful
  PROVE  Spec => []HeapOrder
<1>1. IInv => HeapOrder
  <2>1. SUFFICES ASSUME IInv PROVE HeapOrder
    OBVIOUS
  <2>2. CountsOK /\ LayoutOK /\ OrderOK /\ size \in Nat /\ cur \in Nat
    BY <2>1 DEF IInv, CountsOK
  <2>3. \A j \in Positions \ {0} :
          /\ j \in 1 .. size - 1 /\ j \in Positions /\ Cost[j] = CostAt(j) /\ j < size
          /\ Parent(j) \in Positions /\ Parent(j) \in Nat /\ Parent(j) < j
          /\ Cost[Parent(j)] = CostAt(Parent(j))
          /\ CostAt(j) \in Int /\ CostAt(Parent(j)) \in Int
    BY <2>2, PositionFacts, ParentIn DEF Positions
  <2>4. CASE pc = "idle"
    BY <2>2, <2>3, <2>4 DEF OrderOK, AtRest, InOrder, HeapOrder, Ordered
  <2>5. CASE pc = "up"
    <3>1. \A j \in Positions \ {0} : j # cur => Ordered(j)
      BY <2>2, <2>3, <2>5 DEF OrderOK, Rising, InOrder, Ordered
    <3>2. ASSUME NEW j \in Positions \ {0}, Parent(j) = cur, cur > 0
          PROVE  CostAt(Parent(cur)) <= CostAt(j)
      <4>1. cur \in Positions \ {0}
        BY <2>2, <2>3, <3>2
      <4>2. Cost[Parent(cur)] <= Cost[j]
        BY <2>2, <2>3, <2>5, <3>2 DEF OrderOK, Rising
      <4>3. QED
        BY <2>3, <4>1, <4>2
    <3>3. QED
      BY <2>5, <3>1, <3>2 DEF HeapOrder
  <2>6. CASE pc = "down"
    <3>1. \A j \in Positions \ {0} : Parent(j) >= todo /\ Parent(j) # cur => Ordered(j)
      BY <2>2, <2>3, <2>6 DEF OrderOK, Falling, InOrder, Ordered
    <3>2. ASSUME NEW j \in Positions \ {0}, Parent(j) = cur, cur > 0, Parent(cur) >= todo
          PROVE  CostAt(Parent(cur)) <= CostAt(j)
      <4>1. cur \in Positions \ {0}
        BY <2>2, <2>3, <3>2
      <4>2. Cost[Parent(cur)] <= Cost[j]
        BY <2>2, <2>3, <2>6, <3>2 DEF OrderOK, Falling
      <4>3. QED
        BY <2>3, <4>1, <4>2
    <3>3. QED
      BY <2>6, <3>1, <3>2 DEF HeapOrder
  <2>7. CASE pc \notin {"idle", "up", "down"}
    BY <2>7 DEF HeapOrder
  <2>8. QED
    BY <2>4, <2>5, <2>6, <2>7
<1>2. QED
  BY <1>1, Invariance, PTL

\* PQUEUE_insert, PQUEUE_pop, PQUEUE_update, PQUEUE_build and PQUEUE_clear are
\* the operations of a set of items, of which pop takes one of least cost; a
\* sift changes none of it.
THEOREM HeapImplementsPriority ==
  ASSUME Careful
  PROVE  Spec => ImplementsPriority
<1>1. Init => Priority!Init
  BY InitInv
<1>2. IInv /\ [Next]_vars => [Priority!Next]_<<Queued, popped>>
  BY StepInv
<1>3. QED
  BY <1>1, <1>2, Invariance, PTL DEF Spec, Priority!Spec, ImplementsPriority

=============================================================================
