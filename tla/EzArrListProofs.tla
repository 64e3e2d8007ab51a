--------------------------- MODULE EzArrListProofs ---------------------------
(***************************************************************************)
(* What EzArrList guarantees for every set of elements, every width of     *)
(* size_t and every bound, whatever the client calls; and, in the second   *)
(* half, that the array list of a client whose ranges do not wrap          *)
(* implements the sequence of EzList.                                      *)
(***************************************************************************)
EXTENDS EzArrList, EzLemmas

-----------------------------------------------------------------------------
\* size_t arithmetic: what a sum or a difference of small numbers wraps to.
LEMMA Wrap ==
  ASSUME NEW x \in 0 .. WordSize - 1
  PROVE  /\ x % WordSize = x
         /\ (x + WordSize) % WordSize = x
         /\ (x - WordSize) % WordSize = x
<1>1. WordSize \in Nat \ {0}
  BY ArrListAssumption
<1>2. QED
  BY <1>1, SMT

\* A range that passes the test of ARRLIST_REMOVE_RANGE moves exactly what is
\* behind its end; if its end wrapped, the size grows by what is missing.
LEMMA RangeFacts ==
  ASSUME NEW n \in 0 .. MaxSize, NEW first \in 0 .. WordSize - 1,
         NEW count \in 1 .. WordSize - 1,
         (first + count) % WordSize <= n
  PROVE  LET end   == (first + count) % WordSize
             moved == (n - first - count) % WordSize
         IN  /\ end \in Nat /\ moved \in Nat /\ end + moved = n
             /\ (n - count) % WordSize \in Nat
             /\ first + moved <= WordSize - 1 => (n - count) % WordSize = first + moved
<1>1. /\ WordSize \in Nat /\ MaxSize \in Nat /\ MaxSize < WordSize
  BY ArrListAssumption
<1>2. CASE first + count < WordSize
  <2>1. (first + count) % WordSize = first + count
    BY <1>1, <1>2, Wrap
  <2>2. n - first - count \in 0 .. WordSize - 1 /\ n - count \in 0 .. WordSize - 1
    BY <1>1, <2>1
  <2>3. QED
    BY <1>1, <2>1, <2>2, Wrap
<1>3. CASE first + count >= WordSize
  <2> DEFINE end == first + count - WordSize
  <2>1. end \in 0 .. WordSize - 1
    BY <1>1, <1>3
  <2>2. (first + count) % WordSize = end
    <3>1. (end + WordSize) % WordSize = end
      BY <2>1, Wrap
    <3>2. QED
      BY <1>1, <3>1
  <2>3. n - end \in 0 .. WordSize - 1
    BY <1>1, <2>1, <2>2
  <2>4. (n - first - count) % WordSize = n - end
    <3>1. (n - end - WordSize) % WordSize = n - end
      BY <2>3, Wrap
    <3>2. n - end - WordSize = n - first - count
      BY <1>1
    <3>3. QED
      BY <3>1, <3>2
  <2>5. (n - count) % WordSize \in Nat
    BY <1>1, SMT
  <2>6. ASSUME first + n - end <= WordSize - 1
        PROVE  (n - count) % WordSize = first + n - end
    <3> DEFINE x == first + n - end
    <3>1. x \in 0 .. WordSize - 1
      BY <1>1, <2>3, <2>6
    <3>2. x - WordSize = n - count
      BY <1>1
    <3> HIDE DEF x
    <3>3. (x - WordSize) % WordSize = x
      BY <3>1, Wrap
    <3>4. (n - count) % WordSize = x
      BY <3>2, <3>3
    <3>5. QED
      BY <3>4 DEF x
  <2>7. QED
    BY <1>1, <2>1, <2>2, <2>3, <2>4, <2>5, <2>6
<1>4. QED
  BY <1>1, <1>2, <1>3

-----------------------------------------------------------------------------
\* The inductive invariant: the block keeps to its bound, so that no index
\* wraps, and no byte is freed twice.
IInv ==
  /\ TypeOK
  /\ maxsize <= MaxSize
  /\ Lost \in Nat

\* TypeOK in two parts: the two flags, and the rest.
FlagsOK == made \in BOOLEAN /\ careful \in BOOLEAN

ShapeOK ==
  /\ maxsize \in Nat /\ size \in Nat
  /\ data \in [0 .. maxsize - 1 -> Elements \cup {Zero}]
  /\ (maxsize > 0 => made)
  /\ allocated \in Nat
  /\ pending \in (Elements \X Nat) \cup {NoPair}
  /\ pc \in {"idle", "insert", "remove", "fatal", "overrun"}
  /\ pc # "overrun" => size <= maxsize
  /\ cur \in Nat /\ (pc \in {"insert", "remove"} => cur < size)
  /\ pc = "insert" => pending # NoPair /\ pending[2] <= cur

\* TypeOK is the two parts together.
LEMMA TypeParts == (FlagsOK /\ ShapeOK => TypeOK) /\ (FlagsOK' /\ ShapeOK' => TypeOK')
BY Zenon DEF FlagsOK, ShapeOK, TypeOK

\* The empty list satisfies the invariant.
LEMMA InitInv == Init => IInv
<1> SUFFICES ASSUME Init PROVE IInv
  OBVIOUS
<1>1. 0 .. maxsize - 1 = {}
  BY DEF Init
<1>2. data \in [0 .. maxsize - 1 -> Elements \cup {Zero}]
  BY <1>1 DEF Init, NoData
<1>3. ShapeOK
  BY <1>2 DEF Init, ShapeOK
<1>4. FlagsOK
  BY Zenon DEF Init, FlagsOK
<1>5. QED
  BY <1>3, <1>4, TypeParts, ArrListAssumption DEF Init, IInv, Lost

\* The list with one more element, inside its block.
Grown ==
  /\ maxsize' \in Nat /\ size' \in Nat /\ size' = size + 1 /\ size' <= maxsize'
  /\ data' \in [0 .. maxsize' - 1 -> Elements \cup {Zero}]
  /\ allocated' \in Nat
  /\ maxsize' > 0 => made'

\* What a call of ARRLIST_add does to the invariant and to the byte counter.
AddedLast ==
  /\ Grown
  /\ made' = TRUE
  /\ maxsize' <= MaxSize
  /\ Lost' \in Nat
  /\ Lost' # Lost => /\ made /\ maxsize = 0 /\ maxsize' = 1
                     /\ Lost' = Lost + Block(0)

\* ARRLIST_add keeps the block and its accounting in order, also when it
\* doubles the block or makes the first one.
LEMMA AddLastInv ==
  ASSUME IInv, pc = "idle", NEW e \in Elements, AddLast(e)
  PROVE  AddedLast
<1> USE ArrListAssumption, HeaderAssumption
<1> USE DEF IInv, TypeOK, AddLast, AddedLast, Grown, Lost, Allocated, Reallocated, Block
<1>1. CASE maxsize = 0
  BY <1>1
<1>2. CASE maxsize # 0 /\ size < maxsize
  BY <1>2 DEF Resized
<1>3. CASE maxsize # 0 /\ size = maxsize
  <2>1. maxsize' = maxsize * 2 /\ size' = size + 1 /\ maxsize' <= MaxSize
        /\ data' = [Resized(maxsize') EXCEPT ![size] = e]
    BY <1>3
  <2>2. data' \in [0 .. maxsize' - 1 -> Elements \cup {Zero}]
    BY <1>3, <2>1 DEF Resized
  <2>3. made /\ allocated' = Reallocated(allocated, maxsize, maxsize') /\ made' = TRUE
    BY <1>3
  <2>4. allocated' = allocated + maxsize /\ Lost' = Lost
    BY <1>3, <2>1, <2>3
  <2>5. QED
    BY <1>3, <2>1, <2>2, <2>3, <2>4
<1>4. QED
  BY <1>1, <1>2, <1>3

\* ARRLIST_add as a call of its own.
LEMMA AddInv ==
  ASSUME IInv, NEW e \in Elements, Add(e)
  PROVE  IInv'
<1> USE ArrListAssumption, HeaderAssumption
<1>1. pc = "idle" /\ AddLast(e) /\ UNCHANGED <<cur, pending, pc, careful>>
  BY DEF Add
<1>2. AddedLast
  BY <1>1, AddLastInv
<1>3. ShapeOK'
  <2>1. size \in Nat /\ cur \in Nat /\ pending \in (Elements \X Nat) \cup {NoPair}
    BY DEF IInv, TypeOK
  <2>2. Grown
    BY <1>2 DEF AddedLast
  <2>3. QED
    BY <1>1, <2>1, <2>2, Zenon DEF Grown, ShapeOK
<1>4. FlagsOK'
  BY <1>1, <1>2, Zenon DEF IInv, TypeOK, FlagsOK, AddedLast
<1>5. QED
  BY <1>2, <1>3, <1>4, TypeParts DEF IInv, AddedLast

\* ARRLIST_insert up to its loop: the loop starts at an element of the list.
LEMMA InsertInv ==
  ASSUME IInv, NEW e \in Elements, NEW index \in 0 .. MaxSize, Insert(e, index)
  PROVE  IInv'
<1> USE ArrListAssumption, HeaderAssumption
<1>1. pc = "idle" /\ UNCHANGED careful
  BY DEF Insert
<1>2. CASE index > size
  BY <1>1, <1>2 DEF Insert, IInv, TypeOK, Lost
<1>3. CASE index <= size
  <2>1. /\ AddLast(e)
        /\ index = size => UNCHANGED <<cur, pending, pc>>
        /\ index # size => pc' = "insert" /\ cur' = size' - 1 /\ pending' = <<e, index>>
    BY <1>3 DEF Insert, IInv, TypeOK
  <2>2. AddedLast
    BY <1>1, <2>1, AddLastInv
  <2>3. size \in Nat /\ cur \in Nat /\ pending \in (Elements \X Nat) \cup {NoPair}
    BY DEF IInv, TypeOK
  <2>4. ShapeOK'
    <3>1. Grown
      BY <2>2 DEF AddedLast
    <3>2. CASE index = size
      BY <1>1, <2>1, <2>3, <3>1, <3>2, Zenon DEF Grown, ShapeOK
    <3>3. CASE index # size
      <4>1. pending' \in Elements \X Nat /\ pending' # NoPair /\ pending'[2] = index
        BY <2>1, <3>3 DEF NoPair
      <4>2. index <= cur' /\ cur' \in Nat /\ cur' < size' /\ pc' = "insert"
        BY <1>3, <2>1, <2>3, <3>1, <3>3 DEF Grown
      <4>3. QED
        BY <2>3, <3>1, <4>1, <4>2, Zenon DEF Grown, ShapeOK
    <3>4. QED
      BY <3>2, <3>3
  <2>5. FlagsOK'
    BY <1>1, <2>2, Zenon DEF IInv, TypeOK, FlagsOK, AddedLast
  <2>6. QED
    BY <2>2, <2>4, <2>5, TypeParts DEF IInv, AddedLast
<1>4. QED
  BY <1>2, <1>3 DEF IInv, TypeOK

\* The shifting loops.
LEMMA ShiftInv ==
  ASSUME IInv, Shift
  PROVE  IInv'
<1> USE ArrListAssumption, HeaderAssumption
<1> USE DEF IInv, TypeOK, Lost
<1>1. CASE ShiftUp
  BY <1>1 DEF ShiftUp, NoPair
<1>2. CASE ShiftDown
  BY <1>2 DEF ShiftDown, NoPair
<1>3. QED
  BY <1>1, <1>2 DEF Shift

\* ARRLIST_remove up to its loop.
LEMMA RemoveInv ==
  ASSUME IInv, NEW index \in 0 .. MaxSize, Remove(index)
  PROVE  IInv'
BY DEF Remove, IInv, TypeOK, Lost

\* ARRLIST_REMOVE_RANGE: what it moves fits the block, or it overruns it.
LEMMA RemoveRangeInv ==
  ASSUME IInv, NEW first \in 0 .. WordSize - 1, NEW count \in 0 .. WordSize - 1,
         RemoveRange(first, count)
  PROVE  IInv'
<1> USE ArrListAssumption, HeaderAssumption
<1> DEFINE end   == (first + count) % WordSize
           moved == (size - first - count) % WordSize
<1>1. pc = "idle" /\ count > 0 /\ end <= size
  BY DEF RemoveRange
<1>2. size \in 0 .. MaxSize /\ count \in 1 .. WordSize - 1
  BY <1>1 DEF IInv, TypeOK
<1>3. /\ end \in Nat /\ moved \in Nat /\ end + moved = size
      /\ (size - count) % WordSize \in Nat
      /\ first + moved <= WordSize - 1 => (size - count) % WordSize = first + moved
  BY <1>1, <1>2, RangeFacts, ZenonT(30)
<1>4. /\ size' = (size - count) % WordSize
      /\ UNCHANGED <<maxsize, made, cur, pending, allocated, careful>>
  BY DEF RemoveRange
<1> HIDE DEF end, moved
<1>5. CASE first + moved > maxsize
  <2>1. pc' = "overrun" /\ UNCHANGED data
    BY <1>5 DEF RemoveRange, moved
  <2>2. QED
    BY <1>3, <1>4, <2>1 DEF IInv, TypeOK, Lost
<1>6. CASE first + moved <= maxsize
  <2>1. /\ data' = [i \in DOMAIN data |->
                      IF i \in first .. first + moved - 1
                      THEN data[end + i - first] ELSE data[i]]
        /\ pc' = "idle"
    BY <1>1, <1>3, <1>6 DEF RemoveRange, end, moved, IInv, TypeOK
  <2>2. data' \in [0 .. maxsize - 1 -> Elements \cup {Zero}]
    BY <1>1, <1>3, <1>6, <2>1 DEF IInv, TypeOK
  <2>3. size' <= maxsize
    BY <1>3, <1>4, <1>6 DEF IInv, TypeOK
  <2>4. QED
    BY <1>1, <1>3, <1>4, <2>1, <2>2, <2>3 DEF IInv, TypeOK, Lost
<1>7. QED
  BY <1>3, <1>5, <1>6 DEF IInv, TypeOK

\* ARRLIST_clear, ARRLIST_zero and ARRLIST_wipe.
LEMMA ResetInv ==
  ASSUME IInv, Clear \/ Wipe \/ \E n \in 0 .. MaxSize : ZeroList(n)
  PROVE  IInv'
<1> USE ArrListAssumption, HeaderAssumption
<1> USE DEF IInv, TypeOK, Lost, Released, Freed, Allocated, Block
<1>1. CASE Clear
  <2>1. 0 .. maxsize' - 1 = {}
    BY <1>1 DEF Clear
  <2>2. data' \in [0 .. maxsize' - 1 -> Elements \cup {Zero}]
    BY <1>1, <2>1 DEF Clear, NoData
  <2>3. ShapeOK'
    BY <1>1, <2>2 DEF Clear, ShapeOK
  <2>4. FlagsOK'
    BY <1>1, Zenon DEF Clear, FlagsOK
  <2>5. QED
    BY <1>1, <2>3, <2>4, TypeParts DEF Clear
<1>2. CASE Wipe
  BY <1>2 DEF Wipe
<1>3. ASSUME NEW n \in 0 .. MaxSize, ZeroList(n)
      PROVE  IInv'
  BY <1>3 DEF ZeroList
<1>4. QED
  BY <1>1, <1>2, <1>3

\* Every step keeps the invariant.
LEMMA StepInv == IInv /\ [Next]_vars => IInv'
<1> USE ArrListAssumption, HeaderAssumption
<1> SUFFICES ASSUME IInv, [Next]_vars PROVE IInv'
  OBVIOUS
<1>1. CASE UNCHANGED vars
  BY <1>1 DEF vars, IInv, TypeOK, Lost
<1>2. ASSUME NEW e \in Elements, Add(e) \/ \E i \in 0 .. MaxSize : Insert(e, i)
      PROVE  IInv'
  BY <1>2, AddInv, InsertInv
<1>3. ASSUME (\E i \in 0 .. MaxSize : Remove(i))
               \/ \E i, n \in 0 .. WordSize - 1 : RemoveRange(i, n)
      PROVE  IInv'
  BY <1>3, RemoveInv, RemoveRangeInv
<1>4. QED
  BY <1>1, <1>2, <1>3, ShiftInv, ResetInv DEF Next

\* The invariant holds in every reachable state.
LEMMA Invariance == Spec => []IInv
BY InitInv, StepInv, PTL DEF Spec

-----------------------------------------------------------------------------
\* Whatever is called, every element of the list lies inside its block, until
\* a wrapped range overruns it.
THEOREM ListInsideItsBlock == Spec => []TypeOK
<1>1. IInv => TypeOK
  BY DEF IInv
<1>2. QED
  BY <1>1, Invariance, PTL

\* A step that loses memory is the one of ARRLIST_add on an empty block.
LEMMA StepLoses ==
  ASSUME IInv, [Next]_vars
  PROVE  Lost' # Lost =>
           /\ made /\ maxsize = 0 /\ maxsize' = 1
           /\ Lost' = Lost + Block(0)
<1> USE ArrListAssumption, HeaderAssumption
<1>1. CASE UNCHANGED vars
  BY <1>1 DEF vars, Lost
<1>2. ASSUME NEW e \in Elements, AddLast(e), pc = "idle"
      PROVE  Lost' # Lost =>
               /\ made /\ maxsize = 0 /\ maxsize' = 1
               /\ Lost' = Lost + Block(0)
  BY <1>2, AddLastInv DEF AddedLast
<1>3. ASSUME NEW e \in Elements, Add(e) \/ \E i \in 0 .. MaxSize : Insert(e, i)
      PROVE  (pc = "idle" /\ AddLast(e)) \/ UNCHANGED <<maxsize, made, allocated>>
  BY <1>3 DEF Add, Insert
<1>4. ASSUME NEW i \in 0 .. MaxSize, ZeroList(i)
      PROVE  Lost' = Lost
  BY <1>4 DEF ZeroList, IInv, TypeOK, Lost, Released, Freed, Allocated, Block
<1>5. CASE Clear
  BY <1>5 DEF Clear, IInv, TypeOK, Lost, Released, Freed, Block
<1>6. ASSUME (\E i \in 0 .. MaxSize : Remove(i))
               \/ \E i, n \in 0 .. WordSize - 1 : RemoveRange(i, n)
      PROVE  Lost' = Lost
  BY <1>6 DEF Remove, RemoveRange, Lost
<1>7. CASE Shift \/ Wipe
  BY <1>7 DEF Shift, ShiftUp, ShiftDown, Wipe, Lost
<1>8. UNCHANGED <<maxsize, made, allocated>> => Lost' = Lost
  BY DEF Lost
<1>9. QED
  BY <1>1, <1>2, <1>3, <1>4, <1>5, <1>6, <1>7, <1>8 DEF Next

\* Memory is lost where ARRLIST_add finds the empty block that
\* ARRLIST_zero(list, 0) made, and nowhere else, whatever is called.
THEOREM OnlyZeroLosesMemory == Spec => OnlyZeroLeaks
<1>1. IInv /\ [Next]_vars =>
        [Lost' # Lost => /\ made /\ maxsize = 0 /\ maxsize' = 1
                         /\ Lost' = Lost + Block(0)]_vars
  BY StepLoses
<1>2. QED
  BY <1>1, Invariance, PTL DEF Spec, OnlyZeroLeaks

-----------------------------------------------------------------------------
-----------------------------------------------------------------------------
\* What a slot may hold.
Slots == Elements \cup {Zero}

\* The two forms of Contents: n slots of the block d, or all of them but the
\* free slot c.
Whole(d, n) == [i \in 1 .. n |-> d[i - 1]]
Gapped(d, n, c) == [i \in 1 .. n - 1 |-> IF i - 1 < c THEN d[i - 1] ELSE d[i]]

\* Contents has a gap while a loop runs, and none otherwise.
LEMMA ContentsForms ==
  /\ pc \in {"insert", "remove"} => Contents = Gapped(data, size, cur)
  /\ pc \in {"idle", "fatal"} => Contents = Whole(data, size)
  /\ pc' \in {"insert", "remove"} => Contents' = Gapped(data', size', cur')
  /\ pc' \in {"idle", "fatal"} => Contents' = Whole(data', size')
BY DEF Contents, Whole, Gapped

\* Contents without a gap, element by element.
LEMMA WholeFacts ==
  ASSUME NEW m \in Nat, NEW d \in [0 .. m - 1 -> Slots], NEW n \in 0 .. m
  PROVE  /\ Whole(d, n) \in Seq(Slots) /\ Len(Whole(d, n)) = n
         /\ \A j \in 1 .. n : Whole(d, n)[j] = d[j - 1]
BY DEF Whole

\* Contents with a gap, element by element.
LEMMA GappedFacts ==
  ASSUME NEW m \in Nat, NEW d \in [0 .. m - 1 -> Slots], NEW n \in 1 .. m, NEW c \in Nat
  PROVE  /\ Gapped(d, n, c) \in Seq(Slots) /\ Len(Gapped(d, n, c)) = n - 1
         /\ \A j \in 1 .. n - 1 :
              Gapped(d, n, c)[j] = IF j - 1 < c THEN d[j - 1] ELSE d[j]
BY DEF Gapped

-----------------------------------------------------------------------------
\* What a careful client can rely on besides: its ranges overrun nothing.
CInv == IInv /\ careful /\ pc # "overrun"

\* The inductive invariant of the refinement, for either client.
EitherInv == IInv /\ (careful => pc # "overrun")

\* What the invariant says of the list and of its block.
LEMMA InBlock ==
  ASSUME CInv
  PROVE  /\ maxsize \in Nat /\ data \in [0 .. maxsize - 1 -> Slots]
         /\ size \in 0 .. maxsize /\ cur \in Nat
         /\ pc \in {"insert", "remove"} => cur < size
         /\ pc = "idle" => Contents \in Seq(Slots) /\ Len(Contents) = size
BY ContentsForms, WholeFacts DEF CInv, IInv, TypeOK, Slots

\* An index below one bound is below a greater one.
LEMMA InRange ==
  ASSUME NEW n \in Nat, NEW k \in Nat, NEW m \in Nat, n <= k, k <= m, NEW j \in 0 .. n - 1
  PROVE  j \in 0 .. m - 1 /\ j < k /\ j # n
OBVIOUS

\* ARRLIST_add leaves the elements where they are and puts e behind them.
LEMMA AddLastData ==
  ASSUME CInv, pc = "idle", NEW e \in Elements, AddLast(e)
  PROVE  /\ data' \in [0 .. maxsize' - 1 -> Slots] /\ maxsize' \in Nat
         /\ size' = size + 1 /\ size' <= maxsize'
         /\ \A j \in 0 .. size - 1 : data'[j] = data[j]
         /\ data'[size] = e
<1>1. data' \in [0 .. maxsize' - 1 -> Slots] /\ maxsize' \in Nat
      /\ size' = size + 1 /\ size' <= maxsize'
  BY AddLastInv DEF CInv, AddedLast, Grown, Slots
<1>2. maxsize \in Nat /\ size \in 0 .. maxsize
  BY InBlock
<1>3. CASE maxsize = 0
  <2>1. size = 0 /\ data' = [i \in {0} |-> e]
    BY <1>2, <1>3 DEF AddLast
  <2>2. data'[size] = e
    BY <2>1
  <2>3. \A j \in 0 .. size - 1 : FALSE
    BY <2>1
  <2>4. QED
    BY <1>1, <2>2, <2>3, Zenon
<1>4. CASE maxsize # 0
  <2>1. data' = [Resized(maxsize') EXCEPT ![size] = e] /\ maxsize' >= maxsize
    BY <1>2, <1>4 DEF AddLast
  <2>2. ASSUME NEW j \in 0 .. size - 1 PROVE data'[j] = data[j]
    <3>1. j \in 0 .. maxsize' - 1 /\ j < maxsize /\ j # size
      <4>1. size \in Nat /\ size <= maxsize /\ maxsize \in Nat
            /\ maxsize' >= maxsize /\ maxsize' \in Nat
        BY <1>1, <1>2, <2>1
      <4>2. QED
        BY <4>1, InRange
    <3>2. Resized(maxsize')[j] = data[j]
      BY <3>1 DEF Resized
    <3>3. DOMAIN Resized(maxsize') = 0 .. maxsize' - 1
      BY DEF Resized
    <3>4. QED
      BY <2>1, <3>1, <3>2, <3>3
  <2>3. data'[size] = e
    BY <1>1, <1>2, <2>1 DEF Resized
  <2>4. QED
    BY <1>1, <2>2, <2>3
<1>5. QED
  BY <1>1, <1>2, <1>3, <1>4

-----------------------------------------------------------------------------
\* How a step of EzList shows in Contents, for a careful client.
LEMMA Inserted ==
  ASSUME careful, careful',
         Contents \in Seq(Slots), Contents' \in Seq(Slots),
         NEW e \in Elements, NEW i \in 0 .. Len(Contents),
         Len(Contents') = Len(Contents) + 1,
         \A j \in 1 .. Len(Contents') :
           Contents'[j] = IF j <= i THEN Contents[j]
                          ELSE IF j = i + 1 THEN e ELSE Contents[j - 1]
  PROVE  List!Next
<1>1. Items = Contents /\ Items' = Contents'
  BY Zenon DEF Items
<1>2. e \in Slots
  BY DEF Slots
<1> HIDE DEF Contents, Items
<1>3. Contents' = SubSeq(Contents, 1, i) \o <<e>> \o SubSeq(Contents, i + 1, Len(Contents))
  BY <1>2, InsertSeq
<1>4. List!Insert(i, e)
  BY <1>1, <1>3, Zenon DEF List!Insert, List!Before, List!From
<1>5. QED
  BY <1>1, <1>4, Zenon DEF List!Next

\* Contents without n elements: a removal of EzList.
LEMMA Removed ==
  ASSUME careful, careful',
         Contents \in Seq(Slots), Contents' \in Seq(Slots),
         NEW i \in 0 .. Len(Contents), NEW n \in 0 .. Len(Contents),
         i + n <= Len(Contents),
         Len(Contents') = Len(Contents) - n,
         \A j \in 1 .. Len(Contents') :
           Contents'[j] = IF j <= i THEN Contents[j] ELSE Contents[j + n]
  PROVE  List!Next
<1>1. Items = Contents /\ Items' = Contents'
  BY Zenon DEF Items
<1> HIDE DEF Contents, Items
<1>2. Contents' = SubSeq(Contents, 1, i) \o SubSeq(Contents, i + n + 1, Len(Contents))
  BY RemoveSeq
<1>3. List!Remove(i, n)
  BY <1>1, <1>2, Zenon DEF List!Remove, List!Before, List!From
<1>4. QED
  BY <1>1, <1>3, Zenon DEF List!Next

\* Contents as they were: a stutter of EzList.
LEMMA Unchanged ==
  ASSUME careful, careful',
         Contents \in Seq(Slots), Contents' \in Seq(Slots),
         Len(Contents') = Len(Contents),
         \A j \in 1 .. Len(Contents') : Contents'[j] = Contents[j]
  PROVE  UNCHANGED Items
<1>1. Items = Contents /\ Items' = Contents'
  BY Zenon DEF Items
<1> HIDE DEF Contents, Items
<1>2. Contents' = Contents
  BY SeqEqual
<1>3. QED
  BY <1>1, <1>2

-----------------------------------------------------------------------------
\* Each action of the array list.  ARRLIST_add inserts at the end.
LEMMA AddLastStep ==
  ASSUME CInv, NEW e \in Elements, pc = "idle", AddLast(e),
         UNCHANGED <<pc, careful>>
  PROVE  List!Next
<1>1. pc' = "idle"
  OBVIOUS
<1>2. careful /\ careful'
  BY Zenon DEF CInv
<1>3. /\ data' \in [0 .. maxsize' - 1 -> Slots] /\ maxsize' \in Nat
      /\ size' = size + 1 /\ size' <= maxsize'
      /\ \A j \in 0 .. size - 1 : data'[j] = data[j]
      /\ data'[size] = e
  BY AddLastData
<1>4. /\ maxsize \in Nat /\ data \in [0 .. maxsize - 1 -> Slots]
      /\ size \in 0 .. maxsize
  BY InBlock
<1>5. Contents = Whole(data, size) /\ Contents' = Whole(data', size')
  BY <1>1, ContentsForms
<1>6. /\ Contents \in Seq(Slots) /\ Len(Contents) = size
      /\ \A j \in 1 .. size : Contents[j] = data[j - 1]
  BY <1>4, <1>5, WholeFacts
<1>7. /\ Contents' \in Seq(Slots) /\ Len(Contents') = size + 1
      /\ \A j \in 1 .. size + 1 : Contents'[j] = data'[j - 1]
  <2>1. size' \in 0 .. maxsize'
    BY <1>3, <1>4
  <2>2. QED
    BY <1>3, <1>5, <2>1, WholeFacts
<1> HIDE DEF Contents
<1>8. ASSUME NEW j \in 1 .. Len(Contents')
      PROVE  Contents'[j] = IF j <= size THEN Contents[j]
                            ELSE IF j = size + 1 THEN e ELSE Contents[j - 1]
  <2>1. j \in Nat /\ 1 <= j /\ j <= size + 1 /\ Contents'[j] = data'[j - 1]
    BY <1>4, <1>7
  <2>2. CASE j <= size
    <3>1. j \in 1 .. size /\ j - 1 \in 0 .. size - 1
      BY <1>4, <2>1, <2>2
    <3>2. QED
      BY <1>3, <1>6, <2>1, <2>2, <3>1
  <2>3. CASE j = size + 1
    <3>1. j - 1 = size /\ ~(j <= size)
      BY <1>4, <2>3
    <3>2. QED
      BY <1>3, <2>1, <2>3, <3>1
  <2>4. QED
    BY <1>4, <2>1, <2>2, <2>3
<1>9. size \in 0 .. Len(Contents)
  BY <1>4, <1>6
<1>10. QED
  BY <1>2, <1>6, <1>7, <1>8, <1>9, Inserted

\* ARRLIST_insert before its loop inserts at the end, or nothing yet.
LEMMA InsertStep ==
  ASSUME CInv, NEW e \in Elements, NEW index \in 0 .. MaxSize, Insert(e, index)
  PROVE  List!Next \/ UNCHANGED Items
<1>1. pc = "idle" /\ careful /\ careful'
  BY Zenon DEF CInv, Insert
<1>2. /\ maxsize \in Nat /\ data \in [0 .. maxsize - 1 -> Slots]
      /\ size \in 0 .. maxsize
  BY InBlock
<1>3. /\ Contents = Whole(data, size) /\ Contents \in Seq(Slots) /\ Len(Contents) = size
      /\ \A j \in 1 .. size : Contents[j] = data[j - 1]
  BY <1>1, <1>2, ContentsForms, WholeFacts
<1>4. CASE index > size
  <2>1. pc' = "fatal" /\ UNCHANGED <<data, size>>
    BY <1>4 DEF Insert
  <2>2. Contents' = Contents
    BY <1>3, <2>1, ContentsForms
  <2>3. QED
    BY <1>1, <2>2, Zenon DEF Items
<1>5. CASE index = size
  <2>1. AddLast(e) /\ UNCHANGED <<pc, careful>>
    BY <1>2, <1>5 DEF Insert
  <2>2. QED
    BY <1>1, <2>1, AddLastStep
<1>6. CASE index < size
  <2>1. AddLast(e) /\ pc' = "insert" /\ cur' = size' - 1
    BY <1>2, <1>6 DEF Insert
  <2>2. /\ data' \in [0 .. maxsize' - 1 -> Slots] /\ maxsize' \in Nat
        /\ size' = size + 1 /\ size' <= maxsize'
        /\ \A j \in 0 .. size - 1 : data'[j] = data[j]
    BY <1>1, <2>1, AddLastData
  <2>3. Contents' = Gapped(data', size', cur') /\ cur' = size
    BY <1>2, <2>1, <2>2, ContentsForms
  <2>4. size' \in 1 .. maxsize' /\ cur' \in Nat /\ size' - 1 = size
    BY <1>2, <2>2, <2>3
  <2>5. /\ Contents' \in Seq(Slots) /\ Len(Contents') = size
        /\ \A j \in 1 .. size : Contents'[j] = IF j - 1 < size THEN data'[j - 1] ELSE data'[j]
    <3>1. /\ Gapped(data', size', size) \in Seq(Slots)
          /\ Len(Gapped(data', size', size)) = size' - 1
          /\ \A j \in 1 .. size' - 1 :
               Gapped(data', size', size)[j] = IF j - 1 < size THEN data'[j - 1] ELSE data'[j]
      <4>1. size \in Nat
        BY <1>2
      <4>2. QED
        BY <2>2, <2>4, <4>1, GappedFacts
    <3>2. QED
      BY <2>3, <2>4, <3>1
  <2> HIDE DEF Contents
  <2>6. ASSUME NEW j \in 1 .. size PROVE Contents'[j] = Contents[j]
    <3>1. j - 1 \in 0 .. size - 1 /\ j - 1 < size
      BY <1>2
    <3>2. QED
      BY <1>3, <2>2, <2>5, <3>1
  <2>7. QED
    BY <1>1, <1>3, <2>5, <2>6, Unchanged
<1>7. QED
  BY <1>2, <1>4, <1>5, <1>6

\* A turn of its loop moves the gap down; the last one inserts.
LEMMA ShiftUpStep ==
  ASSUME CInv, ShiftUp
  PROVE  List!Next \/ UNCHANGED Items
<1>1. pc = "insert" /\ careful /\ careful' /\ UNCHANGED <<size, maxsize>>
  BY Zenon DEF CInv, ShiftUp
<1>2. /\ maxsize \in Nat /\ data \in [0 .. maxsize - 1 -> Slots]
      /\ size \in 0 .. maxsize /\ cur \in Nat /\ cur < size
  BY <1>1, InBlock
<1>3. /\ pending \in Elements \X Nat /\ pending[1] \in Elements /\ pending[1] \in Slots
      /\ pending[2] \in Nat /\ pending[2] <= cur
  BY <1>1 DEF CInv, IInv, TypeOK, Slots
<1>4. size \in 1 .. maxsize /\ cur \in 0 .. maxsize - 1
  BY <1>2
<1>5. /\ Contents = Gapped(data, size, cur)
      /\ Contents \in Seq(Slots) /\ Len(Contents) = size - 1
      /\ \A j \in 1 .. size - 1 : Contents[j] = IF j - 1 < cur THEN data[j - 1] ELSE data[j]
  <2>1. Contents = Gapped(data, size, cur)
    BY <1>1, ContentsForms
  <2>2. /\ Gapped(data, size, cur) \in Seq(Slots) /\ Len(Gapped(data, size, cur)) = size - 1
        /\ \A j \in 1 .. size - 1 :
             Gapped(data, size, cur)[j] = IF j - 1 < cur THEN data[j - 1] ELSE data[j]
    BY <1>2, <1>4, GappedFacts
  <2>3. QED
    BY <2>1, <2>2
<1>6. CASE cur = pending[2]
  <2>1. data' = [data EXCEPT ![cur] = pending[1]] /\ pc' = "idle"
    BY <1>6 DEF ShiftUp
  <2>2. data' \in [0 .. maxsize - 1 -> Slots]
    BY <1>2, <1>3, <2>1
  <2>3. Contents' = Whole(data', size)
    BY <1>1, <2>1, ContentsForms
  <2>4. /\ Contents' \in Seq(Slots) /\ Len(Contents') = size
        /\ \A j \in 1 .. size : Contents'[j] = data'[j - 1]
    BY <1>2, <2>2, <2>3, WholeFacts
  <2> HIDE DEF Contents
  <2>5. ASSUME NEW j \in 1 .. size
        PROVE  Contents'[j] = IF j <= cur THEN Contents[j]
                              ELSE IF j = cur + 1 THEN pending[1] ELSE Contents[j - 1]
    <3>1. j \in Nat /\ j - 1 \in 0 .. maxsize - 1 /\ Contents'[j] = data'[j - 1]
      BY <1>2, <2>4
    <3>2. CASE j <= cur
      <4>1. j \in 1 .. size - 1 /\ j - 1 < cur /\ j - 1 # cur
        BY <1>2, <3>2
      <4>2. QED
        BY <1>2, <1>5, <2>1, <3>1, <3>2, <4>1
    <3>3. CASE j = cur + 1
      <4>1. j - 1 = cur /\ ~(j <= cur)
        BY <1>2, <3>3
      <4>2. QED
        BY <1>2, <2>1, <3>1, <3>3, <4>1
    <3>4. CASE j > cur + 1
      <4>1. /\ j - 1 \in 1 .. size - 1 /\ ~(j - 1 - 1 < cur) /\ j - 1 # cur
            /\ ~(j <= cur) /\ j # cur + 1
        BY <1>2, <3>4
      <4>2. QED
        BY <1>2, <1>5, <2>1, <3>1, <4>1
    <3>5. QED
      BY <1>2, <3>1, <3>2, <3>3, <3>4
  <2>6. Len(Contents') = Len(Contents) + 1 /\ cur \in 0 .. Len(Contents)
    BY <1>2, <1>5, <2>4
  <2>7. QED
    BY <1>1, <1>3, <1>5, <2>4, <2>5, <2>6, Inserted
<1>7. CASE cur # pending[2]
  <2>1. data' = [data EXCEPT ![cur] = data[cur - 1]] /\ cur' = cur - 1 /\ pc' = "insert"
    BY <1>1, <1>7 DEF ShiftUp
  <2>2. cur - 1 \in 0 .. maxsize - 1 /\ cur' \in Nat
    BY <1>2, <1>3, <1>7, <2>1
  <2>3. data' \in [0 .. maxsize - 1 -> Slots]
    BY <1>2, <2>1, <2>2
  <2>4. Contents' = Gapped(data', size, cur - 1)
    BY <1>1, <2>1, ContentsForms
  <2>5. /\ Contents' \in Seq(Slots) /\ Len(Contents') = size - 1
        /\ \A j \in 1 .. size - 1 :
             Contents'[j] = IF j - 1 < cur - 1 THEN data'[j - 1] ELSE data'[j]
    <3>1. cur - 1 \in Nat
      BY <2>2
    <3>2. /\ Gapped(data', size, cur - 1) \in Seq(Slots)
          /\ Len(Gapped(data', size, cur - 1)) = size - 1
          /\ \A j \in 1 .. size - 1 :
               Gapped(data', size, cur - 1)[j] =
                 IF j - 1 < cur - 1 THEN data'[j - 1] ELSE data'[j]
      BY <1>2, <1>4, <2>3, <3>1, GappedFacts
    <3>3. QED
      BY <2>4, <3>2
  <2> HIDE DEF Contents
  <2>6. ASSUME NEW j \in 1 .. size - 1 PROVE Contents'[j] = Contents[j]
    <3>1. j \in Nat /\ j \in 0 .. maxsize - 1 /\ j - 1 \in 0 .. maxsize - 1
      BY <1>2
    <3>2. CASE j < cur
      <4>1. j - 1 < cur - 1 /\ j - 1 < cur /\ j - 1 # cur
        BY <1>2, <3>1, <3>2
      <4>2. QED
        BY <1>2, <1>5, <2>1, <2>5, <3>1, <4>1
    <3>3. CASE j = cur
      <4>1. ~(j - 1 < cur - 1) /\ j - 1 < cur
        BY <1>2, <3>1, <3>3
      <4>2. QED
        BY <1>2, <1>5, <2>1, <2>5, <3>1, <3>3, <4>1
    <3>4. CASE j > cur
      <4>1. ~(j - 1 < cur - 1) /\ ~(j - 1 < cur) /\ j # cur
        BY <1>2, <3>1, <3>4
      <4>2. QED
        BY <1>2, <1>5, <2>1, <2>5, <3>1, <4>1
    <3>5. QED
      BY <1>2, <3>1, <3>2, <3>3, <3>4
  <2>7. QED
    BY <1>1, <1>5, <2>5, <2>6, Unchanged
<1>8. QED
  BY <1>6, <1>7

\* ARRLIST_remove removes before its loop, which only closes the gap.
LEMMA RemoveStep ==
  ASSUME CInv, NEW index \in 0 .. MaxSize, Remove(index)
  PROVE  List!Next \/ UNCHANGED Items
<1>1. pc = "idle" /\ careful /\ careful' /\ UNCHANGED <<data, maxsize>>
  BY Zenon DEF CInv, Remove
<1>2. /\ maxsize \in Nat /\ data \in [0 .. maxsize - 1 -> Slots]
      /\ size \in 0 .. maxsize
  BY InBlock
<1>3. /\ Contents = Whole(data, size) /\ Contents \in Seq(Slots) /\ Len(Contents) = size
      /\ \A j \in 1 .. size : Contents[j] = data[j - 1]
  BY <1>1, <1>2, ContentsForms, WholeFacts
<1>4. CASE index >= size
  <2>1. pc' = "fatal" /\ UNCHANGED size
    BY <1>4 DEF Remove
  <2>2. Contents' = Contents
    BY <1>1, <1>3, <2>1, ContentsForms
  <2>3. QED
    BY <1>1, <2>2, Zenon DEF Items
<1>5. ASSUME index < size,
             Contents' \in Seq(Slots), Len(Contents') = size - 1,
             \A j \in 1 .. size - 1 : Contents'[j] = IF j - 1 < index THEN data[j - 1] ELSE data[j]
      PROVE  List!Next
  <2> HIDE DEF Contents
  <2>1. ASSUME NEW j \in 1 .. Len(Contents')
        PROVE  Contents'[j] = IF j <= index THEN Contents[j] ELSE Contents[j + 1]
    <3>1. j \in 1 .. size - 1 /\ j \in 1 .. size /\ j + 1 \in 1 .. size /\ j + 1 - 1 = j
      BY <1>2, <1>5
    <3>2. Contents[j] = data[j - 1] /\ Contents[j + 1] = data[j]
      BY <1>3, <3>1
    <3>3. j - 1 < index <=> j <= index
      BY <3>1
    <3>4. QED
      BY <1>5, <3>1, <3>2, <3>3
  <2>2. index \in 0 .. Len(Contents) /\ 1 \in 0 .. Len(Contents) /\ index + 1 <= Len(Contents)
    BY <1>2, <1>3, <1>5
  <2>3. Len(Contents') = Len(Contents) - 1
    BY <1>3, <1>5
  <2>4. QED
    BY <1>1, <1>3, <1>5, <2>1, <2>2, <2>3, Removed
<1>6. CASE index = size - 1
  <2>1. index < size /\ pc' = "idle" /\ size' = size - 1
    BY <1>1, <1>2, <1>6 DEF Remove
  <2>2. Contents' = Whole(data, size - 1)
    BY <1>1, <2>1, ContentsForms
  <2>3. size - 1 \in 0 .. maxsize
    BY <1>2, <1>6
  <2>4. /\ Contents' \in Seq(Slots) /\ Len(Contents') = size - 1
        /\ \A j \in 1 .. size - 1 : Contents'[j] = data[j - 1]
    BY <1>2, <2>2, <2>3, WholeFacts
  <2> HIDE DEF Contents
  <2>5. \A j \in 1 .. size - 1 : j - 1 < index
    BY <1>2, <1>6
  <2>6. QED
    BY <1>5, <2>1, <2>4, <2>5
<1>7. CASE index < size - 1
  <2>1. index < size /\ pc' = "remove" /\ cur' = index /\ UNCHANGED size
    BY <1>1, <1>2, <1>7 DEF Remove
  <2>2. Contents' = Gapped(data, size, index)
    BY <1>1, <2>1, ContentsForms
  <2>3. size \in 1 .. maxsize /\ index \in Nat
    BY <1>2, <2>1
  <2>4. /\ Gapped(data, size, index) \in Seq(Slots) /\ Len(Gapped(data, size, index)) = size - 1
        /\ \A j \in 1 .. size - 1 :
             Gapped(data, size, index)[j] = IF j - 1 < index THEN data[j - 1] ELSE data[j]
    BY <1>2, <2>3, GappedFacts
  <2>5. QED
    BY <1>5, <2>1, <2>2, <2>4
<1>8. QED
  BY <1>2, <1>4, <1>6, <1>7

\* A turn of its loop moves the gap up, and the last one leaves it out.
LEMMA ShiftDownStep ==
  ASSUME CInv, ShiftDown
  PROVE  UNCHANGED Items
<1>1. pc = "remove" /\ careful /\ careful' /\ UNCHANGED maxsize
  BY Zenon DEF CInv, ShiftDown
<1>2. /\ maxsize \in Nat /\ data \in [0 .. maxsize - 1 -> Slots]
      /\ size \in 0 .. maxsize /\ cur \in Nat /\ cur < size
  BY <1>1, InBlock
<1>3. size \in 1 .. maxsize
  BY <1>2
<1>4. /\ Contents \in Seq(Slots) /\ Len(Contents) = size - 1
      /\ \A j \in 1 .. size - 1 : Contents[j] = IF j - 1 < cur THEN data[j - 1] ELSE data[j]
  <2>1. Contents = Gapped(data, size, cur)
    BY <1>1, ContentsForms
  <2>2. /\ Gapped(data, size, cur) \in Seq(Slots) /\ Len(Gapped(data, size, cur)) = size - 1
        /\ \A j \in 1 .. size - 1 :
             Gapped(data, size, cur)[j] = IF j - 1 < cur THEN data[j - 1] ELSE data[j]
    BY <1>2, <1>3, GappedFacts
  <2>3. QED
    BY <2>1, <2>2
<1>5. CASE cur < size - 1
  <2>1. data' = [data EXCEPT ![cur] = data[cur + 1]] /\ cur' = cur + 1
        /\ pc' = "remove" /\ UNCHANGED size
    BY <1>1, <1>5 DEF ShiftDown
  <2>2. cur \in 0 .. maxsize - 1 /\ cur + 1 \in 0 .. maxsize - 1 /\ cur + 1 \in Nat
    BY <1>2, <1>5
  <2>3. data' \in [0 .. maxsize - 1 -> Slots]
    BY <1>2, <2>1, <2>2
  <2>4. Contents' = Gapped(data', size, cur + 1)
    BY <1>1, <2>1, ContentsForms
  <2>5. /\ Gapped(data', size, cur + 1) \in Seq(Slots)
        /\ Len(Gapped(data', size, cur + 1)) = size - 1
        /\ \A j \in 1 .. size - 1 :
             Gapped(data', size, cur + 1)[j] =
               IF j - 1 < cur + 1 THEN data'[j - 1] ELSE data'[j]
    <3>1. cur + 1 \in Nat
      BY <2>2
    <3>2. QED
      BY <1>2, <1>3, <2>3, <3>1, GappedFacts, ZenonT(30)
  <2>6. /\ Contents' \in Seq(Slots) /\ Len(Contents') = size - 1
        /\ \A j \in 1 .. size - 1 :
             Contents'[j] = IF j - 1 < cur + 1 THEN data'[j - 1] ELSE data'[j]
    BY <2>4, <2>5
  <2> HIDE DEF Contents
  <2>7. ASSUME NEW j \in 1 .. size - 1 PROVE Contents'[j] = Contents[j]
    <3>1. j \in Nat /\ j \in 0 .. maxsize - 1 /\ j - 1 \in 0 .. maxsize - 1
      BY <1>2
    <3>2. CASE j - 1 < cur
      <4>1. j - 1 < cur + 1 /\ j - 1 # cur
        BY <1>2, <3>1, <3>2
      <4>2. QED
        BY <1>2, <1>4, <2>1, <2>6, <3>1, <3>2, <4>1
    <3>3. CASE j - 1 = cur
      <4>1. j - 1 < cur + 1 /\ ~(j - 1 < cur) /\ j = cur + 1
        BY <1>2, <3>1, <3>3
      <4>2. QED
        BY <1>2, <1>4, <2>1, <2>6, <3>1, <3>3, <4>1
    <3>4. CASE j - 1 > cur
      <4>1. ~(j - 1 < cur + 1) /\ ~(j - 1 < cur) /\ j # cur
        BY <1>2, <3>1, <3>4
      <4>2. QED
        BY <1>2, <1>4, <2>1, <2>6, <3>1, <4>1
    <3>5. QED
      BY <1>2, <3>1, <3>2, <3>3, <3>4
  <2>8. QED
    BY <1>1, <1>4, <2>6, <2>7, Unchanged
<1>6. CASE cur = size - 1
  <2>1. size' = size - 1 /\ pc' = "idle" /\ UNCHANGED data
    BY <1>2, <1>6 DEF ShiftDown
  <2>2. Contents' = Whole(data, size - 1)
    BY <2>1, ContentsForms
  <2>3. size - 1 \in 0 .. maxsize
    BY <1>2, <1>6
  <2>4. /\ Contents' \in Seq(Slots) /\ Len(Contents') = size - 1
        /\ \A j \in 1 .. size - 1 : Contents'[j] = data[j - 1]
    BY <1>2, <2>2, <2>3, WholeFacts
  <2> HIDE DEF Contents
  <2>5. \A j \in 1 .. size - 1 : j - 1 < cur
    BY <1>2, <1>6
  <2>6. QED
    BY <1>1, <1>4, <2>4, <2>5, Unchanged
<1>7. QED
  BY <1>2, <1>5, <1>6

\* ARRLIST_REMOVE_RANGE of a range that does not wrap.
LEMMA RemoveRangeStep ==
  ASSUME CInv, NEW first \in 0 .. WordSize - 1, NEW count \in 0 .. WordSize - 1,
         RemoveRange(first, count)
  PROVE  List!Next /\ pc' = "idle"
<1>1. pc = "idle" /\ careful /\ careful' /\ first + count < WordSize
  BY Zenon DEF CInv, RemoveRange
<1>2. /\ maxsize \in Nat /\ data \in [0 .. maxsize - 1 -> Slots]
      /\ size \in 0 .. maxsize
  BY InBlock
<1>3. WordSize \in Nat /\ MaxSize \in Nat /\ MaxSize < WordSize /\ maxsize <= MaxSize
  BY ArrListAssumption DEF CInv, IInv
<1>4. first + count \in 0 .. WordSize - 1 /\ (first + count) % WordSize = first + count
  <2>1. first + count \in 0 .. WordSize - 1
    BY <1>1, <1>3
  <2>2. QED
    BY <2>1, Wrap
<1>5. count > 0 /\ first + count <= size
  BY <1>4 DEF RemoveRange
<1>6. (size - first - count) % WordSize = size - first - count
  <2>1. size - first - count \in 0 .. WordSize - 1
    BY <1>2, <1>3, <1>5
  <2>2. QED
    BY <2>1, Wrap
<1>7. (size - count) % WordSize = size - count /\ size - count \in 0 .. maxsize
  <2>1. size - count \in 0 .. WordSize - 1 /\ size - count \in 0 .. maxsize
    BY <1>2, <1>3, <1>5
  <2>2. QED
    BY <2>1, Wrap
<1>8. first + (size - first - count) = size - count
  BY <1>2, <1>3
<1>9. /\ data' = [i \in 0 .. maxsize - 1 |-> data'[i]]
      /\ \A i \in 0 .. maxsize - 1 :
           data'[i] = IF i \in first .. size - count - 1
                      THEN data[first + count + i - first] ELSE data[i]
      /\ size' = size - count /\ pc' = "idle"
  <2> DEFINE end == (first + count) % WordSize
             moved == (size - first - count) % WordSize
  <2> HIDE DEF end, moved
  <2>1. /\ end = first + count /\ first + moved = size - count
        /\ end \in Int /\ moved \in Int
    <3>1. size - first - count \in Int
      BY <1>2, <1>3
    <3>2. QED
      BY <1>4, <1>6, <1>8, <3>1 DEF end, moved
  <2>2. ~(first + moved > maxsize)
    BY <1>2, <1>7, <2>1
  <2>3. data' = [i \in DOMAIN data |->
                   IF i \in first .. first + moved - 1 THEN data[end + i - first] ELSE data[i]]
        /\ UNCHANGED pc
    BY <2>2, Zenon DEF RemoveRange, end, moved
  <2>4. size' = size - count
    BY <1>7 DEF RemoveRange
  <2>5. DOMAIN data = 0 .. maxsize - 1
    BY <1>2
  <2>6. ASSUME NEW i \in 0 .. maxsize - 1
        PROVE  data'[i] = IF i \in first .. size - count - 1
                          THEN data[first + count + i - first] ELSE data[i]
    BY <1>2, <1>3, <2>1, <2>3, <2>5
  <2>7. data' = [i \in 0 .. maxsize - 1 |-> data'[i]]
    BY <2>3, <2>5
  <2>8. QED
    BY <1>1, <2>3, <2>4, <2>6, <2>7, Zenon
<1>10. ASSUME NEW i \in 0 .. maxsize - 1
       PROVE  data'[i] = IF i \in first .. size - count - 1 THEN data[i + count] ELSE data[i]
  <2>1. first + count + i - first = i + count
    BY <1>2, <1>3
  <2>2. QED
    BY <1>2, <1>9, <2>1
<1>11. data' \in [0 .. maxsize - 1 -> Slots]
  <2>1. ASSUME NEW i \in 0 .. maxsize - 1 PROVE data'[i] \in Slots
    <3>1. i \in first .. size - count - 1 => i + count \in 0 .. maxsize - 1
      BY <1>2, <1>3
    <3>2. QED
      BY <1>2, <1>10, <3>1
  <2>2. data' = [i \in 0 .. maxsize - 1 |-> data'[i]]
    BY <1>2, <1>9
  <2>3. QED
    BY <2>1, <2>2
<1>12. /\ Contents \in Seq(Slots) /\ Len(Contents) = size
       /\ \A j \in 1 .. size : Contents[j] = data[j - 1]
  BY <1>1, <1>2, ContentsForms, WholeFacts
<1>13. /\ Contents' \in Seq(Slots) /\ Len(Contents') = size - count
       /\ \A j \in 1 .. size - count : Contents'[j] = data'[j - 1]
  <2>1. Contents' = Whole(data', size - count)
    BY <1>9, ContentsForms
  <2>2. QED
    BY <1>2, <1>7, <1>11, <2>1, WholeFacts
<1> HIDE DEF Contents
<1>14. ASSUME NEW j \in 1 .. Len(Contents')
       PROVE  Contents'[j] = IF j <= first THEN Contents[j] ELSE Contents[j + count]
  <2>1. /\ j \in 1 .. size - count /\ j - 1 \in 0 .. maxsize - 1
        /\ j \in 1 .. size /\ j + count \in 1 .. size
    BY <1>2, <1>3, <1>5, <1>13
  <2>2. j - 1 + count = j + count - 1 /\ (j - 1 \in first .. size - count - 1 <=> ~(j <= first))
    BY <1>2, <1>3, <2>1
  <2>3. Contents'[j] = data'[j - 1] /\ Contents[j] = data[j - 1]
        /\ Contents[j + count] = data[j + count - 1]
    BY <1>12, <1>13, <2>1
  <2>4. QED
    BY <1>10, <2>1, <2>2, <2>3
<1>15. /\ first \in 0 .. Len(Contents) /\ count \in 0 .. Len(Contents)
       /\ first + count <= Len(Contents) /\ Len(Contents') = Len(Contents) - count
  BY <1>2, <1>3, <1>5, <1>12, <1>13
<1>16. QED
  BY <1>1, <1>9, <1>12, <1>13, <1>14, <1>15, Removed

\* ARRLIST_clear, ARRLIST_wipe and ARRLIST_zero.
LEMMA ResetStep ==
  ASSUME CInv, Clear \/ Wipe \/ \E n \in 0 .. MaxSize : ZeroList(n)
  PROVE  List!Next
<1>1. careful' /\ pc' = "idle"
  BY Zenon DEF CInv, Clear, Wipe, ZeroList
<1>2. ASSUME NEW n \in 0 .. MaxSize, size' = n, \A i \in 0 .. n - 1 : data'[i] = Zero
      PROVE  List!Next
  <2>1. Items' = [i \in 1 .. n |-> data'[i - 1]]
    <3>1. Items' = Contents'
      BY <1>1, Zenon DEF Items
    <3>2. QED
      BY <1>1, <1>2, <3>1, ContentsForms DEF Whole
  <2>2. \A i \in 1 .. n : data'[i - 1] = Zero
    BY <1>2
  <2>3. Items' = [i \in 1 .. n |-> Zero]
    BY <2>1, <2>2
  <2>4. QED
    BY <2>3, Zenon DEF List!Next, List!Reset
<1>3. 0 \in 0 .. MaxSize /\ \A i \in 0 .. 0 - 1 : FALSE
  BY ArrListAssumption
<1>4. CASE Clear \/ Wipe
  <2>1. size' = 0
    BY <1>4 DEF Clear, Wipe
  <2>2. QED
    BY <1>2, <1>3, <2>1, Zenon
<1>5. ASSUME NEW n \in 0 .. MaxSize, ZeroList(n)
      PROVE  List!Next
  <2>1. size' = n /\ \A i \in 0 .. n - 1 : data'[i] = Zero
    BY <1>5 DEF ZeroList
  <2>2. QED
    BY <1>2, <2>1, Zenon
<1>6. QED
  BY <1>4, <1>5

-----------------------------------------------------------------------------
\* A step of a careful client is one of EzList, or changes nothing there; and it
\* overruns nothing.
LEMMA CarefulStep ==
  ASSUME CInv, [Next]_vars
  PROVE  [List!Next]_Items /\ pc' # "overrun"
<1>1. CASE UNCHANGED vars
  <2>1. UNCHANGED Items /\ pc' = pc
    BY <1>1, Zenon DEF vars, Items, Contents
  <2>2. QED
    BY <2>1 DEF CInv
<1>2. ASSUME NEW e \in Elements, Add(e)
      PROVE  List!Next /\ pc' # "overrun"
  BY <1>2, AddLastStep DEF Add
<1>3. ASSUME NEW e \in Elements, NEW i \in 0 .. MaxSize, Insert(e, i)
      PROVE  [List!Next]_Items /\ pc' # "overrun"
  BY <1>3, InsertStep DEF Insert
<1>4. ASSUME NEW i \in 0 .. MaxSize, Remove(i)
      PROVE  [List!Next]_Items /\ pc' # "overrun"
  BY <1>4, RemoveStep DEF Remove
<1>5. ASSUME NEW i \in 0 .. WordSize - 1, NEW n \in 0 .. WordSize - 1, RemoveRange(i, n)
      PROVE  List!Next /\ pc' # "overrun"
  BY <1>5, RemoveRangeStep
<1>6. ASSUME Shift
      PROVE  [List!Next]_Items /\ pc' # "overrun"
  BY <1>6, ShiftUpStep, ShiftDownStep DEF Shift, ShiftUp, ShiftDown
<1>7. ASSUME Clear \/ Wipe \/ \E n \in 0 .. MaxSize : ZeroList(n)
      PROVE  List!Next /\ pc' # "overrun"
  BY <1>7, ResetStep DEF Clear, Wipe, ZeroList
<1>8. QED
  BY <1>1, <1>2, <1>3, <1>4, <1>5, <1>6, <1>7 DEF Next

\* Nobody becomes careful, or stops being it.
LEMMA CarefulForGood == [Next]_vars => careful' = careful
BY Zenon DEF Next, vars, Add, Insert, Remove, RemoveRange, Shift, ShiftUp, ShiftDown,
             Clear, Wipe, ZeroList

\* The empty list is the empty sequence.
LEMMA EitherInit == Init => EitherInv /\ List!Init
<1> SUFFICES ASSUME Init PROVE EitherInv /\ List!Init
  OBVIOUS
<1>1. EitherInv
  BY InitInv DEF Init, EitherInv
<1>2. Contents = <<>>
  BY DEF Init, Contents
<1>3. QED
  BY <1>1, <1>2, Zenon DEF List!Init, Items

\* Every step keeps the invariant, and is a step of EzList or a stutter.
LEMMA EitherStep == EitherInv /\ [Next]_vars => EitherInv' /\ [List!Next]_Items
<1> SUFFICES ASSUME EitherInv, [Next]_vars PROVE EitherInv' /\ [List!Next]_Items
  OBVIOUS
<1>1. IInv' /\ careful' = careful
  BY StepInv, CarefulForGood DEF EitherInv
<1>2. CASE careful
  <2>1. CInv
    BY <1>2, Zenon DEF EitherInv, CInv
  <2>2. QED
    BY <1>1, <2>1, CarefulStep, Zenon DEF EitherInv
<1>3. CASE ~careful
  <2>1. UNCHANGED Items
    BY <1>1, <1>3, Zenon DEF Items
  <2>2. QED
    BY <1>1, <1>3, <2>1, Zenon DEF EitherInv
<1>4. QED
  BY <1>2, <1>3, Zenon

\* The array list of a client whose ranges do not wrap is a sequence: a call
\* changes the positions it is for, and the shifting loops change nothing.
THEOREM ListImplemented == Spec => ImplementsList
BY EitherInit, EitherStep, PTL DEF Spec, List!Spec, ImplementsList

=============================================================================
