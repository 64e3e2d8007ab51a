----------------------------- MODULE EzSortProofs -----------------------------
(***************************************************************************)
(* EasySort loses nothing, stays inside its blocks and frees them, and     *)
(* without a NaN sorts stably, for lists of any length and any scores.     *)
(***************************************************************************)
EXTENDS EzSort, EzLemmas

-----------------------------------------------------------------------------
Elements == (Scores \cup {NaN}) \X Nat
Position(x) == x[2]

\* An element with a score that can be compared.
Sound(x) == Score(x) \in Int /\ Score(x) # NaN /\ Position(x) \in Nat

\* The order of a stable sort.
Before(x, y) ==
  \/ Score(x) < Score(y)
  \/ Score(x) = Score(y) /\ Position(x) < Position(y)

\* s holds the elements of the list at the positions S, in their order.
Lists(s, S) ==
  /\ s \in Seq(Elements) /\ Len(s) = Cardinality(S)
  /\ Range(s) = {list[i] : i \in S}
  /\ \A i, j \in 1 .. Len(s) : i < j => Position(s[i]) < Position(s[j])

Passing == pc \in {"flag", "copy", "close"}
Sorting == pc \in {"search", "done"}

-----------------------------------------------------------------------------
\* The inductive invariant: the types,
ListOK ==
  /\ list \in Seq(Elements)
  /\ \A i \in 1 .. Len(list) : Position(list[i]) = i

BlockOK ==
  /\ data \in Seq(Elements) /\ Len(data) = Len(list) /\ size \in 0 .. Len(list)
  /\ removed \subseteq 2 .. Len(list)
  /\ displaced \in Seq(Elements) /\ Len(displaced) <= Cardinality(removed)
  /\ next \in 1 .. Len(list) + 2 /\ (Passing \/ Sorting)
  /\ Passing => next \in 1 .. Len(list) + 1 /\ size = Len(list) /\ write \in 0 .. next - 1

PlaceOK ==
  /\ lo \in 0 .. hi /\ hi \in 0 .. size
  /\ pc = "search" => displaced # <<>>

\* what is where: during the passes,
FlagOK ==
  pc = "flag" =>
    /\ data = list /\ write = 0 /\ displaced = <<>>
    /\ next >= 2 /\ removed \subseteq 2 .. next - 1

CopyOK == pc = "copy" => data = list /\ write = 0 /\ Lists(displaced, removed \cap 1 .. next - 1)

CloseOK ==
  pc = "close" =>
    /\ Lists(displaced, removed)
    /\ Lists(kept, (1 .. next - 1) \ removed)
    /\ \A i \in next .. Len(list) : data[i] = list[i]

\* and after them,
PartsOK ==
  /\ kept \in Seq(Elements) /\ IsInjective(kept)
  /\ displaced \in Seq(Elements) /\ IsInjective(displaced)
  /\ Range(kept) \cap Range(displaced) = {}

SplitOK ==
  /\ Range(kept) \cup Range(displaced) = {list[i] : i \in 1 .. Len(list)}
  /\ Len(kept) + Len(displaced) = Len(list)

PassOK == FlagOK /\ CopyOK /\ CloseOK

\* and in which order.  Of the positions that are not flagged none is below an
\* earlier one; a flagged one of the same score comes later.
Standing == (1 .. (IF pc = "flag" THEN next - 1 ELSE Len(list))) \ removed

FlagsInOrder ==
  /\ \A i, j \in Standing : i < j => Score(list[i]) <= Score(list[j])
  /\ \A i \in Standing, j \in removed : Score(list[i]) = Score(list[j]) => i < j

\* prev_score is the greatest so far.
PrevGreatest ==
  /\ prev \in Int /\ prev # NaN
  /\ \A i \in Standing : Score(list[i]) <= prev
  /\ \A j \in removed : Score(list[j]) < prev

\* The displaced elements wait in their original order, behind all kept ones
\* of their score.
Waiting ==
  /\ \A i, j \in 1 .. Len(displaced) :
       i < j => Position(displaced[i]) < Position(displaced[j])
  /\ \A x \in Range(kept), y \in Range(displaced) :
       Score(x) = Score(y) => Position(x) < Position(y)

OrderOK ==
  Comparable =>
    /\ Passing => FlagsInOrder
    /\ pc = "flag" => PrevGreatest
    /\ Sorting => StablySorted(kept) /\ Waiting /\ SearchBrackets

IInv ==
  /\ ListOK /\ BlockOK /\ PlaceOK /\ PassOK
  /\ Sorting => PartsOK /\ SplitOK
  /\ OrderOK /\ MemoryBalanced

-----------------------------------------------------------------------------
\* Comparisons of elements with a score.
LEMMA SoundOrder ==
  ASSUME NEW x, NEW y, Sound(x), Sound(y)
  PROVE  /\ Below(Score(x), Score(y)) <=> Score(x) < Score(y)
         /\ AtMost(Score(x), Score(y)) <=> Score(x) <= Score(y)
BY DEF Sound, Below, AtMost

\* StablySorted is an order of neighbours and others alike.
LEMMA SortedIs ==
  ASSUME NEW s, \A i \in 1 .. Len(s) : Sound(s[i])
  PROVE  StablySorted(s) <=>
           \A i, j \in 1 .. Len(s) : i < j => Before(s[i], s[j])
<1>1. ASSUME NEW i \in 1 .. Len(s), NEW j \in 1 .. Len(s)
      PROVE  Before(s[i], s[j]) <=>
               \/ Below(Score(s[i]), Score(s[j]))
               \/ Score(s[i]) = Score(s[j]) /\ s[i][2] < s[j][2]
  BY SoundOrder DEF Position, Before
<1>2. QED
  BY <1>1 DEF StablySorted

\* The list as a sequence of distinct elements.
LEMMA ListFacts ==
  ASSUME ListOK
  PROVE  /\ Len(list) \in Nat /\ DOMAIN list = 1 .. Len(list)
         /\ \A i \in 1 .. Len(list) : list[i] \in Elements /\ Position(list[i]) = i
         /\ IsInjective(list)
         /\ Range(list) = {list[i] : i \in 1 .. Len(list)}
<1>1. /\ Len(list) \in Nat /\ DOMAIN list = 1 .. Len(list)
      /\ \A i \in 1 .. Len(list) : list[i] \in Elements
  BY LenProperties DEF ListOK
<1>2. \A i, j \in 1 .. Len(list) : list[i] = list[j] => i = j
  BY DEF ListOK
<1>3. IsInjective(list)
  BY <1>1, <1>2 DEF IsInjective
<1>4. QED
  BY <1>1, <1>3 DEF ListOK, Range

\* Without a NaN all of its elements can be compared.
LEMMA ListSound ==
  ASSUME ListOK, Comparable
  PROVE  \A i \in 1 .. Len(list) : Sound(list[i])
<1>1. ASSUME NEW i \in 1 .. Len(list) PROVE Sound(list[i])
  <2>1. list[i] \in Elements /\ Score(list[i]) # NaN
    BY ListFacts DEF Comparable
  <2>2. QED
    BY <2>1, SortAssumption DEF Elements, Sound, Score, Position
<1>2. QED
  BY <1>1

\* A set of positions and the other positions are together as many as there are.
LEMMA SizesAdd ==
  ASSUME NEW n \in Nat, NEW S \in SUBSET (1 .. n)
  PROVE  /\ IsFiniteSet(S) /\ Cardinality(S) \in Nat
         /\ Cardinality((1 .. n) \ S) = n - Cardinality(S)
<1>1. IsFiniteSet(1 .. n) /\ Cardinality(1 .. n) = n
  <2>1. n \in Int /\ 1 \in Int
    OBVIOUS
  <2>2. IsFiniteSet(1 .. n) /\ Cardinality(1 .. n) = IF 1 > n THEN 0 ELSE n - 1 + 1
    BY <2>1, FS_Interval
  <2>3. QED
    BY <2>2
<1>2. IsFiniteSet(S)
  BY <1>1, FS_Subset
<1>3. Cardinality(S) \in Nat
  BY <1>2, FS_CardinalityType
<1>4. (1 .. n) \cap S = S
  OBVIOUS
<1>5. Cardinality((1 .. n) \ S) = Cardinality(1 .. n) - Cardinality((1 .. n) \cap S)
  BY <1>1, FS_Difference
<1>6. QED
  BY <1>1, <1>2, <1>3, <1>4, <1>5

\* The flags, and the sizes of their sets.
LEMMA FlagFacts ==
  ASSUME ListOK, BlockOK
  PROVE  /\ IsFiniteSet(removed) /\ Cardinality(removed) \in Nat
         /\ removed \subseteq 1 .. Len(list)
<1>1. Len(list) \in Nat /\ removed \subseteq 1 .. Len(list)
  BY ListFacts DEF BlockOK
<1>2. QED
  BY <1>1, SizesAdd

\* The elements at some positions, in order, are distinct.
LEMMA ListsFacts ==
  ASSUME ListOK, NEW S \in SUBSET (1 .. Len(list)), NEW s, Lists(s, S)
  PROVE  /\ s \in Seq(Elements) /\ Len(s) \in Nat /\ IsInjective(s)
         /\ \A x \in Range(s) : \E i \in S : x = list[i] /\ Position(x) = i
         /\ \A k \in 1 .. Len(s) : s[k] \in Range(s)
<1>1. s \in Seq(Elements) /\ Len(s) \in Nat /\ DOMAIN s = 1 .. Len(s)
  BY LenProperties DEF Lists
<1>2. \A x \in Range(s) : \E i \in S : x = list[i] /\ Position(x) = i
  BY ListFacts DEF Lists
<1>3. \A k \in 1 .. Len(s) : s[k] \in Range(s)
  BY <1>1 DEF Range
<1>4. \A k \in 1 .. Len(s) : Position(s[k]) \in Nat
  <2>1. \A i \in S : i \in Nat
    BY ListFacts
  <2>2. QED
    BY <1>2, <1>3, <2>1
<1>5. \A i, j \in 1 .. Len(s) : s[i] = s[j] => i = j
  BY <1>1, <1>4 DEF Lists
<1>6. QED
  BY <1>1, <1>2, <1>3, <1>5 DEF IsInjective

\* At no positions there is nothing.
LEMMA ListsNone == Lists(<<>>, {})
<1>1. Range(<<>>) = {}
  BY DEF Range
<1>2. QED
  BY <1>1, FS_EmptySet DEF Lists

\* One position more, behind the others.
LEMMA ListsMore ==
  ASSUME ListOK, NEW S \in SUBSET (1 .. Len(list)), NEW s, Lists(s, S),
         NEW m \in 1 .. Len(list), \A i \in S : i < m
  PROVE  Lists(Append(s, list[m]), S \cup {m})
<1> DEFINE e == list[m]
           t == Append(s, e)
<1>1. Len(list) \in Nat /\ e \in Elements /\ Position(e) = m
  BY ListFacts
<1>2. /\ s \in Seq(Elements) /\ Len(s) \in Nat /\ IsInjective(s)
      /\ \A k \in 1 .. Len(s) : Position(s[k]) \in S
  BY ListsFacts
<1>3. m \notin S /\ IsFiniteSet(S)
  <2>1. IsFiniteSet(1 .. Len(list))
    BY <1>1, FS_Interval
  <2>2. IsFiniteSet(S)
    BY <2>1, FS_Subset
  <2>3. m \notin S
    BY <1>1
  <2>4. QED
    BY <2>2, <2>3
<1>4. Cardinality(S \cup {m}) = Cardinality(S) + 1
  BY <1>3, FS_AddElement
<1> HIDE DEF e
<1>5. /\ t \in Seq(Elements) /\ Len(t) = Len(s) + 1
      /\ \A i \in 1 .. Len(s) : t[i] = s[i]
      /\ t[Len(s) + 1] = e
  BY <1>1, <1>2, AppendProperties
<1>6. Range(t) = Range(s) \cup {e}
  <2>1. DOMAIN s = 1 .. Len(s) /\ DOMAIN t = 1 .. Len(s) + 1
    BY <1>2, <1>5, LenProperties
  <2>2. 1 .. Len(s) + 1 = (1 .. Len(s)) \cup {Len(s) + 1}
    BY <1>2
  <2>3. QED
    BY <1>5, <2>1, <2>2 DEF Range
<1> HIDE DEF t
<1>7. Range(t) = {list[i] : i \in S \cup {m}}
  BY <1>6 DEF Lists, e
<1>8. ASSUME NEW i \in 1 .. Len(t), NEW j \in 1 .. Len(t), i < j
      PROVE  Position(t[i]) < Position(t[j])
  <2>1. i \in 1 .. Len(s) /\ t[i] = s[i]
    BY <1>2, <1>5, <1>8
  <2>2. CASE j \in 1 .. Len(s)
    BY <1>5, <1>8, <2>1, <2>2 DEF Lists
  <2>3. CASE j = Len(s) + 1
    BY <1>1, <1>2, <1>5, <2>1, <2>3
  <2>4. QED
    BY <1>2, <1>5, <2>2, <2>3
<1>9. Lists(t, S \cup {m})
  BY <1>4, <1>5, <1>7, <1>8 DEF Lists
<1>10. QED
  BY <1>9 DEF t, e

-----------------------------------------------------------------------------
\* The part of the block that is in order, element by element.
LEMMA KeptFacts ==
  ASSUME ListOK, BlockOK
  PROVE  LET k == IF Sorting THEN size ELSE write
         IN  /\ k \in 0 .. Len(list) /\ Len(list) \in Nat
             /\ kept = SubSeq(data, 1, k) /\ kept \in Seq(Elements) /\ Len(kept) = k
             /\ \A j \in 1 .. k : kept[j] = data[j]
<1> DEFINE k == IF Sorting THEN size ELSE write
<1>1. Len(list) \in Nat /\ k \in 0 .. Len(data) /\ Len(data) = Len(list)
  BY ListFacts DEF BlockOK, Passing, Sorting
<1>2. kept = SubSeq(data, 0 + 1, k)
  BY DEF kept, Sorting
<1> HIDE DEF k
<1>3. /\ SubSeq(data, 0 + 1, k) \in Seq(Elements)
      /\ Len(SubSeq(data, 0 + 1, k)) = IF 0 < k THEN k - 0 ELSE 0
      /\ \A j \in 1 .. k - 0 : SubSeq(data, 0 + 1, k)[j] = data[0 + j]
  BY <1>1, Part DEF BlockOK
<1>4. /\ kept \in Seq(Elements) /\ Len(kept) = k
      /\ \A j \in 1 .. k : kept[j] = data[j]
  BY <1>1, <1>2, <1>3
<1>5. k \in 0 .. Len(list) /\ Len(list) \in Nat /\ kept = SubSeq(data, 1, k)
  BY <1>1, <1>2
<1>6. QED
  BY <1>4, <1>5 DEF k

\* What changes neither the block nor its limits leaves it as it is.
LEMMA KeptSame ==
  ASSUME UNCHANGED <<data, size, write>>, Sorting <=> Sorting'
  PROVE  kept' = kept
BY DEF kept, Sorting

\* Everything kept and displaced comes from the list.
LEMMA MembersFacts ==
  ASSUME ListOK, PartsOK, SplitOK
  PROVE  /\ Len(kept) \in Nat /\ DOMAIN kept = 1 .. Len(kept)
         /\ Len(displaced) \in Nat /\ DOMAIN displaced = 1 .. Len(displaced)
         /\ \A x \in Range(kept) \cup Range(displaced) :
              \E i \in 1 .. Len(list) : x = list[i] /\ Position(x) = i
         /\ \A i \in 1 .. Len(kept) : kept[i] \in Range(kept)
         /\ \A i \in 1 .. Len(displaced) : displaced[i] \in Range(displaced)
<1>1. /\ Len(kept) \in Nat /\ DOMAIN kept = 1 .. Len(kept)
      /\ Len(displaced) \in Nat /\ DOMAIN displaced = 1 .. Len(displaced)
  BY LenProperties DEF PartsOK
<1>2. \A x \in Range(kept) \cup Range(displaced) :
        \E i \in 1 .. Len(list) : x = list[i] /\ Position(x) = i
  BY ListFacts DEF SplitOK
<1>3. QED
  BY <1>1, <1>2 DEF Range

\* Without a NaN all of them can be compared.
LEMMA AllSound ==
  ASSUME ListOK, PartsOK, SplitOK, Comparable
  PROVE  \A x \in Range(kept) \cup Range(displaced) : Sound(x)
BY ListSound, MembersFacts

\* Of a stably sorted sequence no element is above the last, nor a later one
\* below an earlier one.
LEMMA Ascending ==
  ASSUME NEW s, Len(s) \in Nat, \A i \in 1 .. Len(s) : Sound(s[i]), StablySorted(s)
  PROVE  \A i, j \in 1 .. Len(s) : i <= j => Score(s[i]) <= Score(s[j])
<1>1. ASSUME NEW i \in 1 .. Len(s), NEW j \in 1 .. Len(s), i <= j
      PROVE  Score(s[i]) <= Score(s[j])
  <2>1. Score(s[i]) \in Int /\ Score(s[j]) \in Int
    BY DEF Sound
  <2>2. CASE i = j
    BY <2>1, <2>2
  <2>3. CASE i < j
    <3>1. Before(s[i], s[j])
      BY <2>3, SortedIs
    <3>2. QED
      BY <2>1, <3>1 DEF Before
  <2>4. QED
    BY <1>1, <2>2, <2>3
<1>2. QED
  BY <1>1

-----------------------------------------------------------------------------
\* A turn of the first pass.
LEMMA FlagInv ==
  ASSUME IInv, Flag
  PROVE  IInv'
<1>1. /\ pc = "flag" /\ next <= size /\ next' = next + 1
      /\ UNCHANGED <<list, data, size, displaced, write, lo, hi, allocated, pc>>
      /\ \/ OutOfPlace /\ removed' = removed \cup {next} /\ prev' = prev
         \/ ~OutOfPlace /\ removed' = removed /\ prev' = Score(data[next])
  BY DEF Flag, block
<1>2. ListOK /\ BlockOK /\ PlaceOK /\ FlagOK /\ MemoryBalanced
  BY DEF IInv, PassOK
<1>3. /\ Len(list) \in Nat /\ next \in 2 .. Len(list) /\ size = Len(list)
      /\ data = list /\ write = 0 /\ displaced = <<>>
      /\ removed \subseteq 2 .. next - 1 /\ write' \in 0 .. next' - 1
      /\ Passing /\ ~Sorting /\ Passing' /\ ~Sorting'
  BY <1>1, <1>2, ListFacts DEF BlockOK, FlagOK, Passing, Sorting
<1>4. removed' \subseteq 2 .. Len(list') /\ removed' \subseteq 2 .. next' - 1
  <2>1. /\ next \in 2 .. next' - 1 /\ 2 .. next - 1 \subseteq 2 .. next' - 1
        /\ 2 .. next' - 1 \subseteq 2 .. Len(list')
    BY <1>1, <1>3
  <2>2. removed' \subseteq removed \cup {next}
    BY <1>1
  <2>3. QED
    BY <1>3, <2>1, <2>2
<1>5. ListOK'
  BY <1>1, <1>2 DEF ListOK
<1>6. BlockOK'
  <2>1. IsFiniteSet(2 .. Len(list'))
    BY <1>1, <1>3, FS_Interval
  <2>2. Cardinality(removed') \in Nat
    BY <1>4, <2>1, FS_Subset, FS_CardinalityType
  <2>3. Len(displaced') = 0
    BY <1>1, <1>3
  <2>4. QED
    BY <1>1, <1>2, <1>3, <1>4, <2>2, <2>3 DEF BlockOK
<1>7. PlaceOK'
  BY <1>1, <1>2 DEF PlaceOK
<1>8. PassOK'
  BY <1>1, <1>3, <1>4 DEF PassOK, FlagOK, CopyOK, CloseOK
<1>9. MemoryBalanced'
  BY <1>1, <1>2 DEF MemoryBalanced
<1>10. ASSUME Comparable PROVE FlagsInOrder' /\ PrevGreatest'
  <2> DEFINE m == next
             S == (1 .. m - 1) \ removed
             e == Score(list[m])
  <2>1. /\ m \in 2 .. Len(list) /\ Standing = S
        /\ Standing' = (1 .. m) \ removed' /\ list' = list
    BY <1>1, <1>3 DEF Standing
  <2>2. /\ \A i \in 1 .. Len(list) : Score(list[i]) \in Int /\ Score(list[i]) # NaN
        /\ e \in Int /\ e # NaN
    BY <1>2, <1>3, <1>10, ListSound DEF Sound
  <2>3. /\ \A i, j \in S : i < j => Score(list[i]) <= Score(list[j])
        /\ \A i \in S, j \in removed : Score(list[i]) = Score(list[j]) => i < j
        /\ prev \in Int /\ prev # NaN
        /\ \A i \in S : Score(list[i]) <= prev
        /\ \A j \in removed : Score(list[j]) < prev
    BY <1>1, <1>3, <1>10, <2>1 DEF IInv, OrderOK, FlagsInOrder, PrevGreatest
  <2>4. OutOfPlace <=> e < prev
    BY <1>3, <2>2, <2>3 DEF OutOfPlace, Below
  <2>5. removed \subseteq 1 .. Len(list) /\ S \subseteq 1 .. Len(list)
    BY <1>3
  <2>6. \A i \in S : i < m
    BY <1>3
  <2>7. CASE OutOfPlace
    <3>1. removed' = removed \cup {m} /\ prev' = prev /\ e < prev
      BY <1>1, <2>4, <2>7
    <3>2. Standing' = S
      BY <1>3, <2>1, <3>1
    <3> HIDE DEF S, m
    <3>3. FlagsInOrder'
      BY <2>1, <2>3, <2>6, <3>1, <3>2 DEF FlagsInOrder
    <3>4. PrevGreatest'
      BY <2>1, <2>3, <3>1, <3>2 DEF PrevGreatest
    <3>5. QED
      BY <3>3, <3>4
  <2>8. CASE ~OutOfPlace
    <3>1. removed' = removed /\ prev' = e /\ prev <= e
      BY <1>1, <1>3, <2>2, <2>3, <2>4, <2>8
    <3>2. Standing' = S \cup {m}
      BY <1>3, <2>1, <3>1
    <3>3. /\ \A i \in S : Score(list[i]) <= e /\ i < m
          /\ \A j \in removed : Score(list[j]) < e
      BY <2>2, <2>3, <2>5, <2>6, <3>1
    <3> HIDE DEF S
    <3>4. \A i, j \in S \cup {m} : i < j => Score(list[i]) <= Score(list[j])
      BY <1>3, <2>2, <2>3, <2>5, <3>3
    <3>5. \A i \in S \cup {m}, j \in removed : Score(list[i]) = Score(list[j]) => i < j
      BY <2>2, <2>3, <2>5, <3>3
    <3> HIDE DEF m, e
    <3>6. FlagsInOrder'
      BY <2>1, <3>1, <3>2, <3>4, <3>5 DEF FlagsInOrder
    <3>7. \A i \in S \cup {m} : Score(list[i]) <= e
      BY <2>2, <3>3 DEF e
    <3>8. PrevGreatest'
      BY <2>1, <2>2, <3>1, <3>2, <3>3, <3>7 DEF PrevGreatest
    <3>9. QED
      BY <3>6, <3>8
  <2>9. QED
    BY <2>7, <2>8
<1>11. OrderOK'
  BY <1>1, <1>3, <1>10 DEF OrderOK, Comparable
<1>12. QED
  BY <1>3, <1>5, <1>6, <1>7, <1>8, <1>9, <1>11 DEF IInv

\* The passes after the first leave the flags and their order as they are.
LEMMA FlagsStay ==
  ASSUME IInv, UNCHANGED <<list, removed>>, Passing, pc = "flag" => next = Len(list) + 1,
         ~Sorting', pc' # "flag"
  PROVE  OrderOK'
<1>1. Len(list) \in Nat
  BY ListFacts DEF IInv
<1>2. Standing' = Standing
  BY <1>1 DEF Standing
<1>3. Comparable' => FlagsInOrder'
  BY <1>2 DEF IInv, OrderOK, Comparable, FlagsInOrder
<1>4. QED
  BY <1>3 DEF OrderOK

\* The end of the first pass: no element is copied yet.
LEMMA FlagDoneInv ==
  ASSUME IInv, FlagDone
  PROVE  IInv'
<1>1. /\ pc = "flag" /\ next > size /\ pc' = "copy" /\ next' = 1
      /\ allocated' = Allocated(Allocated(allocated, Cardinality(removed)), Cardinality(removed))
      /\ UNCHANGED <<list, data, size, removed, prev, displaced, write, lo, hi>>
  BY DEF FlagDone, block
<1>2. ListOK /\ BlockOK /\ PlaceOK /\ FlagOK /\ MemoryBalanced
  BY DEF IInv, PassOK
<1>3. /\ Len(list) \in Nat /\ next = Len(list) + 1 /\ size = Len(list)
      /\ data = list /\ write = 0 /\ displaced = <<>>
      /\ Passing /\ Passing' /\ ~Sorting'
  BY <1>1, <1>2, ListFacts DEF BlockOK, FlagOK, Passing, Sorting
<1>4. ListOK'
  BY <1>1, <1>2 DEF ListOK
<1>5. BlockOK'
  BY <1>1, <1>2, <1>3 DEF BlockOK
<1>6. PlaceOK'
  BY <1>1, <1>2 DEF PlaceOK
<1>7. PassOK'
  <2>1. removed' \cap 1 .. next' - 1 = {}
    BY <1>1
  <2>2. Lists(displaced, {})'
    BY <1>1, <1>3, ListsNone DEF Lists
  <2>3. CopyOK'
    BY <1>1, <1>3, <2>1, <2>2 DEF CopyOK
  <2>4. QED
    BY <1>1, <2>3 DEF PassOK, FlagOK, CloseOK
<1>8. MemoryBalanced'
  <2>1. allocated = Block(Len(list))
    BY <1>1, <1>2 DEF MemoryBalanced
  <2>2. allocated' = Block(Len(list)) + 2 * Block(Cardinality(removed))
    BY <1>1, <1>2, <1>3, <2>1, FlagFacts, HeaderAssumption DEF Allocated, Block
  <2>3. QED
    BY <1>1, <2>2 DEF MemoryBalanced, Block
<1>9. OrderOK'
  BY <1>1, <1>3, FlagsStay
<1>10. QED
  BY <1>3, <1>4, <1>5, <1>6, <1>7, <1>8, <1>9 DEF IInv

\* A turn of the second pass.
LEMMA CopyInv ==
  ASSUME IInv, Copy
  PROVE  IInv'
<1> DEFINE S == removed \cap 1 .. next - 1
           T == removed \cap 1 .. next
<1>1. /\ pc = "copy" /\ next <= size /\ next' = next + 1
      /\ displaced' = IF next \in removed THEN Append(displaced, data[next]) ELSE displaced
      /\ UNCHANGED <<list, data, size, removed, prev, write, lo, hi, allocated, pc>>
  BY DEF Copy, block
<1>2. ListOK /\ BlockOK /\ PlaceOK /\ CopyOK /\ MemoryBalanced
  BY DEF IInv, PassOK
<1>3. /\ Len(list) \in Nat /\ next \in 1 .. Len(list) /\ size = Len(list)
      /\ data = list /\ write = 0 /\ Lists(displaced, S)
      /\ Passing /\ Passing' /\ ~Sorting'
  BY <1>1, <1>2, ListFacts DEF BlockOK, CopyOK, Passing, Sorting
<1>4. removed' \cap 1 .. next' - 1 = T
  BY <1>1, <1>3
<1>5. Lists(displaced', T)
  <2>1. CASE next \in removed
    <3>1. T = S \cup {next} /\ S \in SUBSET (1 .. Len(list)) /\ \A i \in S : i < next
      BY <1>3, <2>1
    <3> HIDE DEF S, T
    <3>2. Lists(Append(displaced, list[next]), T)
      BY <1>2, <1>3, <3>1, ListsMore
    <3>3. QED
      BY <1>1, <1>3, <2>1, <3>2
  <2>2. CASE next \notin removed
    <3>1. T = S
      BY <1>3, <2>2
    <3>2. QED
      BY <1>1, <1>3, <2>2, <3>1
  <2>3. QED
    BY <2>1, <2>2
<1> HIDE DEF S, T
<1>6. ListOK'
  BY <1>1, <1>2 DEF ListOK
<1>7. BlockOK'
  <2>1. T \in SUBSET removed
    BY DEF T
  <2>2. Cardinality(T) <= Cardinality(removed)
    BY <1>2, <2>1, FlagFacts, FS_Subset
  <2>3. displaced' \in Seq(Elements) /\ Len(displaced') <= Cardinality(removed)
    BY <1>5, <2>2 DEF Lists
  <2>4. QED
    BY <1>1, <1>2, <1>3, <2>3 DEF BlockOK
<1>8. PlaceOK'
  BY <1>1, <1>2 DEF PlaceOK
<1>9. PassOK'
  <2>1. Lists(displaced, removed \cap 1 .. next - 1)'
    BY <1>1, <1>4, <1>5 DEF Lists
  <2>2. QED
    BY <1>1, <1>3, <2>1 DEF PassOK, FlagOK, CopyOK, CloseOK
<1>10. MemoryBalanced'
  BY <1>1, <1>2 DEF MemoryBalanced
<1>11. OrderOK'
  BY <1>1, <1>3, FlagsStay
<1>12. QED
  BY <1>3, <1>6, <1>7, <1>8, <1>9, <1>10, <1>11 DEF IInv

\* The end of the second pass: everything flagged is copied.
LEMMA CopyDoneInv ==
  ASSUME IInv, CopyDone
  PROVE  IInv'
<1>1. /\ pc = "copy" /\ next > size /\ pc' = "close" /\ next' = 1
      /\ UNCHANGED <<list, data, size, removed, prev, displaced, write, lo, hi, allocated>>
  BY DEF CopyDone, block
<1>2. ListOK /\ BlockOK /\ PlaceOK /\ CopyOK /\ MemoryBalanced
  BY DEF IInv, PassOK
<1>3. /\ Len(list) \in Nat /\ next = Len(list) + 1 /\ size = Len(list)
      /\ data = list /\ write = 0 /\ Lists(displaced, removed \cap 1 .. next - 1)
      /\ Passing /\ Passing' /\ ~Sorting /\ ~Sorting'
  BY <1>1, <1>2, ListFacts DEF BlockOK, CopyOK, Passing, Sorting
<1>4. ListOK'
  BY <1>1, <1>2 DEF ListOK
<1>5. BlockOK'
  BY <1>1, <1>2, <1>3 DEF BlockOK
<1>6. PlaceOK'
  BY <1>1, <1>2 DEF PlaceOK
<1>7. PassOK'
  <2>1. removed \cap 1 .. next - 1 = removed
    BY <1>2, <1>3, FlagFacts
  <2>2. Lists(displaced, removed)'
    BY <1>1, <1>3, <2>1 DEF Lists
  <2>3. kept' = <<>>
    <3>1. kept \in Seq(Elements) /\ Len(kept) = 0
      BY <1>2, <1>3, KeptFacts
    <3>2. QED
      BY <1>1, <1>3, <3>1, EmptySeq, KeptSame
  <2>4. (1 .. next' - 1) \ removed' = {}
    BY <1>1
  <2>5. Lists(kept, (1 .. next - 1) \ removed)'
    BY <1>1, <2>3, <2>4, ListsNone DEF Lists
  <2>6. CloseOK'
    BY <1>1, <1>3, <2>2, <2>5 DEF CloseOK
  <2>7. QED
    BY <1>1, <2>6 DEF PassOK, FlagOK, CopyOK
<1>8. MemoryBalanced'
  BY <1>1, <1>2 DEF MemoryBalanced
<1>9. OrderOK'
  BY <1>1, <1>3, FlagsStay
<1>10. QED
  BY <1>3, <1>4, <1>5, <1>6, <1>7, <1>8, <1>9 DEF IInv

\* An element that is moved down becomes the last of the part in order.
LEMMA MovedElements ==
  ASSUME ListOK, BlockOK, Passing, CloseOK, pc = "close", next <= size,
         data' = Moved, write' = write + 1, UNCHANGED <<list, pc>>
  PROVE  /\ data' \in Seq(Elements) /\ Len(data') = Len(list)
         /\ kept' = Append(kept, list[next])
         /\ \A i \in next + 1 .. Len(list) : data'[i] = list[i]
<1> DEFINE e == list[next]
           w == write
<1>1. /\ Len(list) \in Nat /\ next \in 1 .. Len(list) /\ w \in 0 .. next - 1
      /\ data \in Seq(Elements) /\ Len(data) = Len(list) /\ DOMAIN data = 1 .. Len(list)
      /\ \A i \in next .. Len(list) : data[i] = list[i]
      /\ ~Sorting /\ ~Sorting'
  BY ListFacts, LenProperties DEF BlockOK, CloseOK, Sorting
<1>2. e \in Elements /\ data[next] = e
  BY <1>1, ListFacts
<1> HIDE DEF e, w
<1>3. data' = [data EXCEPT ![w + 1] = e]
  BY <1>2 DEF Moved, w
<1>4. /\ data' \in Seq(Elements) /\ Len(data') = Len(list)
      /\ \A i \in 1 .. Len(list) : data'[i] = IF i = w + 1 THEN e ELSE data[i]
  BY <1>1, <1>2, <1>3, ExceptSeq
<1>5. /\ kept \in Seq(Elements) /\ Len(kept) = w
      /\ \A j \in 1 .. w : kept[j] = data[j]
  BY <1>1, KeptFacts DEF w
<1>6. /\ kept' \in Seq(Elements) /\ Len(kept') = w + 1
      /\ \A j \in 1 .. w + 1 : kept'[j] = data'[j]
  <2>1. kept' = SubSeq(data', 0 + 1, w + 1) /\ w + 1 \in 0 .. Len(data')
    BY <1>1, <1>4 DEF kept, Sorting, w
  <2>2. /\ SubSeq(data', 0 + 1, w + 1) \in Seq(Elements)
        /\ Len(SubSeq(data', 0 + 1, w + 1)) = IF 0 < w + 1 THEN (w + 1) - 0 ELSE 0
        /\ \A j \in 1 .. (w + 1) - 0 : SubSeq(data', 0 + 1, w + 1)[j] = data'[0 + j]
    BY <1>1, <1>4, <2>1, Part
  <2>3. QED
    BY <1>1, <2>1, <2>2
<1>7. kept' = Append(kept, e)
  <2> DEFINE t == Append(kept, e)
  <2>1. /\ t \in Seq(Elements) /\ Len(t) = w + 1 /\ t[w + 1] = e
        /\ \A j \in 1 .. w : t[j] = kept[j]
    BY <1>2, <1>5, AppendProperties
  <2> HIDE DEF t
  <2>2. ASSUME NEW j \in 1 .. w + 1 PROVE kept'[j] = t[j]
    <3>1. kept'[j] = data'[j] /\ j \in 1 .. Len(list)
      BY <1>1, <1>6
    <3>2. CASE j = w + 1
      BY <1>4, <2>1, <3>1, <3>2
    <3>3. CASE j \in 1 .. w
      BY <1>1, <1>4, <1>5, <2>1, <3>1, <3>3
    <3>4. QED
      BY <1>1, <3>2, <3>3
  <2>3. kept' = t
    BY <1>1, <1>6, <2>1, <2>2, SeqEqual
  <2>4. QED
    BY <2>3 DEF t
<1>8. ASSUME NEW i \in next + 1 .. Len(list) PROVE data'[i] = list[i]
  BY <1>1, <1>4
<1>9. QED
  BY <1>4, <1>7, <1>8 DEF e

\* A turn of the third pass.
LEMMA CloseInv ==
  ASSUME IInv, Close
  PROVE  IInv'
<1> DEFINE S == (1 .. next - 1) \ removed
           T == (1 .. next) \ removed
<1>1. /\ pc = "close" /\ next <= size /\ next' = next + 1
      /\ IF next \in removed THEN UNCHANGED <<data, write>>
                             ELSE data' = Moved /\ write' = write + 1
      /\ UNCHANGED <<list, size, removed, prev, displaced, lo, hi, allocated, pc>>
  BY DEF Close
<1>2. ListOK /\ BlockOK /\ PlaceOK /\ CloseOK /\ MemoryBalanced
  BY DEF IInv, PassOK
<1>3. /\ Len(list) \in Nat /\ next \in 1 .. Len(list) /\ size = Len(list)
      /\ write \in 0 .. next - 1 /\ Lists(displaced, removed) /\ Lists(kept, S)
      /\ Passing /\ Passing' /\ ~Sorting /\ ~Sorting'
  BY <1>1, <1>2, ListFacts DEF BlockOK, CloseOK, Passing, Sorting
<1>4. /\ data' \in Seq(Elements) /\ Len(data') = Len(list)
      /\ kept' = IF next \in removed THEN kept ELSE Append(kept, list[next])
      /\ \A i \in next + 1 .. Len(list) : data'[i] = list[i]
  <2>1. CASE next \in removed
    <3>1. kept' = kept
      BY <1>1, <1>3, <2>1, KeptSame
    <3>2. QED
      BY <1>1, <1>2, <1>3, <2>1, <3>1 DEF BlockOK, CloseOK
  <2>2. CASE next \notin removed
    BY <1>1, <1>2, <1>3, <2>2, MovedElements
  <2>3. QED
    BY <2>1, <2>2
<1>5. Lists(kept', T)
  <2>1. CASE next \in removed
    <3>1. T = S
      BY <1>3, <2>1
    <3>2. QED
      BY <1>3, <1>4, <2>1, <3>1
  <2>2. CASE next \notin removed
    <3>1. T = S \cup {next} /\ S \in SUBSET (1 .. Len(list)) /\ \A i \in S : i < next
      BY <1>3, <2>2
    <3> HIDE DEF S, T
    <3>2. Lists(Append(kept, list[next]), T)
      BY <1>2, <1>3, <3>1, ListsMore
    <3>3. QED
      BY <1>4, <2>2, <3>2
  <2>3. QED
    BY <2>1, <2>2
<1>6. (1 .. next' - 1) \ removed' = T
  BY <1>1, <1>3
<1> HIDE DEF S, T
<1>7. ListOK'
  BY <1>1, <1>2 DEF ListOK
<1>8. BlockOK'
  <2>1. write' \in 0 .. next' - 1
    BY <1>1, <1>3
  <2>2. QED
    BY <1>1, <1>2, <1>3, <1>4, <2>1 DEF BlockOK
<1>9. PlaceOK'
  BY <1>1, <1>2 DEF PlaceOK
<1>10. PassOK'
  <2>1. Lists(displaced, removed)'
    BY <1>1, <1>3 DEF Lists
  <2>2. Lists(kept, (1 .. next - 1) \ removed)'
    BY <1>1, <1>5, <1>6 DEF Lists
  <2>3. \A i \in next' .. Len(list') : data'[i] = list'[i]
    BY <1>1, <1>4
  <2>4. QED
    BY <1>1, <2>1, <2>2, <2>3 DEF PassOK, FlagOK, CopyOK, CloseOK
<1>11. MemoryBalanced'
  BY <1>1, <1>2 DEF MemoryBalanced
<1>12. OrderOK'
  BY <1>1, <1>3, FlagsStay
<1>13. QED
  BY <1>3, <1>7, <1>8, <1>9, <1>10, <1>11, <1>12 DEF IInv

\* The elements that stand are in order.
LEMMA StandingSorted ==
  ASSUME ListOK, Comparable, FlagsInOrder, Standing \in SUBSET (1 .. Len(list)),
         NEW S \in SUBSET Standing, Lists(kept, S)
  PROVE  StablySorted(kept)
<1>1. S \in SUBSET (1 .. Len(list)) /\ Len(list) \in Nat
  BY ListFacts
<1>2. \A k \in 1 .. Len(kept) : Position(kept[k]) \in S /\ kept[k] = list[Position(kept[k])]
  BY <1>1, ListsFacts
<1>3. \A k \in 1 .. Len(kept) : Sound(kept[k])
  BY <1>1, <1>2, ListSound
<1>4. ASSUME NEW i \in 1 .. Len(kept), NEW j \in 1 .. Len(kept), i < j
      PROVE  Before(kept[i], kept[j])
  <2>1. Position(kept[i]) < Position(kept[j])
    BY <1>4 DEF Lists
  <2>2. /\ Position(kept[i]) \in Standing /\ kept[i] = list[Position(kept[i])]
        /\ Position(kept[j]) \in Standing /\ kept[j] = list[Position(kept[j])]
    BY <1>2
  <2>3. Score(kept[i]) <= Score(kept[j])
    BY <2>1, <2>2 DEF FlagsInOrder
  <2>4. QED
    BY <1>3, <2>1, <2>3 DEF Before, Sound
<1>5. QED
  BY <1>3, <1>4, SortedIs

\* The flagged ones are too, and behind those of their score.
LEMMA PassesOrder ==
  ASSUME ListOK, BlockOK, Comparable, FlagsInOrder, pc = "close",
         NEW S, S = (1 .. Len(list)) \ removed, Lists(kept, S), Lists(displaced, removed)
  PROVE  StablySorted(kept) /\ Waiting
<1>1. /\ Len(list) \in Nat /\ S \in SUBSET (1 .. Len(list)) /\ Standing = S
      /\ removed \in SUBSET (1 .. Len(list))
  BY ListFacts, FlagFacts DEF Standing
<1>2. /\ \A x \in Range(kept) : \E i \in S : x = list[i] /\ Position(x) = i
      /\ \A x \in Range(displaced) : \E i \in removed : x = list[i] /\ Position(x) = i
  BY <1>1, ListsFacts
<1>3. StablySorted(kept)
  BY <1>1, StandingSorted
<1>4. \A x \in Range(kept), y \in Range(displaced) :
        Score(x) = Score(y) => Position(x) < Position(y)
  BY <1>1, <1>2 DEF FlagsInOrder
<1>5. QED
  BY <1>3, <1>4 DEF Waiting, Lists

\* The end of the passes: what stands is kept, and with the displaced it is
\* the list.
LEMMA CloseDoneInv ==
  ASSUME IInv, CloseDone
  PROVE  IInv'
<1> DEFINE S == (1 .. Len(list)) \ removed
<1>1. /\ pc = "close" /\ next > size /\ size' = write /\ lo' = 0
      /\ pc' = IF displaced = <<>> THEN "done" ELSE "search"
      /\ hi' = IF displaced = <<>> THEN 0 ELSE write
      /\ allocated' = IF displaced = <<>>
                      THEN Freed(Freed(Freed(allocated, size), Cardinality(removed)), Cardinality(removed))
                      ELSE Freed(allocated, size)
      /\ UNCHANGED <<list, data, removed, prev, displaced, next, write>>
  BY DEF CloseDone, StartSearch
<1>2. ListOK /\ BlockOK /\ PlaceOK /\ CloseOK /\ MemoryBalanced
  BY DEF IInv, PassOK
<1>3. /\ Len(list) \in Nat /\ next = Len(list) + 1 /\ size = Len(list)
      /\ write \in 0 .. Len(list)
      /\ Passing /\ ~Sorting /\ ~Passing' /\ Sorting'
  BY <1>1, <1>2, ListFacts DEF BlockOK, Passing, Sorting
<1>4. Lists(displaced, removed) /\ Lists(kept, S)
  BY <1>1, <1>2, <1>3 DEF CloseOK
<1>5. kept' = kept /\ Len(kept) = write
  <2>1. kept = SubSeq(data, 1, write) /\ Len(kept) = write
    BY <1>2, <1>3, KeptFacts
  <2>2. QED
    BY <1>1, <1>3, <2>1 DEF kept, Sorting
<1>6. S \in SUBSET (1 .. Len(list)) /\ removed \in SUBSET (1 .. Len(list))
  BY <1>2, FlagFacts
<1>7. ListOK'
  BY <1>1, <1>2 DEF ListOK
<1>8. BlockOK'
  BY <1>1, <1>2, <1>3 DEF BlockOK
<1>9. PlaceOK'
  BY <1>1, <1>3 DEF PlaceOK
<1>10. PassOK'
  BY <1>1 DEF PassOK, FlagOK, CopyOK, CloseOK
<1>11. PartsOK'
  <2>1. IsInjective(kept) /\ IsInjective(displaced)
    BY <1>2, <1>4, <1>6, ListsFacts
  <2>2. Range(kept) \cap Range(displaced) = {}
    <3>1. /\ \A x \in Range(kept) : Position(x) \in S
          /\ \A x \in Range(displaced) : Position(x) \in removed
      BY <1>2, <1>4, <1>6, ListsFacts
    <3>2. QED
      BY <3>1
  <2>3. QED
    BY <1>1, <1>4, <1>5, <2>1, <2>2 DEF PartsOK, Lists
<1>12. SplitOK'
  <2>1. Range(kept) \cup Range(displaced) = {list[i] : i \in 1 .. Len(list)}
    BY <1>4, <1>6 DEF Lists
  <2>2. Cardinality(S) + Cardinality(removed) = Len(list)
    <3>1. Cardinality(S) = Len(list) - Cardinality(removed) /\ Cardinality(removed) \in Nat
      BY <1>3, <1>6, SizesAdd
    <3> HIDE DEF S
    <3>2. QED
      BY <1>3, <3>1
  <2>3. Len(kept) + Len(displaced) = Len(list)
    BY <1>4, <2>2 DEF Lists
  <2>4. QED
    BY <1>1, <1>5, <2>1, <2>3 DEF SplitOK
<1>13. OrderOK'
  <2> SUFFICES ASSUME Comparable PROVE StablySorted(kept') /\ Waiting' /\ SearchBrackets'
    BY <1>1, <1>3 DEF OrderOK, Comparable
  <2>1. FlagsInOrder
    BY <1>3 DEF IInv, OrderOK
  <2>2. StablySorted(kept) /\ Waiting
    BY <1>1, <1>2, <1>4, <2>1, PassesOrder
  <2>3. StablySorted(kept') /\ Waiting'
    BY <1>1, <1>5, <2>2 DEF StablySorted, Waiting
  <2>4. SearchBrackets'
    BY <1>1, <1>3, <1>5 DEF SearchBrackets
  <2>5. QED
    BY <2>3, <2>4
<1>14. MemoryBalanced'
  <2>1. allocated = Block(Len(list)) + 2 * Block(Cardinality(removed))
    BY <1>1, <1>2 DEF MemoryBalanced
  <2>2. Cardinality(removed) \in Nat /\ Header \in Nat
    BY <1>2, FlagFacts, HeaderAssumption
  <2>3. CASE displaced = <<>>
    <3>1. pc' = "done" /\ allocated' = 0
      BY <1>1, <1>3, <2>1, <2>2, <2>3 DEF Block, Freed
    <3>2. QED
      BY <3>1 DEF MemoryBalanced
  <2>4. CASE displaced # <<>>
    <3>1. pc' = "search" /\ allocated' = 2 * Block(Cardinality(removed'))
      BY <1>1, <1>3, <2>1, <2>2, <2>4 DEF Block, Freed
    <3>2. QED
      BY <3>1 DEF MemoryBalanced
  <2>5. QED
    BY <2>3, <2>4
<1>15. QED
  BY <1>3, <1>7, <1>8, <1>9, <1>10, <1>11, <1>12, <1>13, <1>14 DEF IInv

\* A turn of the binary search.
LEMMA SearchInv ==
  ASSUME IInv, Search
  PROVE  IInv'
<1>1. /\ pc = "search" /\ lo < hi
      /\ IF NotAfter THEN lo' = Mid + 1 /\ hi' = hi ELSE hi' = Mid /\ lo' = lo
      /\ UNCHANGED <<list, data, size, removed, prev, displaced, next, write, allocated, pc>>
  BY DEF Search, GoRight, block
<1>2. /\ ListOK /\ BlockOK /\ PlaceOK /\ MemoryBalanced /\ PartsOK /\ SplitOK
      /\ Sorting /\ ~Passing /\ Sorting' /\ ~Passing'
  BY <1>1 DEF IInv, Passing, Sorting
<1>3. /\ Len(kept) = size /\ size \in Nat /\ lo \in Nat /\ hi \in Nat /\ hi <= Len(kept)
      /\ \A j \in 1 .. size : kept[j] = data[j]
      /\ kept' = kept
  BY <1>1, <1>2, KeptFacts, KeptSame DEF PlaceOK
<1>4. /\ Mid \in Nat /\ lo <= Mid /\ Mid < hi /\ Mid + 1 \in 1 .. Len(kept)
      /\ data[Mid + 1] = kept[Mid + 1]
  BY <1>1, <1>3 DEF Mid
<1>5. ListOK' /\ BlockOK' /\ PassOK' /\ MemoryBalanced' /\ PartsOK' /\ SplitOK'
  BY <1>1, <1>2, <1>3 DEF ListOK, BlockOK, PassOK, FlagOK, CopyOK, CloseOK, MemoryBalanced,
                          PartsOK, SplitOK
<1>6. PlaceOK'
  BY <1>1, <1>2, <1>3, <1>4 DEF PlaceOK
<1>7. OrderOK'
  <2> SUFFICES ASSUME Comparable PROVE StablySorted(kept') /\ Waiting' /\ SearchBrackets'
    BY <1>1, <1>2 DEF OrderOK, Comparable
  <2> DEFINE e == Head(displaced)
  <2>1. StablySorted(kept) /\ Waiting /\ SearchBrackets
    BY <1>2 DEF IInv, OrderOK
  <2>2. StablySorted(kept') /\ Waiting'
    BY <1>1, <1>3, <2>1 DEF StablySorted, Waiting
  <2>3. e \in Range(displaced)
    BY <1>1, <1>2, ElementFacts DEF PlaceOK, PartsOK
  <2> HIDE DEF e
  <2>4. Sound(e) /\ \A i \in 1 .. Len(kept) : Sound(kept[i])
    BY <1>2, <2>3, AllSound, MembersFacts
  <2>5. \A i, j \in 1 .. Len(kept) : i <= j => Score(kept[i]) <= Score(kept[j])
    BY <1>3, <2>1, <2>4, Ascending
  <2>6. /\ \A i \in 1 .. lo : AtMost(Score(kept[i]), Score(e))
        /\ \A i \in hi + 1 .. Len(kept) : Below(Score(e), Score(kept[i]))
    BY <1>1, <2>1 DEF SearchBrackets, e
  <2>7. /\ \A i \in 1 .. lo' : AtMost(Score(kept[i]), Score(e))
        /\ \A i \in hi' + 1 .. Len(kept) : Below(Score(e), Score(kept[i]))
    <3>1. CASE NotAfter
      <4>1. Score(kept[Mid + 1]) <= Score(e)
        BY <1>4, <2>4, <3>1, SoundOrder DEF NotAfter, e
      <4>2. ASSUME NEW i \in 1 .. Mid + 1 PROVE AtMost(Score(kept[i]), Score(e))
        <5>1. i \in 1 .. Len(kept) /\ i <= Mid + 1
          BY <1>3, <1>4
        <5>2. Score(kept[i]) <= Score(kept[Mid + 1])
          BY <1>4, <2>5, <5>1
        <5>3. Score(kept[i]) <= Score(e)
          BY <1>4, <2>4, <4>1, <5>1, <5>2 DEF Sound
        <5>4. QED
          BY <2>4, <5>1, <5>3, SoundOrder
      <4>3. QED
        BY <1>1, <2>6, <3>1, <4>2
    <3>2. CASE ~NotAfter
      <4>1. Score(e) < Score(kept[Mid + 1])
        BY <1>4, <2>4, <3>2, SoundOrder DEF NotAfter, e, Sound
      <4>2. ASSUME NEW i \in Mid + 1 .. Len(kept) PROVE Below(Score(e), Score(kept[i]))
        <5>1. i \in 1 .. Len(kept) /\ Mid + 1 <= i
          BY <1>3, <1>4
        <5>2. Score(kept[Mid + 1]) <= Score(kept[i])
          BY <1>4, <2>5, <5>1
        <5>3. Score(e) < Score(kept[i])
          BY <1>4, <2>4, <4>1, <5>1, <5>2 DEF Sound
        <5>4. QED
          BY <2>4, <5>1, <5>3, SoundOrder
      <4>3. QED
        BY <1>1, <2>6, <3>2, <4>2
    <3>3. QED
      BY <3>1, <3>2
  <2>8. SearchBrackets'
    BY <1>1, <1>3, <2>7 DEF SearchBrackets, e
  <2>9. QED
    BY <2>2, <2>8
<1>8. QED
  BY <1>2, <1>5, <1>6, <1>7 DEF IInv

\* An element that is put among those in order is one more of them.
LEMMA PlacedAmong ==
  ASSUME PartsOK, NEW i \in 0 .. Len(kept), displaced # <<>>, NEW u \in Seq(Elements),
         InsertedAt(u, kept, i, Head(displaced))
  PROVE  Range(u) = Range(kept) \cup {Head(displaced)} /\ IsInjective(u)
<1> DEFINE e == Head(displaced)
           k == i + 1
<1>1. e \notin Range(kept)
  BY ElementFacts DEF PartsOK
<1>2. kept \in Seq(Elements) /\ IsInjective(kept) /\ Len(kept) \in Nat
  BY LenProperties DEF PartsOK
<1> HIDE DEF e
<1>3. k \in 1 .. Len(kept) + 1
  BY <1>2
<1>4. /\ Len(u) = Len(kept) + 1
      /\ \A j \in 1 .. Len(kept) + 1 :
           u[j] = IF j < k THEN kept[j] ELSE IF j = k THEN e ELSE kept[j - 1]
  BY <1>2 DEF InsertedAt, e
<1> HIDE DEF k
<1>5. Range(u) = Range(kept) \cup {e} /\ IsInjective(u)
  BY <1>1, <1>2, <1>3, <1>4, OneMore
<1>6. QED
  BY <1>5 DEF e

\* The place found: the block holds the element there, and behind it what
\* was there.
LEMMA PlacedElements ==
  ASSUME ListOK, BlockOK, PartsOK, Sorting, size < Len(list), lo \in 0 .. size,
         displaced # <<>>, NEW u, u = SubSeq(Placed, 1, size + 1)
  PROVE  /\ Placed \in Seq(Elements) /\ Len(Placed) = Len(list)
         /\ u \in Seq(Elements) /\ Len(u) = Len(kept) + 1
         /\ \A j \in 1 .. Len(kept) + 1 :
              u[j] = IF j <= lo THEN kept[j]
                     ELSE IF j = lo + 1 THEN Head(displaced) ELSE kept[j - 1]
         /\ Range(u) = Range(kept) \cup {Head(displaced)}
         /\ IsInjective(u)
<1> DEFINE e == Head(displaced)
           p == Placed
           n == Len(list)
<1>1. /\ n \in Nat /\ size \in 0 .. n - 1 /\ Len(kept) = size
      /\ kept \in Seq(Elements) /\ \A j \in 1 .. size : kept[j] = data[j]
      /\ data \in Seq(Elements) /\ DOMAIN data = 1 .. n /\ Len(data) = n
      /\ \A i \in 1 .. n : data[i] \in Elements
  BY ListFacts, KeptFacts, LenProperties DEF BlockOK
<1>2. e \in Elements /\ e \in Range(displaced) /\ e \notin Range(kept)
  BY HeadTailProperties, ElementFacts DEF PartsOK
<1> HIDE DEF e, n
<1>3. p = [i \in 1 .. n |-> IF i <= lo \/ i > size + 1 THEN data[i]
                            ELSE IF i = lo + 1 THEN e ELSE data[i - 1]]
  BY <1>1 DEF Placed, e
<1> HIDE DEF p
<1>4. \A i \in 1 .. n : i - 1 \in 1 .. n \/ i = 1
  BY <1>1
<1>5. p \in [1 .. n -> Elements]
  <2>1. ASSUME NEW i \in 1 .. n PROVE p[i] \in Elements
    <3>1. CASE i <= lo \/ i > size + 1
      BY <1>1, <1>3, <3>1
    <3>2. CASE ~(i <= lo \/ i > size + 1) /\ i = lo + 1
      BY <1>2, <1>3, <3>2
    <3>3. CASE ~(i <= lo \/ i > size + 1) /\ i # lo + 1
      <4>1. i - 1 \in 1 .. n
        BY <1>1, <3>3
      <4>2. QED
        BY <1>1, <1>3, <3>3, <4>1
    <3>4. QED
      BY <3>1, <3>2, <3>3
  <2>2. QED
    BY <1>3, <2>1
<1>6. p \in Seq(Elements) /\ Len(p) = n
  <2>1. p \in Seq(Elements)
    BY <1>1, <1>5, SeqDef
  <2>2. 1 .. Len(p) = 1 .. n /\ Len(p) \in Nat
    BY <1>5, <2>1, LenProperties
  <2>3. QED
    BY <1>1, <2>1, <2>2
<1>7. /\ u \in Seq(Elements) /\ Len(u) = size + 1
      /\ \A j \in 1 .. size + 1 : u[j] = p[j]
  <2>1. u = SubSeq(p, 0 + 1, size + 1) /\ size + 1 \in 0 .. Len(p)
    BY <1>1, <1>6 DEF p
  <2>2. /\ SubSeq(p, 0 + 1, size + 1) \in Seq(Elements)
        /\ Len(SubSeq(p, 0 + 1, size + 1)) = IF 0 < size + 1 THEN (size + 1) - 0 ELSE 0
        /\ \A j \in 1 .. (size + 1) - 0 : SubSeq(p, 0 + 1, size + 1)[j] = p[0 + j]
    BY <1>1, <1>6, <2>1, Part
  <2>3. size \in Nat
    BY <1>1
  <2>4. Len(u) = size + 1
    BY <2>1, <2>2, <2>3
  <2>5. \A j \in 1 .. size + 1 : u[j] = p[j]
    BY <2>1, <2>2, <2>3
  <2>6. QED
    BY <2>1, <2>2, <2>4, <2>5
<1>8. ASSUME NEW j \in 1 .. size + 1
      PROVE  u[j] = IF j < lo + 1 THEN kept[j] ELSE IF j = lo + 1 THEN e ELSE kept[j - 1]
  <2>1. j \in 1 .. n /\ u[j] = p[j] /\ j <= size + 1
    BY <1>1, <1>7
  <2>2. CASE j <= lo
    <3>1. j \in 1 .. size /\ p[j] = data[j]
      BY <1>1, <1>3, <2>1, <2>2
    <3>2. QED
      BY <1>1, <2>1, <2>2, <3>1
  <2>3. CASE j = lo + 1
    BY <1>1, <1>3, <2>1, <2>3
  <2>4. CASE j > lo + 1
    <3>1. j - 1 \in 1 .. size /\ p[j] = data[j - 1]
      BY <1>1, <1>3, <2>1, <2>4
    <3>2. QED
      BY <1>1, <2>1, <2>4, <3>1
  <2>5. QED
    BY <1>1, <2>2, <2>3, <2>4
<1>9. \A j \in 1 .. Len(kept) + 1 :
        u[j] = IF j <= lo THEN kept[j] ELSE IF j = lo + 1 THEN e ELSE kept[j - 1]
  BY <1>1, <1>8
<1>10. Range(u) = Range(kept) \cup {e} /\ IsInjective(u)
  <2>1. InsertedAt(u, kept, lo, e)
    BY <1>1, <1>7, <1>9 DEF InsertedAt
  <2>2. lo \in 0 .. Len(kept) /\ u \in Seq(Elements)
    BY <1>1, <1>7
  <2>3. QED
    BY <2>1, <2>2, PlacedAmong DEF e
<1>11. QED
  BY <1>1, <1>6, <1>7, <1>9, <1>10 DEF e, p, n

\* The order after it.
LEMMA PlacedOrder ==
  ASSUME ListOK, BlockOK, PartsOK, SplitOK, Sorting, Comparable,
         size < Len(list), lo \in 0 .. size, displaced # <<>>,
         StablySorted(kept), Waiting,
         \A i \in 1 .. lo : AtMost(Score(kept[i]), Score(Head(displaced))),
         \A i \in lo + 1 .. Len(kept) : Below(Score(Head(displaced)), Score(kept[i])),
         NEW u, u = SubSeq(Placed, 1, size + 1)
  PROVE  StablySorted(u)
<1> DEFINE e == Head(displaced)
<1>1. Len(kept) \in Nat /\ lo \in Nat /\ Len(kept) = size
  BY MembersFacts, KeptFacts
<1>2. e \in Range(displaced)
  BY ElementFacts DEF PartsOK
<1>3. Sound(e) /\ \A i \in 1 .. Len(kept) : Sound(kept[i]) /\ kept[i] \in Range(kept)
  BY <1>2, AllSound, MembersFacts
<1>4. /\ Len(u) = Len(kept) + 1
      /\ \A j \in 1 .. Len(kept) + 1 :
           u[j] = IF j <= lo THEN kept[j] ELSE IF j = lo + 1 THEN e ELSE kept[j - 1]
  BY PlacedElements
<1>5. ASSUME NEW i \in 1 .. lo PROVE Before(kept[i], e)
  <2>1. i \in 1 .. Len(kept) /\ Score(kept[i]) <= Score(e)
    BY <1>1, <1>3, <1>5, SoundOrder
  <2>2. Score(kept[i]) = Score(e) => Position(kept[i]) < Position(e)
    BY <1>2, <1>3, <2>1 DEF Waiting
  <2>3. QED
    BY <1>3, <2>1, <2>2 DEF Before, Sound
<1>6. ASSUME NEW i \in lo + 1 .. Len(kept) PROVE Before(e, kept[i])
  <2>1. i \in 1 .. Len(kept)
    BY <1>1
  <2>2. QED
    BY <1>3, <2>1, SoundOrder DEF Before
<1> HIDE DEF e
<1>7. \A i, j \in 1 .. Len(kept) : i < j => Before(kept[i], kept[j])
  BY <1>3, SortedIs
<1>8. \A i \in 1 .. Len(u) : Sound(u[i])
  <2>1. ASSUME NEW i \in 1 .. Len(kept) + 1 PROVE Sound(u[i])
    <3>1. CASE i <= lo
      BY <1>1, <1>3, <1>4, <3>1
    <3>2. CASE i = lo + 1
      BY <1>1, <1>3, <1>4, <3>2
    <3>3. CASE i > lo + 1
      BY <1>1, <1>3, <1>4, <3>3
    <3>4. QED
      BY <1>1, <3>1, <3>2, <3>3
  <2>2. QED
    BY <1>4, <2>1
<1>9. ASSUME NEW i \in 1 .. Len(u), NEW j \in 1 .. Len(u), i < j
      PROVE  Before(u[i], u[j])
  <2>1. i \in Nat /\ j \in Nat /\ 1 <= i /\ j <= Len(kept) + 1
    BY <1>1, <1>4
  <2>2. CASE j <= lo
    <3>1. u[i] = kept[i] /\ u[j] = kept[j] /\ i \in 1 .. Len(kept) /\ j \in 1 .. Len(kept)
      BY <1>1, <1>4, <1>9, <2>1, <2>2
    <3>2. QED
      BY <1>7, <1>9, <3>1
  <2>3. CASE j = lo + 1
    <3>1. u[i] = kept[i] /\ u[j] = e /\ i \in 1 .. lo
      BY <1>1, <1>4, <1>9, <2>1, <2>3
    <3>2. QED
      BY <1>5, <3>1
  <2>4. CASE j > lo + 1 /\ i <= lo
    <3>1. /\ u[i] = kept[i] /\ u[j] = kept[j - 1]
          /\ i \in 1 .. Len(kept) /\ j - 1 \in 1 .. Len(kept) /\ i < j - 1
      BY <1>1, <1>4, <1>9, <2>1, <2>4
    <3>2. QED
      BY <1>7, <3>1
  <2>5. CASE j > lo + 1 /\ i = lo + 1
    <3>1. u[i] = e /\ u[j] = kept[j - 1]
      BY <1>1, <1>4, <1>9, <2>1, <2>5
    <3>2. j - 1 \in lo + 1 .. Len(kept)
      BY <1>1, <2>1, <2>5
    <3>3. QED
      BY <1>6, <3>1, <3>2
  <2>6. CASE j > lo + 1 /\ i > lo + 1
    <3>1. /\ u[i] = kept[i - 1] /\ u[j] = kept[j - 1]
          /\ i - 1 \in 1 .. Len(kept) /\ j - 1 \in 1 .. Len(kept) /\ i - 1 < j - 1
      BY <1>1, <1>4, <1>9, <2>1, <2>6
    <3>2. QED
      BY <1>7, <3>1
  <2>7. QED
    BY <1>1, <2>1, <2>2, <2>3, <2>4, <2>5, <2>6
<1>10. QED
  BY <1>8, <1>9, SortedIs

\* The turn that puts an element back.
LEMMA PlaceInv ==
  ASSUME IInv, Place
  PROVE  IInv'
<1> DEFINE e == Head(displaced)
           rest == Tail(displaced)
           copies == Block(Cardinality(removed))
<1>1. /\ pc = "search" /\ lo >= hi
      /\ data' = Placed /\ size' = size + 1 /\ displaced' = rest
      /\ UNCHANGED <<list, removed, prev, next, write>>
      /\ pc' = IF rest = <<>> THEN "done" ELSE "search"
      /\ lo' = 0 /\ hi' = IF rest = <<>> THEN 0 ELSE size'
      /\ allocated' = IF rest = <<>>
                      THEN Freed(Freed(allocated, Cardinality(removed)), Cardinality(removed))
                      ELSE allocated
  BY DEF Place, StartSearch
<1>2. /\ ListOK /\ BlockOK /\ PlaceOK /\ MemoryBalanced /\ PartsOK /\ SplitOK
      /\ Sorting /\ ~Passing /\ Sorting' /\ ~Passing'
  BY <1>1 DEF IInv, Passing, Sorting
<1>3. /\ Len(list) \in Nat /\ Len(kept) \in Nat /\ Len(displaced) \in Nat
      /\ Len(kept) = size /\ lo \in 0 .. size /\ hi = lo /\ displaced # <<>>
  <2>1. /\ Len(list) \in Nat /\ Len(kept) \in Nat /\ Len(displaced) \in Nat
        /\ Len(kept) = size
    BY <1>2, ListFacts, KeptFacts, MembersFacts
  <2>2. lo \in 0 .. size /\ hi = lo /\ displaced # <<>>
    BY <1>1, <1>2, <2>1 DEF PlaceOK
  <2>3. QED
    BY <2>1, <2>2
<1>4. size < Len(list)
  <2>1. Len(displaced) > 0 /\ Len(kept) + Len(displaced) = Len(list)
    BY <1>2, <1>3, EmptySeq DEF PartsOK, SplitOK
  <2>2. QED
    BY <1>3, <2>1
<1>5. kept' = SubSeq(Placed, 1, size + 1)
  BY <1>1, <1>2 DEF kept, Sorting
<1>6. /\ data' \in Seq(Elements) /\ Len(data') = Len(list)
      /\ kept' \in Seq(Elements) /\ Len(kept') = Len(kept) + 1
      /\ Range(kept') = Range(kept) \cup {e} /\ IsInjective(kept')
  BY <1>1, <1>2, <1>3, <1>4, <1>5, PlacedElements
<1>7. /\ rest \in Seq(Elements) /\ Len(rest) = Len(displaced) - 1
      /\ \A i \in 1 .. Len(rest) : rest[i] = displaced[i + 1]
  BY <1>2, <1>3, HeadTailProperties DEF PartsOK
<1>8. Range(rest) = Range(displaced) \ {e} /\ IsInjective(rest)
  BY <1>2, <1>3, TailFacts DEF PartsOK
<1>9. e \in Range(displaced) /\ e = displaced[1]
  BY <1>2, <1>3, ElementFacts DEF PartsOK
<1> HIDE DEF e, rest
<1>10. ListOK'
  BY <1>1, <1>2 DEF ListOK
<1>11. BlockOK'
  <2>1. size' \in 0 .. Len(list') /\ Len(displaced') <= Cardinality(removed')
    <3>1. Cardinality(removed) \in Nat /\ Len(displaced) <= Cardinality(removed)
      BY <1>2, FlagFacts DEF BlockOK
    <3>2. QED
      BY <1>1, <1>3, <1>4, <1>7, <3>1
  <2>2. QED
    BY <1>1, <1>2, <1>6, <1>7, <2>1 DEF BlockOK
<1>12. PlaceOK'
  BY <1>1, <1>3 DEF PlaceOK
<1>13. PassOK'
  BY <1>2 DEF PassOK, FlagOK, CopyOK, CloseOK, Passing
<1>14. PartsOK'
  BY <1>1, <1>2, <1>6, <1>7, <1>8 DEF PartsOK
<1>15. SplitOK'
  <2>1. Range(kept') \cup Range(displaced') = {list[i] : i \in 1 .. Len(list)}
    BY <1>1, <1>2, <1>6, <1>8, <1>9 DEF SplitOK
  <2>2. Len(kept') + Len(displaced') = Len(list)
    <3>1. Len(kept) + Len(displaced) = Len(list)
      BY <1>2 DEF SplitOK
    <3>2. Len(kept') = Len(kept) + 1 /\ Len(displaced') = Len(displaced) - 1
      BY <1>1, <1>6, <1>7, Zenon
    <3>3. QED
      BY <1>3, <3>1, <3>2
  <2>3. QED
    BY <1>1, <2>1, <2>2 DEF SplitOK
<1>16. MemoryBalanced'
  <2>1. allocated = 2 * copies /\ Cardinality(removed) \in Nat /\ copies \in Int
    BY <1>1, <1>2, FlagFacts, HeaderAssumption DEF MemoryBalanced, Block
  <2>2. CASE rest = <<>>
    <3>1. allocated' = (allocated - copies) - copies /\ pc' = "done"
      BY <1>1, <2>2 DEF Freed
    <3> HIDE DEF copies
    <3>2. allocated' = 0
      BY <2>1, <3>1
    <3>3. QED
      BY <3>1, <3>2 DEF MemoryBalanced
  <2>3. CASE rest # <<>>
    <3>1. allocated' = 2 * Block(Cardinality(removed')) /\ pc' = "search"
      BY <1>1, <2>1, <2>3
    <3>2. QED
      BY <3>1 DEF MemoryBalanced
  <2>4. QED
    BY <2>2, <2>3
<1>17. OrderOK'
  <2> SUFFICES ASSUME Comparable PROVE StablySorted(kept') /\ Waiting' /\ SearchBrackets'
    BY <1>1, <1>2 DEF OrderOK, Comparable
  <2>1. StablySorted(kept) /\ Waiting /\ SearchBrackets
    BY <1>2 DEF IInv, OrderOK
  <2>2. StablySorted(kept')
    BY <1>1, <1>2, <1>3, <1>4, <1>5, <2>1, PlacedOrder DEF SearchBrackets
  <2>3. \A i \in 1 .. Len(rest) :
          /\ i + 1 \in 1 .. Len(displaced) /\ 1 < i + 1
          /\ rest[i] = displaced[i + 1]
    BY <1>3, <1>7
  <2>4. \A i, j \in 1 .. Len(rest) : i < j => Position(rest[i]) < Position(rest[j])
    BY <1>3, <1>7, <2>1, <2>3 DEF Waiting
  <2>5. \A x \in Range(kept), y \in Range(rest) :
          Score(x) = Score(y) => Position(x) < Position(y)
    BY <1>8, <2>1 DEF Waiting
  <2>6. \A y \in Range(rest) : Position(e) < Position(y)
    <3>1. ASSUME NEW y \in Range(rest) PROVE Position(e) < Position(y)
      <4>1. PICK i \in 1 .. Len(rest) : y = rest[i]
        BY <1>7, LenProperties DEF Range
      <4>2. QED
        BY <1>3, <1>9, <2>1, <2>3, <4>1 DEF Waiting
    <3>2. QED
      BY <3>1
  <2>7. Waiting'
    BY <1>1, <1>6, <2>4, <2>5, <2>6 DEF Waiting
  <2>8. SearchBrackets'
    BY <1>1, <1>3, <1>6 DEF SearchBrackets
  <2>9. QED
    BY <2>2, <2>7, <2>8
<1>18. QED
  BY <1>2, <1>10, <1>11, <1>12, <1>13, <1>14, <1>15, <1>16, <1>17 DEF IInv

-----------------------------------------------------------------------------
\* A list of at most one element is sorted; of a longer one the first element
\* stands.
LEMMA InitInv == Init => IInv
<1> SUFFICES ASSUME Init PROVE IInv
  OBVIOUS
<1> DEFINE n == Len(list)
<1>1. PICK s \in SeqOf(Scores \cup {NaN}, MaxLength) : list = [i \in DOMAIN s |-> <<s[i], i>>]
  BY DEF Init
<1>2. PICK m \in 0 .. MaxLength : s \in [1 .. m -> Scores \cup {NaN}]
  BY <1>1 DEF SeqOf
<1>3. m \in Nat /\ list \in [1 .. m -> Elements] /\ \A i \in 1 .. m : Position(list[i]) = i
  BY <1>1, <1>2, SortAssumption DEF Elements, Position
<1>4. list \in Seq(Elements) /\ n = m
  <2>1. list \in Seq(Elements)
    BY <1>3, SeqDef
  <2>2. 1 .. n = 1 .. m /\ n \in Nat
    BY <1>3, <2>1, LenProperties
  <2>3. QED
    BY <1>3, <2>1, <2>2
<1>5. ListOK
  BY <1>3, <1>4 DEF ListOK
<1>6. /\ data = list /\ size = n /\ removed = {} /\ displaced = <<>>
      /\ next = 2 /\ write = 0 /\ lo = 0 /\ hi = 0 /\ n \in Nat
      /\ n <= 1 => pc = "done" /\ allocated = 0
      /\ n > 1 => pc = "flag" /\ prev = Score(list[1]) /\ allocated = Block(n)
  BY <1>3, <1>4, HeaderAssumption DEF Init, Allocated, Block
<1> HIDE DEF n
<1>7. displaced \in Seq(Elements) /\ Len(displaced) = 0 /\ Cardinality(removed) = 0
  BY <1>6, FS_EmptySet
<1>8. BlockOK
  <2>1. n = Len(list)
    BY DEF n
  <2>2. Passing \/ Sorting
    BY <1>6 DEF Passing, Sorting
  <2>3. Passing => n > 1
    BY <1>6 DEF Passing
  <2>4. QED
    BY <1>4, <1>6, <1>7, <2>1, <2>2, <2>3 DEF BlockOK
<1>9. PlaceOK
  BY <1>6 DEF PlaceOK
<1>10. PassOK
  BY <1>6 DEF PassOK, FlagOK, CopyOK, CloseOK
<1>11. MemoryBalanced
  <2>1. CASE n <= 1
    BY <1>6, <2>1 DEF MemoryBalanced
  <2>2. CASE n > 1
    BY <1>6, <2>2 DEF MemoryBalanced, n
  <2>3. QED
    BY <1>6, <2>1, <2>2
<1>12. Sorting => n <= 1 /\ PartsOK /\ SplitOK
  <2> SUFFICES ASSUME Sorting PROVE n <= 1 /\ PartsOK /\ SplitOK
    OBVIOUS
  <2>1. n <= 1
    BY <1>6 DEF Sorting
  <2>2. /\ kept \in Seq(Elements) /\ Len(kept) = n
        /\ \A j \in 1 .. n : kept[j] = list[j]
    BY <1>5, <1>6, <1>8, KeptFacts
  <2>3. DOMAIN kept = 1 .. n
    BY <2>2, LenProperties
  <2>4. IsInjective(kept)
    BY <1>6, <2>1, <2>3 DEF IsInjective
  <2>5. IsInjective(displaced) /\ Range(displaced) = {}
    BY <1>6 DEF IsInjective, Range
  <2>6. Range(kept) = {list[i] : i \in 1 .. n}
    BY <2>2, <2>3 DEF Range
  <2>7. PartsOK
    BY <1>7, <2>2, <2>4, <2>5 DEF PartsOK
  <2>8. SplitOK
    BY <1>6, <1>7, <2>2, <2>5, <2>6 DEF SplitOK, n
  <2>9. QED
    BY <2>1, <2>7, <2>8
<1>13. OrderOK
  <2> SUFFICES ASSUME Comparable
               PROVE  /\ Passing => FlagsInOrder
                      /\ pc = "flag" => PrevGreatest
                      /\ Sorting => StablySorted(kept) /\ Waiting /\ SearchBrackets
    BY DEF OrderOK
  <2>1. Passing => pc = "flag" /\ n > 1
    BY <1>6 DEF Passing
  <2>2. pc = "flag" => FlagsInOrder /\ PrevGreatest
    <3> SUFFICES ASSUME pc = "flag" PROVE FlagsInOrder /\ PrevGreatest
      OBVIOUS
    <3>1. n > 1 /\ prev = Score(list[1]) /\ Standing = {1}
      BY <1>6 DEF Standing
    <3>2. Sound(list[1])
      BY <1>5, <1>6, <3>1, ListSound DEF n
    <3>3. QED
      BY <1>6, <3>1, <3>2 DEF FlagsInOrder, PrevGreatest, Sound
  <2>3. Sorting => StablySorted(kept) /\ Waiting /\ SearchBrackets
    <3> SUFFICES ASSUME Sorting PROVE StablySorted(kept) /\ Waiting /\ SearchBrackets
      OBVIOUS
    <3>1. Len(kept) <= 1 /\ Len(kept) \in Nat
      BY <1>5, <1>6, <1>8, <1>12, KeptFacts
    <3>2. StablySorted(kept)
      BY <3>1 DEF StablySorted
    <3>3. Waiting
      BY <1>6 DEF Waiting, Range
    <3>4. SearchBrackets
      BY <1>6 DEF SearchBrackets
    <3>5. QED
      BY <3>2, <3>3, <3>4
  <2>4. QED
    BY <2>1, <2>2, <2>3
<1>14. QED
  BY <1>5, <1>8, <1>9, <1>10, <1>11, <1>12, <1>13 DEF IInv

\* Every step keeps the invariant.
LEMMA StepInv ==
  ASSUME IInv, [Next]_vars
  PROVE  IInv'
<1>1. CASE UNCHANGED vars
  <2>1. /\ UNCHANGED <<list, data, size, removed, prev, displaced, next>>
        /\ UNCHANGED <<write, lo, hi, allocated, pc>>
    BY <1>1 DEF vars, block
  <2>2. Passing' = Passing /\ Sorting' = Sorting /\ kept' = kept
    BY <2>1 DEF Passing, Sorting, kept
  <2>3. ListOK' /\ BlockOK' /\ PlaceOK' /\ MemoryBalanced'
    BY <2>1, <2>2 DEF IInv, ListOK, BlockOK, PlaceOK, MemoryBalanced
  <2>4. PassOK'
    BY <2>1, <2>2 DEF IInv, PassOK, FlagOK, CopyOK, CloseOK, Lists
  <2>5. Sorting' => PartsOK' /\ SplitOK'
    BY <2>1, <2>2 DEF IInv, PartsOK, SplitOK
  <2>6. OrderOK'
    <3>1. FlagsInOrder' = FlagsInOrder /\ PrevGreatest' = PrevGreatest /\ Comparable' = Comparable
      BY <2>1 DEF FlagsInOrder, PrevGreatest, Standing, Comparable
    <3>2. StablySorted(kept') = StablySorted(kept) /\ Waiting' = Waiting /\ SearchBrackets' = SearchBrackets
      BY <2>1, <2>2 DEF Waiting, SearchBrackets, Comparable
    <3>3. QED
      BY <2>1, <2>2, <3>1, <3>2 DEF IInv, OrderOK
  <2>7. QED
    BY <2>3, <2>4, <2>5, <2>6 DEF IInv
<1>2. QED
  BY <1>1, FlagInv, FlagDoneInv, CopyInv, CopyDoneInv, CloseInv, CloseDoneInv, SearchInv, PlaceInv
  DEF Next

\* The invariant is one of the specification.
LEMMA Invariance == Spec => []IInv
<1>1. IInv /\ [Next]_vars => IInv'
  BY StepInv
<1>2. QED
  BY <1>1, InitInv, PTL DEF Spec

-----------------------------------------------------------------------------
\* The passes, the search and the list stay inside their blocks, and every
\* block is freed by the end.
THEOREM StaysInside == Spec => []TypeOK
<1>1. IInv => TypeOK
  <2> SUFFICES ASSUME IInv PROVE TypeOK
    OBVIOUS
  <2>1. ListOK /\ BlockOK /\ PlaceOK /\ MemoryBalanced
    BY DEF IInv
  <2>2. Len(list) \in Nat /\ (pc \in {"flag", "copy", "close"} <=> Passing)
    BY <2>1, ListFacts DEF Passing
  <2>3. pc \in {"flag", "copy", "close"} => size = Len(list) /\ write < next
    BY <2>1, <2>2 DEF BlockOK
  <2>4. pc = "search" => size < Len(list)
    <3> SUFFICES ASSUME pc = "search" PROVE size < Len(list)
      OBVIOUS
    <3>1. PartsOK /\ SplitOK /\ Sorting /\ displaced # <<>>
      BY <2>1 DEF IInv, Sorting, PlaceOK
    <3>2. Len(kept) = size /\ size \in Nat
      BY <2>1, <2>2, <3>1, KeptFacts DEF BlockOK
    <3>3. Len(displaced) \in Nat /\ Len(displaced) > 0
      BY <3>1, LenProperties, EmptySeq DEF PartsOK
    <3>4. QED
      BY <2>2, <3>1, <3>2, <3>3 DEF SplitOK
  <2>5. pc \in {"flag", "copy", "close", "search", "done"}
    BY <2>1 DEF BlockOK, Passing, Sorting
  <2>6. QED
    BY <2>1, <2>3, <2>4, <2>5 DEF TypeOK, BlockOK, PlaceOK
<1>2. QED
  BY <1>1, Invariance, PTL

\* While the gaps are closed the list is in three parts.
LEMMA ThreeParts ==
  ASSUME ListOK, BlockOK, CloseOK, pc = "close"
  PROVE  NothingLost
<1> DEFINE n == Len(list)
           S == (1 .. next - 1) \ removed
           A == (next .. n) \ removed
           moved == kept \o displaced
<1>1. /\ n \in Nat /\ next \in 1 .. n + 1 /\ size = n
      /\ Lists(kept, S) /\ Lists(displaced, removed)
      /\ \A i \in next .. n : data[i] = list[i]
      /\ removed \in SUBSET (1 .. n) /\ S \in SUBSET (1 .. n) /\ A \in SUBSET (1 .. n)
  BY ListFacts, FlagFacts DEF BlockOK, CloseOK, Passing
<1>2. Ahead = A
  BY <1>1 DEF Ahead
<1>3. S \cup A = (1 .. n) \ removed /\ S \cap A = {}
  BY <1>1
<1>4. {data[i] : i \in A} = {list[i] : i \in A}
  BY <1>1
<1>5. Range(list) = {list[i] : i \in 1 .. n}
  BY ListFacts
<1> HIDE DEF S, A, n
<1>6. /\ IsFiniteSet(S) /\ Cardinality(S) \in Nat /\ IsFiniteSet(A) /\ Cardinality(A) \in Nat
      /\ Cardinality((1 .. n) \ removed) = n - Cardinality(removed) /\ Cardinality(removed) \in Nat
  BY <1>1, SizesAdd
<1>7. Cardinality(S) + Cardinality(A) = n - Cardinality(removed)
  <2>1. Cardinality(S \cup A) = Cardinality(S) + Cardinality(A) - Cardinality(S \cap A)
    BY <1>6, FS_Union
  <2>2. Cardinality(S \cap A) = 0
    BY <1>3, FS_EmptySet
  <2>3. Cardinality(S \cup A) = n - Cardinality(removed)
    BY <1>3, <1>6
  <2>4. QED
    BY <1>6, <2>1, <2>2, <2>3
<1>8. /\ Len(moved) = Cardinality(S) + Cardinality(removed)
      /\ Range(moved) = Range(kept) \cup Range(displaced)
  <2>1. /\ kept \in Seq(Elements) /\ IsInjective(kept)
        /\ displaced \in Seq(Elements) /\ IsInjective(displaced)
    BY <1>1, ListsFacts DEF n
  <2>2. /\ \A x \in Range(kept) : Position(x) \in S
        /\ \A x \in Range(displaced) : Position(x) \in removed
    BY <1>1, ListsFacts DEF n
  <2>3. Range(kept) \cap Range(displaced) = {}
    BY <2>2 DEF S
  <2>4. Len(moved) = Len(kept) + Len(displaced)
    BY <2>1, ConcatProperties
  <2>5. Range(moved) = Range(kept) \cup Range(displaced)
    BY <2>1, <2>3, ConcatFacts
  <2>6. QED
    BY <1>1, <2>4, <2>5 DEF Lists
<1> HIDE DEF moved
<1>9. Range(moved) \cup {data[i] : i \in Ahead} = Range(list)
  <2>1. Range(moved) = {list[i] : i \in S} \cup {list[i] : i \in removed}
    BY <1>1, <1>8 DEF Lists
  <2>2. 1 .. n = S \cup removed \cup A
    BY <1>1, <1>3
  <2>3. {list[i] : i \in 1 .. n} = {list[i] : i \in S} \cup {list[i] : i \in removed} \cup {list[i] : i \in A}
    BY <2>2
  <2>4. QED
    BY <1>2, <1>4, <1>5, <2>1, <2>3
<1>10. Len(moved) + Cardinality(Ahead) = Len(list)
  <2>1. Len(list) = n /\ n \in Nat
    BY <1>1 DEF n
  <2>2. QED
    BY <1>2, <1>6, <1>7, <1>8, <2>1
<1>11. QED
  BY <1>9, <1>10 DEF NothingLost, moved

\* No element is lost or doubled, whatever score() returns.
THEOREM LosesNothing == Spec => []NothingLost
<1>1. IInv => NothingLost
  <2> SUFFICES ASSUME IInv PROVE NothingLost
    OBVIOUS
  <2>1. ListOK /\ BlockOK /\ PassOK /\ (Sorting => PartsOK /\ SplitOK)
    BY DEF IInv
  <2>2. /\ Len(list) \in Nat /\ Range(list) = {list[i] : i \in 1 .. Len(list)}
    BY <2>1, ListFacts
  <2>3. CASE pc \in {"flag", "copy"}
    <3>1. Ahead = 1 .. Len(list) /\ data = list
      BY <2>1, <2>3 DEF Ahead, BlockOK, PassOK, FlagOK, CopyOK, Passing
    <3>2. Cardinality(1 .. Len(list)) = Len(list)
      <4>1. {} \in SUBSET (1 .. Len(list)) /\ (1 .. Len(list)) \ {} = 1 .. Len(list)
        OBVIOUS
      <4>2. Cardinality({}) = 0
        BY FS_EmptySet
      <4>3. Cardinality((1 .. Len(list)) \ {}) = Len(list) - Cardinality({})
        BY <2>2, <4>1, SizesAdd
      <4>4. QED
        BY <2>2, <4>1, <4>2, <4>3
    <3>3. Range(<<>>) = {} /\ Len(<<>>) = 0
      BY DEF Range
    <3>4. QED
      BY <2>2, <2>3, <3>1, <3>2, <3>3 DEF NothingLost
  <2>4. CASE pc = "close"
    BY <2>1, <2>4, ThreeParts DEF PassOK
  <2>5. CASE Sorting
    <3>1. /\ Range(kept \o displaced) = Range(kept) \cup Range(displaced)
          /\ Len(kept \o displaced) = Len(kept) + Len(displaced)
      BY <2>1, <2>5, ConcatFacts, ConcatProperties DEF PartsOK
    <3>2. Ahead = {} /\ ~(pc \in {"flag", "copy"})
      BY <2>5 DEF Ahead, Sorting
    <3>3. Cardinality(Ahead) = 0
      BY <3>2, FS_EmptySet
    <3>4. QED
      BY <2>1, <2>2, <2>5, <3>1, <3>2, <3>3 DEF NothingLost, SplitOK
  <2>6. QED
    BY <2>1, <2>3, <2>4, <2>5 DEF BlockOK, Passing
<1>2. QED
  BY <1>1, Invariance, PTL

\* Without a NaN what is kept is sorted, equal scores in their original order,
\* in every turn of the passes and of the search, which is around the right
\* place.
THEOREM SortsStably == Spec => []KeptSorted
<1>1. IInv => KeptSorted
  <2> SUFFICES ASSUME IInv PROVE KeptSorted
    OBVIOUS
  <2>1. ListOK /\ BlockOK /\ PassOK /\ OrderOK
    BY DEF IInv
  <2>2. SearchBrackets
    <3>1. Comparable /\ Sorting => SearchBrackets
      BY <2>1 DEF OrderOK
    <3>2. ~(Comparable /\ Sorting) => SearchBrackets
      BY DEF SearchBrackets, Sorting
    <3>3. QED
      BY <3>1, <3>2
  <2>3. Comparable => StablySorted(kept)
    <3> SUFFICES ASSUME Comparable PROVE StablySorted(kept)
      OBVIOUS
    <3>1. CASE pc \in {"flag", "copy"}
      <4>1. Len(kept) = 0
        BY <2>1, <3>1, KeptFacts DEF Sorting, PassOK, FlagOK, CopyOK
      <4>2. QED
        BY <4>1 DEF StablySorted
    <3>2. CASE pc = "close"
      <4> DEFINE S == (1 .. next - 1) \ removed
      <4>1. Lists(kept, S) /\ FlagsInOrder
        BY <2>1, <3>2 DEF PassOK, CloseOK, OrderOK, Passing
      <4>2. S \in SUBSET Standing /\ Standing \in SUBSET (1 .. Len(list))
        BY <2>1, <3>2, ListFacts DEF Standing, BlockOK, Passing
      <4> HIDE DEF S
      <4>3. QED
        BY <2>1, <4>1, <4>2, StandingSorted
    <3>3. CASE Sorting
      BY <2>1, <3>3 DEF OrderOK
    <3>4. QED
      BY <2>1, <3>1, <3>2, <3>3 DEF BlockOK, Passing
  <2>4. QED
    BY <2>2, <2>3 DEF KeptSorted
<1>2. QED
  BY <1>1, Invariance, PTL

=============================================================================
