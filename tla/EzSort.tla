------------------------------- MODULE EzSort -------------------------------
(***************************************************************************)
(* EasySort of include/easysort.h, in place in the block of an array list. *)
(* A first pass flags every element that is below the last one left        *)
(* standing; a second copies the flagged ones out; a third closes the gaps *)
(* they leave.  Then each of them is put back where a binary search finds  *)
(* its place, and what is behind it in the block moves up.                 *)
(*                                                                         *)
(* A step is one turn of a pass or of the search.  Indices are those of    *)
(* the code plus one.  An element is a pair of its score and its original  *)
(* position, which the code does not see.  Scores are floats: NaN is one   *)
(* of them, and every comparison with it is false.                         *)
(***************************************************************************)
EXTENDS EzMemory, Sequences, SequencesExt

CONSTANTS
  Scores,      \* the numbers score() may return
  NaN,         \* and what else it may return
  MaxLength    \* bound: the longest list

ASSUME SortAssumption == Scores \subseteq Int /\ NaN \notin Int /\ MaxLength \in Nat

VARIABLES
  list,        \* history: the list as it was
  data, size,  \* list->data and list->size
  removed,     \* the positions that are flagged
  prev,        \* prev_score
  displaced,   \* the copies of the flagged elements that are not back yet
  next,        \* the passes: the position they are at
  write,       \* how far the gaps are closed
  lo, hi,      \* the search for the place of the first displaced element
  allocated,   \* what EZ_ALLOCATED() counts of EasySort's own blocks
  pc           \* "flag", "copy", "close", "search" or "done"

block == <<data, size>>
vars == <<list, block, removed, prev, displaced, next, write, lo, hi, allocated, pc>>

Score(element) == element[1]
Below(x, y) == x # NaN /\ y # NaN /\ x < y
AtMost(x, y) == x # NaN /\ y # NaN /\ x <= y

\* A list of at most one element is returned as it is; of another one the
\* first element stands, and there is a flag for each.
Init ==
  /\ \E s \in SeqOf(Scores \cup {NaN}, MaxLength) :
       list = [i \in DOMAIN s |-> <<s[i], i>>]
  /\ data = list /\ size = Len(list)
  /\ removed = {} /\ displaced = <<>>
  /\ next = 2 /\ write = 0
  /\ lo = 0 /\ hi = 0
  /\ IF size <= 1
     THEN pc = "done" /\ prev = NaN /\ allocated = 0
     ELSE pc = "flag" /\ prev = Score(data[1]) /\ allocated = Allocated(0, size)

-----------------------------------------------------------------------------
\* Mutant: an element is compared with its neighbour instead.
OutOfPlaceNeighbour == Below(Score(data[next]), Score(data[next - 1]))

OutOfPlace == Below(Score(data[next]), prev)

Flag ==
  /\ pc = "flag" /\ next <= size
  /\ IF OutOfPlace
     THEN removed' = removed \cup {next} /\ UNCHANGED prev
     ELSE prev' = Score(data[next]) /\ UNCHANGED removed
  /\ next' = next + 1
  /\ UNCHANGED <<list, block, displaced, write, lo, hi, allocated, pc>>

\* The blocks for the copies and for their scores, as long as removed_count.
FlagDone ==
  /\ pc = "flag" /\ next > size /\ pc' = "copy" /\ next' = 1
  /\ allocated' = Allocated(Allocated(allocated, Cardinality(removed)), Cardinality(removed))
  /\ UNCHANGED <<list, block, removed, prev, displaced, write, lo, hi>>

Copy ==
  /\ pc = "copy" /\ next <= size
  /\ displaced' = IF next \in removed THEN Append(displaced, data[next]) ELSE displaced
  /\ next' = next + 1
  /\ UNCHANGED <<list, block, removed, prev, write, lo, hi, allocated, pc>>

CopyDone ==
  /\ pc = "copy" /\ next > size /\ pc' = "close" /\ next' = 1
  /\ UNCHANGED <<list, block, removed, prev, displaced, write, lo, hi, allocated>>

\* Mutant: the two ends of the memcpy are swapped.
MovedBack == [data EXCEPT ![next] = data[write + 1]]

\* The block after the memcpy; where write and i are equal it is left out.
Moved == [data EXCEPT ![write + 1] = data[next]]

Close ==
  /\ pc = "close" /\ next <= size
  /\ IF next \in removed
     THEN UNCHANGED <<data, write>>
     ELSE data' = Moved /\ write' = write + 1
  /\ next' = next + 1
  /\ UNCHANGED <<list, size, removed, prev, displaced, lo, hi, allocated, pc>>

\* The next displaced element, if there is one, is searched in 0 .. n; after
\* the last the two blocks are freed.  acc is what is allocated until then.
StartSearch(rest, n, acc) ==
  IF rest = <<>>
  THEN /\ pc' = "done" /\ lo' = 0 /\ hi' = 0
       /\ allocated' = Freed(Freed(acc, Cardinality(removed)), Cardinality(removed))
  ELSE pc' = "search" /\ lo' = 0 /\ hi' = n /\ allocated' = acc

\* The gaps are closed: the list is shorter, and the flags are freed.
CloseDone ==
  /\ pc = "close" /\ next > size
  /\ size' = write
  /\ StartSearch(displaced, write, Freed(allocated, size))
  /\ UNCHANGED <<list, data, removed, prev, displaced, next, write>>

-----------------------------------------------------------------------------
Mid == lo + (hi - lo) \div 2

\* Mutant: the element in the middle is searched again.
GoRightStill == lo' = Mid /\ UNCHANGED hi

\* Mutant: the search goes one too far.
GoRightPast == lo' = Mid + 2 /\ UNCHANGED hi

GoRight == lo' = Mid + 1 /\ UNCHANGED hi

\* Is the element in the middle to stay before the one to place?
NotAfter == AtMost(Score(data[Mid + 1]), Score(Head(displaced)))

Search ==
  /\ pc = "search" /\ lo < hi
  /\ IF NotAfter THEN GoRight ELSE hi' = Mid /\ UNCHANGED lo
  /\ UNCHANGED <<list, block, removed, prev, displaced, next, write, allocated, pc>>

\* The block after the memmove of what is behind lo and the memcpy.
Placed ==
  [i \in DOMAIN data |->
     IF i <= lo \/ i > size + 1 THEN data[i]
     ELSE IF i = lo + 1 THEN Head(displaced) ELSE data[i - 1]]

Place ==
  /\ pc = "search" /\ lo >= hi
  /\ data' = Placed /\ size' = size + 1
  /\ displaced' = Tail(displaced)
  /\ StartSearch(displaced', size', allocated)
  /\ UNCHANGED <<list, removed, prev, next, write>>

Next ==
  \/ Flag \/ FlagDone \/ Copy \/ CopyDone \/ Close \/ CloseDone
  \/ Search \/ Place

\* EasySort is a loop of one thread, which keeps running.
Spec == Init /\ [][Next]_vars /\ WF_vars(Next)

-----------------------------------------------------------------------------
\* The part of the block that is in its final order: after the passes it is
\* the list, while they run it is as far as the gaps are closed.
kept == SubSeq(data, 1, IF pc \in {"search", "done"} THEN size ELSE write)

\* EasySort holds the flags until the gaps are closed, the two blocks of the
\* displaced from their copying to the end, and nothing when it returns.
MemoryBalanced ==
  LET flags  == Block(Len(list))
      copies == 2 * Block(Cardinality(removed))
  IN  allocated = CASE pc = "flag" -> flags
                    [] pc \in {"copy", "close"} -> flags + copies
                    [] pc = "search" -> copies
                    [] pc = "done" -> 0

\* Type invariant: the passes stay inside the list and the copies inside
\* their block, the gaps are closed behind the reading position, the search
\* stays inside the list, and the list inside the block it already has, so
\* that EasySort never has to grow it.
TypeOK ==
  /\ pc \in {"flag", "copy", "close", "search", "done"}
  /\ Len(data) = Len(list) /\ size \in 0 .. Len(list)
  /\ removed \subseteq 2 .. Len(list)
  /\ next \in 1 .. Len(list) + 2
  /\ Len(displaced) <= Cardinality(removed)
  /\ pc \in {"flag", "copy", "close"} => size = Len(list) /\ write < next
  /\ pc = "search" => displaced # <<>> /\ size < Len(list)
  /\ lo \in 0 .. hi /\ hi \in 0 .. size
  /\ MemoryBalanced

\* The positions of the block that hold elements which no pass has moved yet.
Ahead ==
  CASE pc \in {"flag", "copy"} -> 1 .. size
    [] pc = "close" -> next .. size \ removed
    [] OTHER -> {}

\* No element is lost or doubled, NaN or not: what is in order, what is
\* displaced and what is ahead is together the list, and as many.
NothingLost ==
  LET moved == IF pc \in {"flag", "copy"} THEN <<>> ELSE kept \o displaced
  IN  /\ Range(moved) \cup {data[i] : i \in Ahead} = Range(list)
      /\ Len(moved) + Cardinality(Ahead) = Len(list)

\* Sorted, and elements of one score in their original order.
StablySorted(s) ==
  \A i, j \in 1 .. Len(s) : i < j =>
    \/ Below(Score(s[i]), Score(s[j]))
    \/ Score(s[i]) = Score(s[j]) /\ s[i][2] < s[j][2]

Comparable == \A i \in 1 .. Len(list) : Score(list[i]) # NaN

\* The binary search closes in on the one place: what is left of lo stays
\* before the element, what is right of hi goes after it.
SearchBrackets ==
  Comparable /\ pc = "search" =>
    /\ \A i \in 1 .. lo : AtMost(Score(kept[i]), Score(Head(displaced)))
    /\ \A i \in hi + 1 .. Len(kept) : Below(Score(Head(displaced)), Score(kept[i]))

\* Without a NaN in it, what the passes leave is sorted from the first turn
\* that closes a gap to the last that puts an element back, with equal scores
\* in their original order.
KeptSorted ==
  /\ Comparable => StablySorted(kept)
  /\ SearchBrackets

\* EasySort returns, whatever score() says.
SortingEnds == <>(pc = "done")

=============================================================================
