------------------------------ MODULE EzArrList ------------------------------
(***************************************************************************)
(* The growing array of include/easyobjects.h (macro IMPL_ARRLIST, of      *)
(* which IMPL_ARR_ARRLIST and IMPL_NAMED_ARRLIST are copies, and the macro *)
(* ARRLIST_REMOVE_RANGE).                                                  *)
(*                                                                         *)
(* A call is one step, except the two with a shifting loop: every turn of  *)
(* the loops of ARRLIST_insert and ARRLIST_remove is a step of its own.    *)
(* size_t is WordSize values wide where a sum or difference can wrap.      *)
(***************************************************************************)
EXTENDS EzMemory

CONSTANTS
  Elements,
  Zero,        \* an element of zeroed memory
  WordSize,    \* size_t arithmetic is modulo this
  MaxSize,     \* bound: the block never grows beyond this many elements
  MaxBytes     \* bound: nor does EZ_ALLOCATED(), which a leak raises

ASSUME ArrListAssumption ==
  /\ WordSize \in Nat /\ MaxSize \in Nat /\ MaxBytes \in Nat
  /\ MaxSize < WordSize

VARIABLES
  data,        \* list->data, a function on 0 .. maxsize - 1
  size,        \* list->size
  maxsize,     \* list->maxsize
  made,        \* list->data # NULL
  cur,         \* the loop index: `ind' in insert, `i' in remove
  pending,     \* the <<element, index>> that insert was called with
  allocated,   \* EZ_ALLOCATED(), counting from the empty list
  pc,          \* "idle", in a loop ("insert", "remove"), or how it ended
  careful      \* is this a client whose ranges never wrap?

vars == <<data, size, maxsize, made, cur, pending, allocated, pc, careful>>

NoData == [i \in {} |-> Zero]
NoPair == <<>>

Init ==
  /\ data = NoData /\ size = 0 /\ maxsize = 0 /\ made = FALSE
  /\ cur = 0 /\ pending = NoPair
  /\ allocated = 0
  /\ pc = "idle" /\ careful \in BOOLEAN

-----------------------------------------------------------------------------
\* Mutant: a new block instead of a reallocated one.
ResizedFresh(n) == [i \in 0 .. n - 1 |-> Zero]

\* The block after EZ_REALLOC to n elements, the new ones zeroed.
Resized(n) == [i \in 0 .. n - 1 |-> IF i < maxsize THEN data[i] ELSE Zero]

\* ARRLIST_add, also as the first step of ARRLIST_insert.
AddLast(e) ==
  /\ IF maxsize = 0
     THEN /\ maxsize' = 1 /\ size' = 1
          /\ data' = [i \in {0} |-> e]
          /\ allocated' = Allocated(allocated, 1)
     ELSE /\ maxsize' = IF size < maxsize THEN maxsize ELSE maxsize * 2
          /\ data' = [Resized(maxsize') EXCEPT ![size] = e]
          /\ size' = size + 1
          /\ allocated' = IF size < maxsize THEN allocated
                          ELSE Reallocated(allocated, maxsize, maxsize')
  /\ made' = TRUE
  /\ maxsize' <= MaxSize /\ allocated' <= MaxBytes

Add(e) ==
  /\ pc = "idle"
  /\ AddLast(e)
  /\ UNCHANGED <<cur, pending, pc, careful>>

\* ARRLIST_insert up to its loop; an index beyond the end is an EZ_FATAL.
Insert(e, index) ==
  /\ pc = "idle"
  /\ IF index > size
     THEN pc' = "fatal" /\ UNCHANGED <<data, size, maxsize, made, cur, pending, allocated>>
     ELSE /\ AddLast(e)
          /\ IF index = size
             THEN UNCHANGED <<cur, pending, pc>>
             ELSE pc' = "insert" /\ cur' = size' - 1 /\ pending' = <<e, index>>
  /\ UNCHANGED careful

\* One turn of its loop: shift one element up, or store the new one and leave.
ShiftUp ==
  /\ pc = "insert"
  /\ IF cur = pending[2]
     THEN /\ data' = [data EXCEPT ![cur] = pending[1]]
          /\ pc' = "idle" /\ cur' = 0 /\ pending' = NoPair
     ELSE /\ data' = [data EXCEPT ![cur] = data[cur - 1]]
          /\ cur' = cur - 1
          /\ UNCHANGED <<pc, pending>>
  /\ UNCHANGED <<size, maxsize, made, allocated, careful>>

\* ARRLIST_remove up to its loop.
Remove(index) ==
  /\ pc = "idle"
  /\ IF index >= size
     THEN pc' = "fatal" /\ UNCHANGED <<size, cur>>
     ELSE IF index = size - 1
     THEN size' = size - 1 /\ UNCHANGED <<cur, pc>>
     ELSE pc' = "remove" /\ cur' = index /\ UNCHANGED size
  /\ UNCHANGED <<data, maxsize, made, pending, allocated, careful>>

\* One turn of its loop, or the end of it.
ShiftDown ==
  /\ pc = "remove"
  /\ IF cur < size - 1
     THEN /\ data' = [data EXCEPT ![cur] = data[cur + 1]]
          /\ cur' = cur + 1
          /\ UNCHANGED <<pc, size>>
     ELSE /\ size' = size - 1
          /\ pc' = "idle" /\ cur' = 0
          /\ UNCHANGED data
  /\ UNCHANGED <<maxsize, made, pending, allocated, careful>>

\* ARRLIST_REMOVE_RANGE.  The memmove takes `moved' elements from `end' to
\* first; when first + count wrapped round, it lengthens the list, within its
\* block or beyond.
RemoveRange(first, count) ==
  LET end   == (first + count) % WordSize
      moved == (size - first - count) % WordSize
  IN  /\ pc = "idle"
      /\ careful => first + count < WordSize
      /\ count > 0 /\ end <= size
      /\ IF first + moved > maxsize
         THEN pc' = "overrun" /\ UNCHANGED data
         ELSE /\ data' = [i \in DOMAIN data |->
                            IF i \in first .. first + moved - 1
                            THEN data[end + i - first] ELSE data[i]]
              /\ UNCHANGED pc
      /\ size' = (size - count) % WordSize
      /\ UNCHANGED <<maxsize, made, cur, pending, allocated, careful>>

\* Mutant: the old block is not freed.
ReleasedNot == allocated

\* What is left of the counter once ARRLIST_clear has freed the block.
Released == IF made THEN Freed(allocated, maxsize) ELSE allocated

\* ARRLIST_clear
Clear ==
  /\ pc = "idle"
  /\ data' = NoData /\ size' = 0 /\ maxsize' = 0 /\ made' = FALSE
  /\ allocated' = Released
  /\ UNCHANGED <<cur, pending, pc, careful>>

\* ARRLIST_zero: clears first.
ZeroList(n) ==
  /\ pc = "idle"
  /\ data' = [i \in 0 .. n - 1 |-> Zero]
  /\ size' = n /\ maxsize' = n /\ made' = TRUE
  /\ allocated' = Allocated(Released, n)
  /\ allocated' <= MaxBytes
  /\ UNCHANGED <<cur, pending, pc, careful>>

\* Mutant: the wrong field is reset.
WipeCapacity ==
  /\ pc = "idle"
  /\ maxsize' = 0
  /\ UNCHANGED <<data, size, made, cur, pending, allocated, pc, careful>>

\* ARRLIST_wipe
Wipe ==
  /\ pc = "idle"
  /\ size' = 0
  /\ UNCHANGED <<data, maxsize, made, cur, pending, allocated, pc, careful>>

Shift == ShiftUp \/ ShiftDown

Next ==
  \/ \E e \in Elements :
       Add(e) \/ \E i \in 0 .. MaxSize : Insert(e, i)
  \/ \E i \in 0 .. MaxSize : Remove(i) \/ ZeroList(i)
  \/ \E i, n \in 0 .. WordSize - 1 : RemoveRange(i, n)
  \/ Shift
  \/ Clear
  \/ Wipe

Spec == Init /\ [][Next]_vars

-----------------------------------------------------------------------------
\* Type invariant: every element of the list lies inside its block, and so
\* does the one a running loop is at.
TypeOK ==
  /\ maxsize \in Nat /\ size \in Nat
  /\ data \in [0 .. maxsize - 1 -> Elements \cup {Zero}]
  /\ made \in BOOLEAN /\ careful \in BOOLEAN /\ (maxsize > 0 => made)
  /\ allocated \in Nat
  /\ pending \in (Elements \X Nat) \cup {NoPair}
  /\ pc \in {"idle", "insert", "remove", "fatal", "overrun"}
  /\ pc # "overrun" => size <= maxsize
  /\ cur \in Nat /\ (pc \in {"insert", "remove"} => cur < size)
  /\ pc = "insert" => pending # NoPair /\ pending[2] <= cur

\* What EZ_ALLOCATED() counts beyond the one block that ARRLIST_clear can
\* still free.
Lost == allocated - (IF made THEN Block(maxsize) ELSE 0)

\* Memory is lost in one place only: where ARRLIST_add finds the empty block
\* that ARRLIST_zero(list, 0) made, and takes the list for a new one.  No other
\* call loses or doubly frees any, and no order of calls.
OnlyZeroLeaks ==
  [][Lost' # Lost =>
       /\ made /\ maxsize = 0 /\ maxsize' = 1
       /\ Lost' = Lost + Block(0)]_vars

\* The list as its caller sees it.  While insert shifts, the new element is
\* not in it yet, and slot cur is free; while remove shifts, its element is
\* already gone, and slot cur is free.
Contents ==
  CASE pc \in {"insert", "remove"} ->
         [i \in 1 .. size - 1 |-> IF i - 1 < cur THEN data[i - 1] ELSE data[i]]
    [] OTHER -> [i \in 1 .. size |-> data[i - 1]]

\* Nothing is promised to a client that lets ranges wrap.
Items == IF careful THEN Contents ELSE <<>>

List == INSTANCE EzList WITH items <- Items

\* With a client whose ranges do not wrap, the array list implements a
\* sequence: every call changes the one position it is for, and the loops that
\* make or close a gap lose and repeat nothing.
ImplementsList == List!Spec

=============================================================================
