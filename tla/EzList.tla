------------------------------- MODULE EzList -------------------------------
(***************************************************************************)
(* What ARRLIST_* promises its caller: a sequence of elements, with no     *)
(* trace of blocks, doubling or shifting loops.  Positions count from 0,   *)
(* as in the code.                                                         *)
(***************************************************************************)
EXTENDS Integers, Sequences

CONSTANTS Elements, Zero, MaxSize

VARIABLE items

Init == items = <<>>

\* The items before position i, and those from position i on.
Before(i) == SubSeq(items, 1, i)
From(i) == SubSeq(items, i + 1, Len(items))

\* ARRLIST_insert, and ARRLIST_add when i is the length of the list.
Insert(i, e) == items' = Before(i) \o <<e>> \o From(i)

\* ARRLIST_REMOVE_RANGE, and ARRLIST_remove when n = 1.
Remove(i, n) == /\ i + n <= Len(items)
                /\ items' = Before(i) \o From(i + n)

\* ARRLIST_zero: n zeroed elements replace the list.
Reset(n) == items' = [i \in 1 .. n |-> Zero]

Next ==
  \/ \E i \in 0 .. Len(items) :
       \/ \E e \in Elements : Insert(i, e)
       \/ \E n \in 0 .. Len(items) : Remove(i, n)
  \/ \E n \in 0 .. MaxSize : Reset(n)     \* ARRLIST_clear and _wipe: n = 0

Spec == Init /\ [][Next]_items

=============================================================================
