------------------------------ MODULE EzMemory ------------------------------
(***************************************************************************)
(* The byte accounting of include/easymemory.c as the containers use it.   *)
(*                                                                         *)
(* ez_allocate puts a size_t in front of every block and stores the whole  *)
(* length there; ez_free and ez_reallocate read it back.  EZ_ALLOCATED()   *)
(* is therefore a running sum of "header + payload" over the live blocks.  *)
(* The operators below map a value `acc' of that counter to its next       *)
(* value.  The payload is counted in elements: one element weighs 1.       *)
(***************************************************************************)
EXTENDS Integers

CONSTANT Header      \* the weight of the size_t kept in front of each block

ASSUME HeaderAssumption == Header \in Nat \ {0}

\* The length stored in the header of a block of n elements.
Block(n) == n + Header

\* ez_allocate(n, size): a new block of n zeroed elements.
Allocated(acc, n) == acc + Block(n)

\* Mutant: ez_free forgets the header.
FreedPayload(acc, n) == acc - n

\* ez_free(ptr) of a block of n elements.
Freed(acc, n) == acc - Block(n)

\* ez_reallocate(ptr, m, size) of a block of n elements.
Reallocated(acc, n, m) == acc - Block(n) + Block(m)

=============================================================================
