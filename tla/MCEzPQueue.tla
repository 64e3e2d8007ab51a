----------------------------- MODULE MCEzPQueue -----------------------------
(* Small instances of EzPQueue.  The values are interchangeable.              *)
EXTENDS EzPQueue, TLC

CONSTANTS a, b

Symmetry == Permutations({a, b})

\* What a careful client's queue can depend on: not the nodes it does not
\* queue, nor the references behind its size, none of which is read again
\* before it is written (Next has no other reads; a client that is not
\* careful may update a dead node, and its runs have no view).
LiveView ==
  <<[h \in DOMAIN list |-> IF h \in Live THEN list[h] ELSE ZeroNode],
    [j \in Positions |-> refs[j]],
    size, capacity, made, cur, todo, popped, allocated, pc>>

=============================================================================
