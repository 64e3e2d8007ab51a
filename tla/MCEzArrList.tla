----------------------------- MODULE MCEzArrList ----------------------------
(* Small instances of EzArrList.  The elements are interchangeable.           *)
EXTENDS EzArrList, TLC

CONSTANTS a, b

Symmetry == Permutations({a, b})

=============================================================================
