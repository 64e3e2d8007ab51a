----------------------------- MODULE MCEzBuffer -----------------------------
(* Small instances of EzBuffer.  Bytes other than 0 are interchangeable.     *)
EXTENDS EzBuffer, TLC

CONSTANTS a, b

Symmetry == Permutations({a, b})

=============================================================================
