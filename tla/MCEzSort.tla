------------------------------ MODULE MCEzSort ------------------------------
(* Small instances of EzSort.                                               *)
EXTENDS EzSort

=============================================================================
