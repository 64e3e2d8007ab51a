---------------------------- MODULE MCEzAllocator ----------------------------
(* Small instances of EzAllocator.                                            *)
EXTENDS EzAllocator

CONSTANTS t1, t2, b1, b2

=============================================================================
