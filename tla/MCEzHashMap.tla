---------------------------- MODULE MCEzHashMap -----------------------------
(* Small instances of EzHashMap.  k1 and k2 collide at the last slot of every *)
(* table, so that probing wraps around into the home of k3.                   *)
EXTENDS EzHashMap, TLC

CONSTANTS k1, k2, k3

MCHash == (k1 :> 7) @@ (k2 :> 15) @@ (k3 :> 0)

=============================================================================
