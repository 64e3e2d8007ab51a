------------------------------- MODULE EzDict -------------------------------
(***************************************************************************)
(* What HASHMAP_* promises its caller: a finite map from keys to values,   *)
(* with no trace of slots, probing, tombstones or growth.                  *)
(***************************************************************************)
CONSTANTS Keys, Values, NoValue

VARIABLE dict        \* what HASHMAP_get returns for each key

Init == dict = [k \in Keys |-> NoValue]

\* HASHMAP_set: a new key appears or the value of an existing one is replaced.
Put(k, v) == dict' = [dict EXCEPT ![k] = v]

\* HASHMAP_remove: a key that is present disappears.
Delete(k) == /\ dict[k] # NoValue
             /\ dict' = [dict EXCEPT ![k] = NoValue]

\* HASHMAP_clear
Drop == dict' = [k \in Keys |-> NoValue]

Next == \/ \E k \in Keys, v \in Values : Put(k, v)
        \/ \E k \in Keys : Delete(k)
        \/ Drop

Spec == Init /\ [][Next]_dict

=============================================================================
