----------------------------- MODULE EzPriority -----------------------------
(***************************************************************************)
(* What PQUEUE_* promises its caller: a set of items, each under a handle  *)
(* (the `index' that PQUEUE_update takes), from which pop removes one of   *)
(* least cost.  No heap, no array, no capacity.                            *)
(***************************************************************************)
EXTENDS Integers

CONSTANTS
  Handles,    \* the handles that may ever be given out
  Values, Costs,
  Nothing     \* popped before the first pop

VARIABLES
  items,      \* the queued items, a partial function on Handles
  popped      \* what the last PQUEUE_pop returned

Items == [value : Values, cost : Costs]

Init == /\ items = [h \in {} |-> Nothing]
        /\ popped = Nothing

\* PQUEUE_build: the given items replace the (empty) queue.
Fill == \E H \in SUBSET Handles :
          /\ items' \in [H -> Items]
          /\ DOMAIN items = {}
          /\ UNCHANGED popped

\* PQUEUE_insert: one more item, under a handle of its own.
Put(h, v, c) ==
  /\ h \notin DOMAIN items
  /\ items' = [g \in DOMAIN items \cup {h} |->
                 IF g = h THEN [value |-> v, cost |-> c] ELSE items[g]]
  /\ UNCHANGED popped

\* PQUEUE_pop: an item of least cost leaves and its value is returned.
Take(h) ==
  /\ h \in DOMAIN items
  /\ \A g \in DOMAIN items : items[h].cost <= items[g].cost
  /\ popped' = items[h].value
  /\ items' = [g \in DOMAIN items \ {h} |-> items[g]]

\* PQUEUE_update: the cost of one queued item changes.
Reprice(h, c) ==
  /\ h \in DOMAIN items
  /\ items' = [items EXCEPT ![h].cost = c]
  /\ UNCHANGED popped

\* PQUEUE_clear
Drop == /\ items' = [h \in {} |-> Nothing]
        /\ UNCHANGED popped

Next ==
  \/ Fill
  \/ Drop
  \/ \E h \in Handles :
       \/ Take(h)
       \/ \E c \in Costs : Reprice(h, c) \/ \E v \in Values : Put(h, v, c)

Spec == Init /\ [][Next]_<<items, popped>>

=============================================================================
