------------------------------- MODULE EzPost -------------------------------
(***************************************************************************)
(* What throwing and receiving in include/easynet.h promise over UDP:      *)
(* post.  A posted message may be received never, once or often, and in    *)
(* any order; what is received is one of them, of which at most the end is *)
(* missing, where it did not fit.                                          *)
(***************************************************************************)
EXTENDS Sequences, Naturals

CONSTANTS
  Messages,   \* what the sender may write: sequences of bytes
  Room        \* the longest message that a receiver has room for

VARIABLES
  letter,     \* what the sender wrote last
  posted,     \* every message posted so far
  received    \* the message received last, until its place is used again

Init == letter = <<>> /\ posted = {} /\ received = <<>>

Write ==
  /\ letter' \in Messages
  /\ UNCHANGED <<posted, received>>

Post ==
  /\ posted' = posted \cup {letter}
  /\ UNCHANGED <<letter, received>>

\* What fits of a message: all of it, or as much as there is room for.
Fitting(m) == IF Len(m) <= Room THEN m ELSE SubSeq(m, 1, Room)

Receive ==
  /\ \E m \in posted : received' = Fitting(m)
  /\ UNCHANGED <<letter, posted>>

Forget ==
  /\ received' = <<>>
  /\ UNCHANGED <<letter, posted>>

Next == Write \/ Post \/ Receive \/ Forget

Spec == Init /\ [][Next]_<<letter, posted, received>>

=============================================================================
