------------------------------ MODULE EzStream ------------------------------
(***************************************************************************)
(* What the transfer calls of include/easynet.h promise over TCP: a byte   *)
(* stream.  What was written is queued as a whole; it is handed over in    *)
(* order, without gaps or repetitions, in pieces of any length.  A         *)
(* connection that ends may lose what was sent last; until it ends nothing *)
(* is lost, and after that nothing is sent.                                *)
(***************************************************************************)
EXTENDS Sequences, Naturals

CONSTANT Messages   \* what the writer may write: sequences of bytes

VARIABLES
  letter,     \* what the writer wrote last
  queue,      \* what was sent and has not been handed over
  delivered,  \* the piece handed over last, until its place is used again
  ended       \* is the connection closed or broken?

Init == letter = <<>> /\ queue = <<>> /\ delivered = <<>> /\ ended = FALSE

Write ==
  /\ letter' \in Messages
  /\ UNCHANGED <<queue, delivered, ended>>

Send ==
  /\ ~ended
  /\ queue' = queue \o letter
  /\ UNCHANGED <<letter, delivered, ended>>

Deliver ==
  /\ \E n \in 1 .. Len(queue) :
       /\ delivered' = SubSeq(queue, 1, n)
       /\ queue' = SubSeq(queue, n + 1, Len(queue))
  /\ UNCHANGED <<letter, ended>>

Forget ==
  /\ delivered' = <<>>
  /\ UNCHANGED <<letter, queue, ended>>

End ==
  /\ ended' = TRUE
  /\ \E n \in 0 .. Len(queue) : queue' = SubSeq(queue, 1, n)
  /\ UNCHANGED <<letter, delivered>>

Next == Write \/ Send \/ Deliver \/ Forget \/ End

Spec == Init /\ [][Next]_<<letter, queue, delivered, ended>>

=============================================================================
