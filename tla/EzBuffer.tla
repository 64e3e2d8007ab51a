------------------------------ MODULE EzBuffer ------------------------------
(***************************************************************************)
(* ez_Buffer and the calls of include/easynet.c that move buffers through  *)
(* sockets.  A sender records messages into one buffer and sends it; a     *)
(* receiver asks or waits for bytes in another and translates them out.    *)
(* Both directions of a connection run the same code (ez_client_send and   *)
(* ez_server_send, _ask, _recieve), so that one direction stands for both. *)
(* The sender's buffer may go out as a datagram too (ez_server_throw).     *)
(*                                                                         *)
(* TCP keeps the order of bytes and not the boundaries of messages: recv   *)
(* returns any positive number of the bytes under way.  UDP keeps the      *)
(* boundaries and nothing else: a datagram arrives never, once or often,   *)
(* in any order, and loses what exceeds the buffer.                        *)
(***************************************************************************)
EXTENDS Integers, Sequences, SequencesExt

CONSTANTS
  Bytes,
  Zero,          \* the byte 0
  OutMax, InMax, \* max_length of the two buffers
  MaxPipe,       \* bound: bytes on their way through TCP
  MaxAir         \* bound: different datagrams thrown

ASSUME BufferAssumption == {OutMax, InMax, MaxPipe, MaxAir} \subseteq Nat

VARIABLES
  out, in,       \* the buffers: [bytes, len]; len is current_length
  letter,        \* the source of the last ez_record_buffer that succeeded
  pipe,          \* TCP: bytes sent and not received
  closed,        \* TCP: the sender's side is closed
  air,           \* UDP: every datagram thrown so far
  fresh,         \* what `in' holds that was not translated: "stream", ...
  delivered,     \* what the last ez_translate_buffer returned: of a stream,
  handed,        \* or of a datagram
  trap           \* did a hardened build stop the process?

bufferVars == <<out, in, letter, pipe, closed, air, fresh, delivered, handed, trap>>

\* A message may be one byte longer than the buffer: then recording it fails.
Messages == SeqOf(Bytes, OutMax + 1)

\* ez_generate_buffer: zeroed bytes, nothing recorded.
Empty(max) == [bytes |-> [i \in 1 .. max |-> Zero], len |-> 0]

BufferInit ==
  /\ out = Empty(OutMax) /\ in = Empty(InMax)
  /\ letter = <<>> /\ pipe = <<>> /\ closed = FALSE
  /\ air = {} /\ fresh = "nothing" /\ delivered = <<>> /\ handed = <<>>
  /\ trap = FALSE

\* The bytes of a buffer that its current_length claims.
Claimed(buffer) == SubSeq(buffer.bytes, 1, buffer.len)

\* What recv leaves of n bytes m in a buffer: the rest keeps its old bytes.
Overwritten(bytes, m) ==
  [i \in DOMAIN bytes |-> IF i <= Len(m) THEN m[i] ELSE bytes[i]]

-----------------------------------------------------------------------------
\* The sender's buffer after recording m: its bytes, then zeros.
Recorded(m) ==
  [bytes |-> [i \in 1 .. OutMax |-> IF i <= Len(m) THEN m[i] ELSE Zero], len |-> Len(m)]

\* ez_record_buffer refuses what does not fit.
Record(m) ==
  /\ IF OutMax < Len(m)
     THEN UNCHANGED <<out, letter>>
     ELSE out' = Recorded(m) /\ letter' = m
  /\ UNCHANGED <<in, pipe, closed, air, fresh, delivered, handed, trap>>

\* ez_client_send, ez_server_send: a blocking send that no signal interrupts
\* takes all bytes or fails.
Send ==
  /\ ~closed
  /\ pipe' = pipe \o Claimed(out)
  /\ Len(pipe') <= MaxPipe
  /\ UNCHANGED <<out, in, letter, closed, air, fresh, delivered, handed, trap>>

\* The sender's end is closed, or the connection breaks and the last bytes
\* under way are lost.
Hangup ==
  /\ closed' = TRUE
  /\ \E n \in 0 .. Len(pipe) : pipe' = SubSeq(pipe, 1, n)
  /\ UNCHANGED <<out, in, letter, air, fresh, delivered, handed, trap>>

\* Mutant: current_length grows with what arrives, but never shrinks.
ArrivedLongest(m) ==
  [bytes |-> Overwritten(in.bytes, m), len |-> Max({in.len, Len(m)})]

\* The receiver's buffer after recv or recvfrom has put the bytes m there.
Arrived(m) == [bytes |-> Overwritten(in.bytes, m), len |-> Len(m)]

\* A recv that finds bytes.  A receiver empties its buffer before it asks again.
Receive ==
  /\ fresh = "nothing"
  /\ \E n \in 1 .. InMax :
       /\ n <= Len(pipe)
       /\ in' = Arrived(SubSeq(pipe, 1, n))
       /\ pipe' = SubSeq(pipe, n + 1, Len(pipe))
  /\ fresh' = "stream"
  /\ UNCHANGED <<out, letter, closed, air, delivered, handed, trap>>

\* ez_server_ask, ez_client_ask: without bytes the buffer claims nothing.
Ask ==
  \/ Receive
  \/ /\ fresh = "nothing"
     /\ in' = [in EXCEPT !.len = 0]
     /\ UNCHANGED <<out, letter, pipe, closed, air, fresh, delivered, handed, trap>>

\* ez_server_recieve, ez_client_recieve: an error, or the end of the stream,
\* leaves the buffer as it was.  (Until there is either, the call waits.)
Recieve ==
  \/ Receive
  \/ fresh = "nothing" /\ UNCHANGED bufferVars

\* Mutant: what is translated is the whole buffer.
TranslatedAll == in.bytes

Translated == Claimed(in)

\* ez_translate_buffer into a destination of n bytes, refused when too small.
\* The receiver does it for bytes that a call has just reported.
Translate(n) ==
  /\ fresh # "nothing"
  /\ in.len <= n
  /\ fresh' = "nothing"
  /\ delivered' = IF fresh = "stream" THEN Translated ELSE <<>>
  /\ handed' = IF fresh = "datagram" THEN Translated ELSE <<>>
  /\ UNCHANGED <<out, in, letter, pipe, closed, air, trap>>

TranslateRefused(n) == fresh # "nothing" /\ in.len > n /\ UNCHANGED bufferVars

-----------------------------------------------------------------------------
\* ez_server_throw.  It writes a 0 behind the claimed bytes and puts the old
\* byte back, so that the buffer stays as it was; when the buffer is full that
\* byte is not in the buffer, and a hardened build may stop.
Throw ==
  /\ trap' \in IF out.len = OutMax THEN BOOLEAN ELSE {FALSE}
  /\ air' \in {air, air \cup {Claimed(out)}}
  /\ UNCHANGED <<out, in, letter, pipe, closed, fresh, delivered, handed>>

\* Mutant: the length is that of the datagram, not of what fits.
CutNot(m) == m

\* What recvfrom keeps of a datagram.
Cut(m) == SubSeq(m, 1, Min({Len(m), InMax}))

\* ez_server_recieve_from, also after the select of its timed variant.  Without
\* a datagram the buffer stays as it was and the sender is 0.0.0.0:0.
RecieveFrom ==
  /\ fresh = "nothing"
  /\ \/ \E m \in air :
          /\ in' = Arrived(Cut(m))
          /\ fresh' = "datagram"
     \/ UNCHANGED <<in, fresh>>
  /\ UNCHANGED <<out, letter, pipe, closed, air, delivered, handed, trap>>

BufferNext ==
  /\ ~trap
  /\ \/ \E m \in Messages : Record(m)
     \/ Send \/ Hangup \/ Ask \/ Recieve
     \/ \E n \in 0 .. InMax : Translate(n) \/ TranslateRefused(n)
     \/ Cardinality(air) < MaxAir /\ Throw
     \/ RecieveFrom

BufferSpec == BufferInit /\ [][BufferNext]_bufferVars

-----------------------------------------------------------------------------
\* Type invariant: no buffer claims more than it has.
BufferTypeOK ==
  /\ out.bytes \in [1 .. OutMax -> Bytes \cup {Zero}] /\ out.len \in 0 .. OutMax
  /\ in.bytes \in [1 .. InMax -> Bytes \cup {Zero}] /\ in.len \in 0 .. InMax
  /\ letter \in Messages /\ {delivered, handed, pipe} \subseteq Seq(Bytes)
  /\ closed \in BOOLEAN /\ trap \in BOOLEAN
  /\ air \subseteq Messages
  /\ fresh \in {"nothing", "stream", "datagram"}

\* What the sender queues is handed over by ask, recieve and translate as a
\* byte stream: in whatever pieces, nothing is repeated or swapped, nothing of
\* an older, longer message or of a datagram shows, and nothing is lost but
\* what was sent last before the connection ended.
Stream == INSTANCE EzStream WITH
  queue <- (IF fresh = "stream" THEN Claimed(in) ELSE <<>>) \o pipe,
  ended <- closed
ImplementsStream == Stream!Spec

\* What is handed over by recieve_from and translate is one datagram, whole or
\* cut at the end of the receiver's buffer: never bytes of two, whichever
\* arrive before and after, and nothing that the stream left in the buffer.
Post == INSTANCE EzPost WITH posted <- air, received <- handed, Room <- InMax
ImplementsPost == Post!Spec

=============================================================================
