------------------------------- MODULE EzLines -------------------------------
(***************************************************************************)
(* What reading a file line by line means: every call takes the next line  *)
(* off the text, or, when the line is longer than the caller's buffer, as  *)
(* much of it as the buffer holds.  Nothing is lost but line ends.         *)
(***************************************************************************)
EXTENDS Sequences, Naturals

CONSTANTS
  Texts,       \* the texts there are
  Sizes,       \* the buffers there are
  LineEnd      \* the character that ends a line

VARIABLES
  text,        \* what has not been read
  piece,       \* the line, or part of one, read last
  pieces       \* how many there were

Init == text = <<>> /\ piece = <<>> /\ pieces = 0

\* n is the length of the first line of the text.
FirstLine(n) ==
  /\ n \in 0 .. Len(text)
  /\ \A i \in 1 .. n : text[i] # LineEnd
  /\ n < Len(text) => text[n + 1] = LineEnd

Rest(n) == SubSeq(text, n + 1, Len(text))

ReadLine ==
  /\ text # <<>>
  /\ \E n \in 0 .. Len(text), size \in Sizes :
       /\ FirstLine(n)
       /\ IF n <= size
          THEN piece' = SubSeq(text, 1, n) /\ text' = Rest(n + 1)
          ELSE piece' = SubSeq(text, 1, size) /\ text' = Rest(size)
  /\ pieces' = pieces + 1

\* A last line that nothing ends must fit into the buffer: if it does not,
\* the call writes beyond it, and there is no telling what follows.
Spoiled == <<LineEnd>>

Overrun ==
  /\ \E size \in Sizes : FirstLine(Len(text)) /\ Len(text) > size
  /\ text' = <<>> /\ piece' = Spoiled
  /\ pieces' = pieces + 1

\* Another file, or none.
Open == text' \in Texts /\ piece' = <<>> /\ pieces' = 0

Next == ReadLine \/ Overrun \/ Open

Spec == Init /\ [][Next]_<<text, piece, pieces>>

=============================================================================
