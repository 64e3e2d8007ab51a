------------------------------- MODULE EzReader -------------------------------
(***************************************************************************)
(* ez_load_file, ez_next_line, ez_free_file and ez_parser of               *)
(* include/easyfile.c, used by a handler of a directory walk: it loads the *)
(* file, reads its lines into a buffer, parses every one as a number with  *)
(* include/easyparse.c, and frees the file.                                *)
(*                                                                         *)
(* ez_load_file is two steps, so that others may change the file between   *)
(* the measuring of its size and the reading.  ez_next_line keeps the      *)
(* offset of a line's end in an int.                                       *)
(***************************************************************************)
EXTENDS EzFileSystem, EzText, EzMemory

CONSTANTS
  Sizes,         \* the buffers that handlers pass to ez_next_line
  IntRange,      \* an int counts modulo this
  WordSize       \* size_t counts modulo this

ASSUME ReaderAssumption ==
  /\ Sizes \subseteq Nat \ {0}
  /\ IntRange \in Nat \ {0} /\ WordSize \in Nat /\ IntRange <= WordSize

NewLine == "\n"

VARIABLES
  at,            \* where the handler is, or how the process ended
  path,          \* the file it was called for
  type,          \* sfile->type
  length,        \* sfile->size
  data,          \* sfile->data
  cursor, line,  \* the parser
  size,          \* the size of the handler's buffer
  piece,         \* what ez_next_line put into it last
  number,        \* what a parser made of it: [parser, result]
  allocated      \* EZ_ALLOCATED()

reader == <<at, path, type, length, data, cursor, line, size, piece, number, allocated>>

NoNumber == [parser |-> "none", result |-> Refused]

\* A handler that has not begun, holding nothing.
Fresh(place) ==
  /\ at' = place /\ path' = <<>>
  /\ type' = "UNKNOWN" /\ length' = 0 /\ data' = <<>>
  /\ cursor' = 0 /\ line' = 0 /\ size' = 1
  /\ piece' = <<>> /\ number' = NoNumber

ReaderInit ==
  /\ at = "idle" /\ path = <<>>
  /\ type = "UNKNOWN" /\ length = 0 /\ data = <<>>
  /\ cursor = 0 /\ line = 0 /\ size = 1
  /\ piece = <<>> /\ number = NoNumber
  /\ allocated = 0

-----------------------------------------------------------------------------
\* ez_load_file.  The ez_File is allocated first, and freed when fopen fails.
LoadFails(p) ==
  /\ at = "idle" /\ ~CanOpenFile(p)
  /\ Fresh("done")
  /\ UNCHANGED <<disk, descriptors, allocated>>

\* It opens the file, takes its size and allocates as much.
Measure(p) ==
  /\ at = "idle" /\ CanOpenFile(p)
  /\ at' = "measured" /\ path' = p
  /\ type' = FileType(Spelled(p))
  /\ length' = Len(content[Last(p)])
  /\ allocated' = Allocated(Allocated(allocated, 1), length')
  /\ descriptors' = descriptors + 1
  /\ UNCHANGED <<disk, data, cursor, line, size, piece, number>>

\* Mutants: a file that got shorter is freed without its data; a file that
\* got shorter is not noticed.
BothFreedNot == Freed(allocated, 1)
ReadWhatThereIs ==
  /\ at = "measured"
  /\ descriptors' = descriptors - 1
  /\ data' = SubSeq(content[Last(path)], 1, Min({length, Len(content[Last(path)])}))
  /\ at' = "loaded" /\ size' \in Sizes
  /\ UNCHANGED <<disk, path, type, length, cursor, line, piece, number, allocated>>

\* ez_free_file: the data and the ez_File.
BothFreed == Freed(Freed(allocated, length), 1)

\* It reads and closes the file, and gives up when there is less than before.
\* Then ez_parser starts at the beginning.
Read ==
  /\ at = "measured"
  /\ descriptors' = descriptors - 1
  /\ IF Len(content[Last(path)]) < length
     THEN Fresh("done") /\ allocated' = BothFreed
     ELSE /\ data' = SubSeq(content[Last(path)], 1, length)
          /\ at' = "loaded" /\ size' \in Sizes
          /\ UNCHANGED <<path, type, length, cursor, line, piece, number, allocated>>
  /\ UNCHANGED disk

-----------------------------------------------------------------------------
\* (int)i
ToInt(i) ==
  LET low == i % IntRange IN IF low < IntRange \div 2 THEN low ELSE low - IntRange

\* last_ind of ez_next_line: where the next line end is, or -1.
LineEnd ==
  LET ends == {i \in cursor .. length - 1 : data[i + 1] = NewLine}
  IN  IF ends = {} THEN -1 ELSE ToInt(Min(ends))

\* Where the next line begins, behind the line end `last'.  The sum is one of
\* ints: behind the greatest it is undefined, and a build that computes it in a
\* wider register goes on there, one that lets it wrap never returns there.
NextStart(last) ==
  {last + 1} \cup IF last = IntRange \div 2 - 1 THEN {ToInt(last + 1) % WordSize} ELSE {}

\* memcpy of n characters at the cursor into the buffer.
Copy(n) ==
  IF n <= size /\ cursor + n <= length
  THEN piece' = SubSeq(data, cursor + 1, cursor + n) /\ at' = "line"
  ELSE piece' = <<>> /\ at' = "overrun"

\* Mutant: a line as long as the buffer counts as too long.
AdvanceEarly ==
  LET last == LineEnd
      width == (last - cursor) % WordSize
  IN  \/ last < 0 /\ Copy(length - cursor) /\ cursor' = length
      \/ last >= 0 /\ width >= size /\ Copy(size) /\ cursor' = cursor + size
      \/ last >= 0 /\ width < size /\ Copy(width) /\ cursor' \in NextStart(last)

\* The rest of a file without a line end is copied whole; of a line that is
\* longer than the buffer, a buffer full; of any other, the line.
Advance ==
  LET last == LineEnd
      width == (last - cursor) % WordSize
  IN  \/ last < 0 /\ Copy(length - cursor) /\ cursor' = length
      \/ last >= 0 /\ width > size /\ Copy(size) /\ cursor' = cursor + size
      \/ last >= 0 /\ width <= size /\ Copy(width) /\ cursor' \in NextStart(last)

\* ez_next_line
NextLine ==
  /\ at = "loaded" /\ cursor < length
  /\ Advance
  /\ line' = line + 1
  /\ number' = NoNumber
  /\ UNCHANGED <<disk, descriptors, path, type, length, data, size, allocated>>

\* The buffer ends in a NUL only if the line is shorter than it.
Terminated == Len(piece) < size

\* The handler parses the line, if it is a string.
Parse ==
  /\ at = "line" /\ at' = "loaded"
  /\ \/ UNCHANGED number
     \/ Terminated /\ number' \in {[parser |-> "size", result |-> ParseSize(piece)],
                                   [parser |-> "uint", result |-> ParseUint(piece)],
                                   [parser |-> "lint", result |-> ParseLint(piece)]}
  /\ UNCHANGED <<disk, descriptors, path, type, length, data, cursor, line, size, piece, allocated>>

\* ez_free_file, when ez_next_line has returned FALSE.
FreeFile ==
  /\ at = "loaded" /\ cursor >= length
  /\ Fresh("done") /\ allocated' = BothFreed
  /\ UNCHANGED <<disk, descriptors>>

ReaderNext(p) == LoadFails(p) \/ Measure(p) \/ Read \/ NextLine \/ Parse \/ FreeFile

=============================================================================
