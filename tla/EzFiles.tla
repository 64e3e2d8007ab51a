-------------------------------- MODULE EzFiles --------------------------------
(***************************************************************************)
(* A program that walks directories with the functions of                  *)
(* include/easyfile.c, and whose handler loads every file and reads it     *)
(* line by line (EzWalk and EzReader together), while other programs       *)
(* change the file system.                                                 *)
(***************************************************************************)
EXTENDS EzWalk, EzReader

vars == <<disk, descriptors, walk, reader>>

Init == DiskInit /\ WalkInit /\ ReaderInit

\* The handler of a walk over files reads the file; that of a walk over
\* directories does nothing.
HandlerRuns ==
  /\ pc = "handling" /\ mode = "files"
  /\ ReaderNext(target)
  /\ UNCHANGED walk

HandlerEnds ==
  /\ at \in {"idle", "done"}
  /\ HandlerReturns
  /\ at' = "idle"
  /\ UNCHANGED <<path, type, length, data, cursor, line, size, piece, number, allocated>>

Others ==
  /\ pc # "idle"
  /\ \E n \in Nodes : Vanish(n) \/ Rewrite(n)
  /\ UNCHANGED <<walk, reader>>

Running == (WalkStep /\ UNCHANGED reader) \/ HandlerRuns \/ HandlerEnds

Next ==
  /\ at # "overrun"
  /\ \/ \E m \in {"files", "directories"} : StartWalk(m) /\ UNCHANGED reader
     \/ Running
     \/ Others

\* The one thread keeps running; nothing it calls waits for anybody.
Spec == Init /\ [][Next]_vars /\ WF_vars(at # "overrun" /\ Running)

-----------------------------------------------------------------------------
\* The paths of up to MaxPath + 1 nodes below the root, by their length.
PathsOf[n \in 1 .. MaxPath + 1] ==
  IF n = 1 THEN {<<Root>>}
  ELSE UNION {{Append(p, c) : c \in world.children[Last(p)]} : p \in PathsOf[n - 1]}

Paths == UNION {PathsOf[n] : n \in 2 .. MaxPath}

\* A file system without a cycle, a dangling link or a directory that may not
\* be read, of which every path fits, and its descriptors too.
Tame ==
  /\ world.kind[Root] = "dir"
  /\ \A n \in Nodes : world.kind[n] \in {"file", "dir"}
  /\ PathsOf[MaxPath + 1] = {} /\ MaxPath <= MaxOpen

Wanted == {p \in Paths : IsDir(world.kind[Last(p)]) <=> mode = "directories"}

\* A walk never hands out a path twice, not even where links make a cycle or
\* others interfere.  If nobody does, a walk of an ordinary tree hands out all
\* that it is for, returns TRUE and leaves no directory open.
WalkCovers ==
  /\ handlings = Cardinality(handled)
  /\ result # "none" /\ changes = 0 /\ Tame =>
       result = "true" /\ handled = Wanted /\ descriptors = 0

\* Descriptors that no frame and no running ez_load_file will close, and bytes
\* that no ez_free_file will free.
Strays == descriptors - Len(stack) - (IF at = "measured" THEN 1 ELSE 0)
Unheld ==
  allocated - (IF at \in {"idle", "done"} THEN 0 ELSE Block(1) + Block(length))

\* A directory stays open only where stat fails on one of its entries; every
\* other way out closes it, and however loading goes no byte stays allocated.
OnlyStatLeaks ==
  [][/\ Unheld' = Unheld
     /\ Strays' # Strays => \E c \in Nodes : StatFails(c)]_vars

\* A walk ends, also around a cycle of links and in files beyond the range of
\* an int, unless a line overruns the buffer.
WalkEnds == pc # "idle" ~> (pc = "idle" \/ at = "overrun")

-----------------------------------------------------------------------------
\* What a handler reads: a file whose length an int can hold.
Reading == at \in {"loaded", "line", "overrun"} /\ length < IntRange \div 2

Lines == INSTANCE EzLines WITH
  Texts   <- Seq(STRING),
  LineEnd <- NewLine,
  text    <- IF Reading /\ at # "overrun" THEN SubSeq(data, cursor + 1, length) ELSE <<>>,
  piece   <- IF ~Reading THEN <<>> ELSE IF at = "overrun" THEN <<NewLine>> ELSE piece,
  pieces  <- IF Reading THEN line ELSE 0

\* Up to the range of an int, ez_next_line hands out the lines of the file in
\* order, each whole or in pieces as long as the buffer, counts the pieces, and
\* overruns the buffer only with a last line that is too long for it.
ImplementsLines == Lines!Spec

\* ez_load_file returns all of the file, unless others changed it, with the
\* type of the name that ez_strip_filename would find: dots and separators in
\* the names of directories do not count.
LoadedRight ==
  at \in {"loaded", "line"} =>
    /\ Len(data) = length
    /\ changes = 0 => data = content[Last(path)]
    /\ LET name == StripName(Spelled(path))
       IN  type = IF name = NoName THEN "UNKNOWN" ELSE FileType(name)

\* What a number looks like in a string: the places <<i, j, k>> where its sign,
\* its digits and the blanks behind it begin.
Numeral(s, i, j, k) ==
  /\ \A n \in 1 .. i - 1 : s[n] \in White
  /\ j = i \/ (j = i + 1 /\ s[i] \in {Minus, Plus})
  /\ j < k /\ \A n \in j .. k - 1 : s[n] \in DOMAIN Digits
  /\ \A n \in k .. Len(s) : s[n] \in White

\* Ten to the n.
TenTo(n) == LET power[i \in 0 .. n] == IF i = 0 THEN 1 ELSE 10 * power[i - 1] IN power[n]

Number(s, i, j, k) ==
  LET m == SumFunction([n \in j .. k - 1 |-> Digits[s[n]] * TenTo(k - 1 - n)])
  IN  IF i < j /\ s[i] = Minus THEN -m ELSE m

\* What the parsers are to do with a number: refuse it, or return its value,
\* modulo the width of the result.
Meant(parser, v) ==
  IF parser = "lint"
  THEN IF v \in -(LongSize \div 2) .. LongSize \div 2 - 1 THEN {v} ELSE {}
  ELSE IF v \in -LongSize + 1 .. LongSize - 1
       THEN {v % IF parser = "uint" THEN IntSize ELSE LongSize} ELSE {}

\* A line of a file that is handed to ez_parse_size, _uint or _lint is accepted
\* exactly if it is a number, with or without a sign, with blanks around it and
\* in the range of a long; below 0 the unsigned ones wrap, and ez_parse_uint
\* drops the high bits.
ParsedRight ==
  number.parser # "none" =>
    LET places == {p \in (1 .. Len(piece) + 1) \X (1 .. Len(piece) + 1) \X (1 .. Len(piece) + 1) :
                     Numeral(piece, p[1], p[2], p[3])}
        values == UNION {Meant(number.parser, Number(piece, p[1], p[2], p[3])) : p \in places}
    IN  /\ number.result.ok <=> values # {}
        /\ number.result.ok => values = {number.result.value}

=============================================================================
