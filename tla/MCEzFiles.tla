------------------------------ MODULE MCEzFiles ------------------------------
(* Small instances of EzFiles: a directory with one file of any short         *)
(* contents, one with any short name, large files, and trees.                 *)
EXTENDS EzFiles

CONSTANTS r, d, e, f, g

MCDigits == [c \in {"1", "6", "8"} |-> CASE c = "1" -> 1 [] c = "6" -> 6 [] c = "8" -> 8]
MCWhite == {" ", "\t"}
MCTypes == [x \in {<<"o">>} |-> "DOTOBJ"]
MCChars == {"1", " ", NewLine}

\* A world: the root r, the nodes that are directories, who holds whom, and
\* the contents and names of the files.
World(dirs, children, text, names) ==
  [kind     |-> [n \in Nodes |-> IF n \in dirs THEN "dir" ELSE "file"],
   children |-> [n \in Nodes |-> IF n \in DOMAIN children THEN children[n] ELSE {}],
   content  |-> [n \in Nodes |-> IF n = f THEN text ELSE <<"1">>],
   name     |-> [n \in Nodes |-> IF n \in DOMAIN names THEN names[n] ELSE <<"x">>]]

NoNames == [n \in {} |-> <<>>]
OneFile == [n \in {r} |-> {f}]

Texts == {World({r}, OneFile, t, NoNames) : t \in SeqOf(MCChars, 4)}

\* One line, in which numbers on both sides of each limit are written.
Numerals ==
  {World({r}, OneFile, t, NoNames) :
     t \in SeqOf(DOMAIN MCDigits \cup MCWhite \cup {Minus, Plus, "x"}, 3)}

\* A file beyond the range of an int, with one line end or none.
Large(n, end) == [i \in 1 .. n |-> IF i = end THEN NewLine ELSE "1"]
LargeFiles ==
  {World({r}, OneFile, Large(n, i), NoNames) : n \in {9, 18}, i \in {0, 1, 8, 9, 10, 16, 17, 18}}

Names ==
  {World({r}, OneFile, <<>>, [n \in {r, f} |-> IF n = f THEN t ELSE u]) :
     t \in SeqOf({".", "\\", "o"}, 3) \ {<<>>}, u \in {<<"x">>, <<"x", ".", "o">>}}

Tree(children) == World({n \in Nodes : n \in DOMAIN children}, children, <<"1">>, NoNames)

Trees ==
  {Tree([n \in {r, d} |-> IF n = r THEN {d, f} ELSE {g}]),
   Tree([n \in {r, d, e} |-> CASE n = r -> {d, e} [] n = d -> {f} [] n = e -> {g}]),
   Tree([n \in {r, d, e} |-> CASE n = r -> {d, e} [] n = d -> {g} [] n = e -> {g}]),
   Tree([n \in {r, d} |-> IF n = r THEN {d, f} ELSE {r, g}])}

Altered(w, n, kind_) == [w EXCEPT !.kind[n] = kind_]

MCWorlds ==
  Texts \cup Numerals \cup LargeFiles \cup Names \cup Trees
    \cup {Altered(w, g, "dangling") : w \in Trees}
    \cup {Altered(w, d, "sealed") : w \in Trees}

=============================================================================
