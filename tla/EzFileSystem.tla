---------------------------- MODULE EzFileSystem ----------------------------
(***************************************************************************)
(* The file system as include/easyfile.c sees it through opendir, readdir, *)
(* stat, fopen and fread (not part of src/).  Other programs remove and    *)
(* rewrite files at any moment.  A directory may hold a symbolic link to   *)
(* one of those above it, so that "children" is a graph.                   *)
(***************************************************************************)
EXTENDS Integers, Sequences, SequencesExt

CONSTANTS
  Nodes, Root,
  Worlds,        \* what the file system may look like at first
  MaxPath,       \* the longest path that stat resolves
  MaxOpen,       \* how many descriptors the process may have
  MaxChanges,    \* bound: changes made by others
  Extra          \* the character that others append to a file

Kinds == {"file", "dir", "sealed", "dangling", "gone"}
IsDir(k) == k \in {"dir", "sealed"}

\* Only directories hold anything.
ASSUME FileSystemAssumption ==
  /\ Root \in Nodes
  /\ {MaxPath, MaxOpen, MaxChanges} \subseteq Nat
  /\ Extra \in STRING
  /\ Worlds \subseteq [kind : [Nodes -> Kinds], children : [Nodes -> SUBSET Nodes],
                       content : [Nodes -> Seq(STRING)], name : [Nodes -> Seq(STRING)]]
  /\ \A w \in Worlds, n \in Nodes : ~IsDir(w.kind[n]) => w.children[n] = {}

VARIABLES
  world,         \* the world at first: [kind, children, content, name]
  kind,          \* what each node is now; "sealed" is a directory one may
                 \* not read, "dangling" a symbolic link to nothing
  content,       \* the characters of each file
  descriptors,   \* how many descriptors the process has
  changes        \* how many changes others have made

disk == <<world, kind, content, changes>>

DiskInit ==
  /\ world \in Worlds
  /\ kind = world.kind /\ content = world.content
  /\ descriptors = 0 /\ changes = 0

\* Somebody removes a node.
Vanish(n) ==
  /\ changes < MaxChanges /\ changes' = changes + 1
  /\ kind[n] # "gone"
  /\ kind' = [kind EXCEPT ![n] = "gone"]
  /\ UNCHANGED <<world, content, descriptors>>

\* Somebody shortens or lengthens a file by a character.
Rewrite(n) ==
  /\ changes < MaxChanges /\ changes' = changes + 1
  /\ kind[n] = "file"
  /\ \/ content' = [content EXCEPT ![n] = Append(@, Extra)]
     \/ content[n] # <<>> /\ content' = [content EXCEPT ![n] = Front(@)]
  /\ UNCHANGED <<world, kind, descriptors>>

\* A path is a sequence of nodes, from the root on.
Exists(path) == Len(path) <= MaxPath /\ \A i \in DOMAIN path : kind[path[i]] # "gone"

StatOK(path) == Exists(path) /\ kind[Last(path)] # "dangling"

CanOpenDir(path) ==
  Exists(path) /\ kind[Last(path)] = "dir" /\ descriptors < MaxOpen

\* fopen for reading takes a directory too; ez_walk_files hands out none, and
\* that a file turns into one is left out.
CanOpenFile(path) ==
  Exists(path) /\ kind[Last(path)] = "file" /\ descriptors < MaxOpen

\* The characters of a path: the names with slashes between them.
Spelled(path) == FlattenSeq([i \in DOMAIN path |->
  IF i = 1 THEN world.name[path[i]] ELSE <<"/">> \o world.name[path[i]]])

=============================================================================
