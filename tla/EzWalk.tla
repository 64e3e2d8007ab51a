-------------------------------- MODULE EzWalk --------------------------------
(***************************************************************************)
(* ez_walk_files and ez_walk_directories of include/easyfile.c.  They call *)
(* themselves for every directory below; `stack' holds their frames.  Each *)
(* directory entry is a step, and so is each opendir, between which others *)
(* may change what the walk has just looked at, and the handler runs.      *)
(***************************************************************************)
EXTENDS EzFileSystem

VARIABLES
  pc,          \* "idle", "opening", "reading", or in the handler: "handling"
  mode,        \* which of the two: "files" or "directories"
  stack,       \* per frame: the directory, the entries to come, and `ret'
  target,      \* the path about to be opened, or the handler's argument
  handled,     \* the paths handed to the handler in this walk
  handlings,   \* and how many calls that were
  result       \* what the walk returned, "true" or "false", or "none"

walk == <<pc, mode, stack, target, handled, handlings, result>>

Here == [i \in DOMAIN stack |-> stack[i].dir]

WalkInit ==
  /\ pc = "idle" /\ mode = "files" /\ stack = <<>> /\ target = <<>>
  /\ handled = {} /\ handlings = 0 /\ result = "none"

StartWalk(m) ==
  /\ pc = "idle" /\ pc' = "opening"
  /\ mode' = m /\ target' = <<Root>>
  /\ handled' = {} /\ handlings' = 0 /\ result' = "none"
  /\ UNCHANGED <<disk, descriptors, stack>>

\* The walk whose caller has these frames returns: the caller's `ret' becomes
\* what it returned, whatever it was before.
Return(frames, ret) ==
  IF frames = <<>>
  THEN pc' = "idle" /\ result' = ret /\ stack' = <<>>
  ELSE /\ pc' = "reading"
       /\ stack' = [frames EXCEPT ![Len(frames)].ret = ret]
       /\ UNCHANGED result

Frame(n) == [dir |-> n, left |-> {c \in world.children[n] : kind[c] # "gone"}, ret |-> "true"]

\* opendir
OpenDir ==
  /\ pc = "opening" /\ CanOpenDir(target)
  /\ pc' = "reading"
  /\ stack' = Append(stack, Frame(Last(target)))
  /\ descriptors' = descriptors + 1
  /\ UNCHANGED <<disk, mode, target, handled, handlings, result>>

OpenDirFails ==
  /\ pc = "opening" /\ ~CanOpenDir(target)
  /\ Return(stack, "false")
  /\ UNCHANGED <<disk, descriptors, mode, target, handled, handlings>>

Handle(p) ==
  /\ handled' = handled \cup {p} /\ handlings' = handlings + 1
  /\ target' = p /\ pc' = "handling"

\* The frames once readdir has returned entry c.
Taken(c) == [stack EXCEPT ![Len(stack)].left = @ \ {c}]

\* Mutant: ez_walk_files does not go down.
EntryFlat(c) ==
  LET p == Append(Here, c)
  IN  /\ StatOK(p) /\ stack' = Taken(c)
      /\ \/ (mode = "directories" <=> IsDir(kind[c])) /\ Handle(p)
         \/ /\ ~(mode = "directories" <=> IsDir(kind[c]))
            /\ UNCHANGED <<pc, target, handled, handlings>>
      /\ UNCHANGED <<descriptors, result>>

\* An entry that stat finds.
Entry(c) ==
  LET p == Append(Here, c)
  IN  /\ StatOK(p) /\ stack' = Taken(c)
      /\ \/ (mode = "directories" <=> IsDir(kind[c])) /\ Handle(p)
         \/ /\ mode = "files" /\ IsDir(kind[c])
            /\ target' = p /\ pc' = "opening"
            /\ UNCHANGED <<handled, handlings>>
         \/ /\ mode = "directories" /\ ~IsDir(kind[c])
            /\ UNCHANGED <<pc, target, handled, handlings>>
      /\ UNCHANGED <<descriptors, result>>

\* Mutant: the loop goes on, without the next readdir.
StatFailsStays(c) ==
  /\ ~StatOK(Append(Here, c))
  /\ UNCHANGED <<descriptors, pc, stack, target, handled, handlings, result>>

\* An entry that it does not find: the walk returns at once, without closedir.
StatFails(c) ==
  /\ ~StatOK(Append(Here, c))
  /\ Return(Front(stack), "false")
  /\ UNCHANGED <<descriptors, target, handled, handlings>>

ReadEntry(c) ==
  /\ pc = "reading" /\ c \in Last(stack).left
  /\ Entry(c) \/ StatFails(c)
  /\ UNCHANGED <<disk, mode>>

\* readdir need not return what was removed after opendir.
SkipEntry(c) ==
  /\ pc = "reading" /\ c \in Last(stack).left /\ kind[c] = "gone"
  /\ stack' = Taken(c)
  /\ UNCHANGED <<disk, descriptors, pc, mode, target, handled, handlings, result>>

\* The handler returns; a walk over directories then goes down.
HandlerReturns ==
  /\ pc = "handling"
  /\ pc' = IF mode = "directories" THEN "opening" ELSE "reading"
  /\ UNCHANGED <<disk, descriptors, mode, stack, target, handled, handlings, result>>

\* closedir
EndOfDir ==
  /\ pc = "reading" /\ Last(stack).left = {}
  /\ descriptors' = descriptors - 1
  /\ Return(Front(stack), Last(stack).ret)
  /\ UNCHANGED <<disk, mode, target, handled, handlings>>

WalkStep ==
  \/ OpenDir \/ OpenDirFails \/ EndOfDir
  \/ \E c \in Nodes : ReadEntry(c) \/ SkipEntry(c)

=============================================================================
