---------------------------- MODULE EzFilesProofs ----------------------------
(***************************************************************************)
(* What EzFiles guarantees for any file system, any number of changes that *)
(* others make to it, and buffers, texts and integers of any size.         *)
(***************************************************************************)
EXTENDS EzFiles, EzLemmas

Frames == [dir : Nodes, left : SUBSET Nodes, ret : {"true", "false"}]

DiskTyped ==
  /\ world \in Worlds
  /\ kind \in [Nodes -> Kinds] /\ content \in [Nodes -> Seq(STRING)]
  /\ descriptors \in Int /\ changes \in Nat

\* What the walk is about to open, or has given to the handler, lies in the
\* directory that it reads.
Aims == \E c \in Nodes : target = Append(Here, c)

WalkTyped ==
  /\ pc \in {"idle", "opening", "reading", "handling"}
  /\ mode \in {"files", "directories"}
  /\ stack \in Seq(Frames)
  /\ pc = "idle" => stack = <<>>
  /\ pc \in {"reading", "handling"} => stack # <<>>
  /\ pc \in {"opening", "handling"} => Aims
  /\ result \in {"none", "true", "false"}

\* The handler runs only where it was called, and holds nothing before and
\* after it reads.
ReaderTyped ==
  /\ at \in {"idle", "measured", "loaded", "line", "overrun", "done"}
  /\ at # "idle" => pc = "handling" /\ mode = "files"
  /\ length \in Nat /\ data \in Seq(STRING) /\ piece \in Seq(STRING)
  /\ cursor \in Nat /\ line \in Nat /\ size \in Nat \ {0} /\ allocated \in Int
  /\ at \in {"idle", "done", "measured"} =>
       data = <<>> /\ piece = <<>> /\ cursor = 0 /\ line = 0
  /\ at \in {"idle", "done"} => length = 0
  /\ at \in {"measured", "loaded", "line", "overrun"} => path = target
  /\ at \in {"loaded", "line", "overrun"} => size \in Sizes /\ Len(data) = length

Typed == DiskTyped /\ WalkTyped /\ ReaderTyped

\* Nobody else touched the file system yet.
Untouched == changes = 0 => kind = world.kind /\ content = world.content

\* The file that is read is the one that was measured.
Loaded ==
  /\ at \in {"measured", "loaded", "line"} => type = FileType(Spelled(path))
  /\ changes = 0 /\ at = "measured" => length = Len(content[Last(path)])
  /\ changes = 0 /\ at \in {"loaded", "line"} => data = content[Last(path)]

\* In a file whose length an int can hold the cursor stays inside.
Inside == length < IntRange \div 2 => cursor <= length

\* Path p goes down from frame k of the stack through node c.
Through(p, k, c) ==
  /\ Len(p) > k /\ p[k + 1] = c
  /\ \A i \in 1 .. k : p[i] = stack[i].dir

\* Path p goes down from path q.
Below(p, q) == Len(p) > Len(q) /\ \A i \in 1 .. Len(q) : p[i] = q[i]

\* The calls of the handler were for different paths.
HandledOnce ==
  /\ handled \subseteq Seq(Nodes) /\ IsFiniteSet(handled)
  /\ handlings = Cardinality(handled)

\* Below an entry to come no path was handed out yet.
ComesOnce ==
  \A k \in 1 .. Len(stack) : \A c \in stack[k].left : \A p \in handled : ~Through(p, k, c)

\* A directory that was entered does not come again.
Entered == \A k \in 1 .. Len(stack) - 1 : stack[k + 1].dir \notin stack[k].left

\* Nor does what the walk is about to enter, below which nothing was handed out.
Ahead ==
  pc \in {"opening", "handling"} =>
    /\ \A p \in handled : ~Below(p, target)
    /\ stack # <<>> => Last(target) \notin Last(stack).left

NotYet == HandledOnce /\ ComesOnce /\ Entered /\ Ahead

\* A path of the world: it begins at the root, and every node holds the next.
Real(p) ==
  /\ p \in Seq(Nodes) /\ p # <<>> /\ p[1] = Root
  /\ \A i \in 1 .. Len(p) - 1 : p[i + 1] \in world.children[p[i]]

\* The walk is going to open a directory.
Descends == pc = "opening" \/ (pc = "handling" /\ mode = "directories")

\* Where the walk still is to come by: below an entry to come, or below what it
\* is about to open.
ToCome(p) ==
  \/ \E k \in 1 .. Len(stack) : \E c \in stack[k].left : Through(p, k, c)
  \/ Descends /\ Below(p, target)

\* What Tame says, and PathsOf, of the paths of the world.
Ordinary ==
  /\ world.kind[Root] = "dir"
  /\ \A n \in Nodes : world.kind[n] \in {"file", "dir"}
  /\ \A p : Real(p) => Len(p) <= MaxPath
  /\ MaxPath <= MaxOpen

\* What is to be handed out.
Want(p) ==
  Real(p) /\ Len(p) > 1 /\ (IsDir(world.kind[Last(p)]) <=> mode = "directories")

\* Every open directory has a frame.
NoneAstray == descriptors = Len(stack) + (IF at = "measured" THEN 1 ELSE 0)

\* Nothing failed, and no walk has returned.
NoneFailed ==
  /\ result # "false" /\ (result = "none" \/ pc = "idle")
  /\ \A k \in 1 .. Len(stack) : stack[k].ret = "true"

\* The walk keeps to the paths of the world.
OnPaths ==
  /\ \A k \in 1 .. Len(stack) : stack[k].left \subseteq world.children[stack[k].dir]
  /\ stack # <<>> => Real(Here)
  /\ pc \in {"opening", "handling"} => Real(target)
  /\ Descends => world.kind[Last(target)] = "dir"

\* What is to be handed out was, or comes yet.
NoneMissed ==
  pc # "idle" \/ result # "none" => \A p : Want(p) => p \in handled \/ ToCome(p)

\* What a walk with which nobody interferes keeps to in an ordinary tree.
Covers ==
  changes = 0 /\ Ordinary =>
    /\ NoneAstray /\ NoneFailed /\ OnPaths /\ NoneMissed
    /\ \A p \in handled : Want(p)

-----------------------------------------------------------------------------
\* The stack.

\* The directories of a stack of frames.
LEMMA Dirs ==
  ASSUME NEW s \in Seq(Frames)
  PROVE  /\ [i \in DOMAIN s |-> s[i].dir] \in Seq(Nodes)
         /\ Len([i \in DOMAIN s |-> s[i].dir]) = Len(s)
         /\ \A i \in 1 .. Len(s) : [j \in DOMAIN s |-> s[j].dir][i] = s[i].dir
<1>1. Len(s) \in Nat /\ DOMAIN s = 1 .. Len(s) /\ \A i \in 1 .. Len(s) : s[i].dir \in Nodes
  <2>1. Len(s) \in Nat /\ DOMAIN s = 1 .. Len(s) /\ \A i \in 1 .. Len(s) : s[i] \in Frames
    BY LenProperties
  <2>2. QED
    BY <2>1 DEF Frames
<1> DEFINE t == [i \in 1 .. Len(s) |-> s[i].dir]
<1>2. t \in [1 .. Len(s) -> Nodes]
  BY <1>1
<1>3. t \in Seq(Nodes) /\ Len(t) = Len(s)
  BY <1>1, <1>2
<1>4. [i \in DOMAIN s |-> s[i].dir] = t
  BY <1>1
<1>5. \A i \in 1 .. Len(s) : t[i] = s[i].dir
  OBVIOUS
<1>6. QED
  BY <1>3, <1>4, <1>5

\* The last frame, and those before it.
LEMMA TopFrame ==
  ASSUME NEW s \in Seq(Frames), s # <<>>
  PROVE  /\ Len(s) \in Nat \ {0} /\ Last(s) = s[Len(s)] /\ Last(s) \in Frames
         /\ Front(s) \in Seq(Frames) /\ Len(Front(s)) = Len(s) - 1
         /\ \A i \in 1 .. Len(s) - 1 : Front(s)[i] = s[i]
<1>1. Len(s) \in Nat \ {0} /\ \A i \in 1 .. Len(s) : s[i] \in Frames
  <2>1. \A i \in 1 .. Len(s) : s[i] \in Frames
    BY LenProperties
  <2>2. QED
    BY <2>1, EmptySeq
<1>2. Last(s) = s[Len(s)] /\ Last(s) \in Frames
  BY <1>1 DEF Last
<1> DEFINE n == Len(s) - 1
<1>3. n \in 0 .. Len(s) /\ 0 \in 0 .. Len(s) /\ 0 + 1 = 1 /\ n - 0 = n
  BY <1>1
<1> HIDE DEF n
<1>4. /\ SubSeq(s, 1, n) \in Seq(Frames)
      /\ Len(SubSeq(s, 1, n)) = n
      /\ \A i \in 1 .. n : SubSeq(s, 1, n)[i] = s[i]
  BY <1>3, Part
<1>5. QED
  BY <1>1, <1>2, <1>4 DEF Front, n

\* The last frame gets another `ret'.
LEMMA RetChanged ==
  ASSUME NEW s \in Seq(Frames), s # <<>>, NEW r \in {"true", "false"},
         NEW t, t = [s EXCEPT ![Len(s)].ret = r]
  PROVE  /\ t \in Seq(Frames) /\ t # <<>> /\ Len(t) = Len(s)
         /\ \A i \in 1 .. Len(s) : /\ t[i].dir = s[i].dir /\ t[i].left = s[i].left
                                   /\ t[i].ret = IF i = Len(s) THEN r ELSE s[i].ret
<1>1. Len(s) \in Nat \ {0} /\ DOMAIN s = 1 .. Len(s) /\ \A i \in 1 .. Len(s) : s[i] \in Frames
  BY EmptySeq, LenProperties
<1> DEFINE f == [s[Len(s)] EXCEPT !.ret = r]
<1>2. s[Len(s)] \in Frames /\ Len(s) \in 1 .. Len(s)
  BY <1>1
<1>3. f \in Frames /\ f.dir = s[Len(s)].dir /\ f.left = s[Len(s)].left /\ f.ret = r
  BY <1>2 DEF Frames
<1>4. t = [s EXCEPT ![Len(s)] = f]
  OBVIOUS
<1> HIDE DEF f
<1>5. /\ t \in Seq(Frames) /\ Len(t) = Len(s)
      /\ \A i \in 1 .. Len(s) : t[i] = IF i = Len(s) THEN f ELSE s[i]
  BY <1>2, <1>3, <1>4, ExceptSeq
<1>6. t # <<>>
  BY <1>1, <1>5, EmptySeq
<1>7. QED
  BY <1>3, <1>5, <1>6

\* Stack t is s, whose last frame has the entries l to come.
WithLeft(t, s, l) == t = [s EXCEPT ![Len(s)].left = l]

\* The last frame has other entries to come.
LEMMA LeftChanged ==
  ASSUME NEW s \in Seq(Frames), s # <<>>, NEW l \in SUBSET Nodes,
         NEW t, WithLeft(t, s, l)
  PROVE  /\ t \in Seq(Frames) /\ t # <<>> /\ Len(t) = Len(s)
         /\ \A i \in 1 .. Len(s) : /\ t[i].dir = s[i].dir /\ t[i].ret = s[i].ret
                                   /\ t[i].left = IF i = Len(s) THEN l ELSE s[i].left
<1>1. Len(s) \in Nat \ {0} /\ DOMAIN s = 1 .. Len(s) /\ \A i \in 1 .. Len(s) : s[i] \in Frames
  BY EmptySeq, LenProperties
<1> DEFINE f == [s[Len(s)] EXCEPT !.left = l]
<1>2. s[Len(s)] \in Frames /\ Len(s) \in 1 .. Len(s)
  BY <1>1
<1>3. f \in Frames /\ f.dir = s[Len(s)].dir /\ f.ret = s[Len(s)].ret /\ f.left = l
  BY <1>2 DEF Frames
<1>4. t = [s EXCEPT ![Len(s)] = f]
  BY DEF WithLeft
<1> HIDE DEF f
<1>5. /\ t \in Seq(Frames) /\ Len(t) = Len(s)
      /\ \A i \in 1 .. Len(s) : t[i] = IF i = Len(s) THEN f ELSE s[i]
  BY <1>2, <1>3, <1>4, ExceptSeq
<1>6. t # <<>>
  BY <1>1, <1>5, EmptySeq
<1>7. QED
  BY <1>3, <1>5, <1>6

\* Stacks of the same directories.
LEMMA SameDirs ==
  ASSUME NEW s \in Seq(Frames), NEW t \in Seq(Frames), Len(s) = Len(t),
         \A i \in 1 .. Len(s) : s[i].dir = t[i].dir
  PROVE  [i \in DOMAIN s |-> s[i].dir] = [i \in DOMAIN t |-> t[i].dir]
<1>1. DOMAIN s = 1 .. Len(s) /\ DOMAIN t = 1 .. Len(t)
  BY LenProperties
<1>2. QED
  BY <1>1

\* What a return leaves on the stack.
LEMMA Returned ==
  ASSUME NEW frames \in Seq(Frames), NEW ret \in {"true", "false"}, Return(frames, ret)
  PROVE  /\ stack' \in Seq(Frames) /\ Len(stack') = Len(frames)
         /\ \A i \in 1 .. Len(frames) : /\ stack'[i].dir = frames[i].dir
                                        /\ stack'[i].left = frames[i].left
                                        /\ stack'[i].ret = IF i = Len(frames) THEN ret
                                                           ELSE frames[i].ret
         /\ pc' = IF stack' = <<>> THEN "idle" ELSE "reading"
         /\ result' = IF stack' = <<>> THEN ret ELSE result
<1>1. CASE frames = <<>>
  <2>1. stack' = <<>> /\ pc' = "idle" /\ result' = ret
    BY <1>1 DEF Return
  <2>2. Len(frames) = 0
    BY <1>1, EmptySeq
  <2>3. QED
    BY <1>1, <2>1, <2>2
<1>2. CASE frames # <<>>
  <2>1. /\ pc' = "reading" /\ result' = result
        /\ stack' = [frames EXCEPT ![Len(frames)].ret = ret]
    BY <1>2 DEF Return
  <2>2. QED
    BY <1>2, <2>1, RetChanged
<1>3. QED
  BY <1>1, <1>2

\* Reading an entry takes it off those to come.
LEMMA EntryTaken ==
  ASSUME WalkTyped, stack # <<>>, NEW c, stack' = Taken(c)
  PROVE  /\ stack' \in Seq(Frames) /\ stack' # <<>> /\ Len(stack') = Len(stack)
         /\ \A i \in 1 .. Len(stack) :
              /\ stack'[i].dir = stack[i].dir /\ stack'[i].ret = stack[i].ret
              /\ stack'[i].left = IF i = Len(stack) THEN stack[i].left \ {c} ELSE stack[i].left
         /\ Here' = Here
<1>1. stack \in Seq(Frames) /\ stack[Len(stack)].left \ {c} \in SUBSET Nodes
  <2>1. stack \in Seq(Frames) /\ Last(stack) \in Frames /\ Last(stack) = stack[Len(stack)]
    BY TopFrame DEF WalkTyped
  <2>2. QED
    BY <2>1 DEF Frames
<1> DEFINE l == stack[Len(stack)].left \ {c}
<1>2. l \in SUBSET Nodes
  BY <1>1
<1>3. WithLeft(stack', stack, l)
  BY DEF Taken, WithLeft
<1> HIDE DEF l
<1>4. /\ stack' \in Seq(Frames) /\ stack' # <<>> /\ Len(stack') = Len(stack)
      /\ \A i \in 1 .. Len(stack) :
           /\ stack'[i].dir = stack[i].dir /\ stack'[i].ret = stack[i].ret
           /\ stack'[i].left = IF i = Len(stack) THEN l ELSE stack[i].left
  BY <1>1, <1>2, <1>3, LeftChanged
<1>5. Here' = Here
  <2>1. \A i \in 1 .. Len(stack) : stack[i].dir = stack'[i].dir
    BY <1>4
  <2>2. [i \in DOMAIN stack |-> stack[i].dir] = [i \in DOMAIN stack' |-> stack'[i].dir]
    BY <1>1, <1>4, <2>1, SameDirs
  <2>3. QED
    BY <2>2 DEF Here
<1>6. QED
  BY <1>4, <1>5 DEF l

\* The directories of the walk's own stack.
LEMMA HereFacts ==
  ASSUME WalkTyped
  PROVE  /\ Here \in Seq(Nodes) /\ Len(Here) = Len(stack) /\ Len(stack) \in Nat
         /\ \A i \in 1 .. Len(stack) : Here[i] = stack[i].dir
<1>1. stack \in Seq(Frames) /\ Len(stack) \in Nat
  BY LenProperties DEF WalkTyped
<1>2. QED
  BY <1>1, Dirs DEF Here

\* What the walk opens or hands out.
LEMMA TargetNode ==
  ASSUME WalkTyped, pc \in {"opening", "handling"}
  PROVE  /\ target \in Seq(Nodes) /\ Last(target) \in Nodes /\ Len(target) = Len(stack) + 1
         /\ target[Len(stack) + 1] = Last(target)
         /\ \A i \in 1 .. Len(stack) : target[i] = stack[i].dir
<1>1. PICK c \in Nodes : target = Append(Here, c)
  BY DEF WalkTyped, Aims
<1>2. /\ Here \in Seq(Nodes) /\ Len(Here) = Len(stack)
      /\ \A i \in 1 .. Len(stack) : Here[i] = stack[i].dir
  BY HereFacts
<1>3. /\ target \in Seq(Nodes) /\ Len(target) = Len(stack) + 1
      /\ \A i \in 1 .. Len(stack) : target[i] = Here[i]
      /\ target[Len(stack) + 1] = c
  BY <1>1, <1>2, AppendProperties
<1>4. Last(target) = c
  BY <1>3 DEF Last
<1>5. QED
  BY <1>2, <1>3, <1>4

-----------------------------------------------------------------------------
\* Types.

\* The types hold at the beginning.
LEMMA TypedInit == Init => Typed
<1> SUFFICES ASSUME Init PROVE Typed
  OBVIOUS
<1> USE FileSystemAssumption
<1>1. DiskTyped
  <2>1. world \in Worlds /\ kind = world.kind /\ content = world.content
    BY DEF Init, DiskInit
  <2>2. descriptors = 0 /\ changes = 0
    BY DEF Init, DiskInit
  <2>3. QED
    BY <2>1, <2>2 DEF DiskTyped
<1>2. WalkTyped
  <2>1. stack = <<>> /\ stack \in Seq(Frames)
    BY EmptySeq DEF Init, WalkInit
  <2>2. QED
    BY <2>1 DEF Init, WalkInit, WalkTyped
<1>3. ReaderTyped
  <2>1. <<>> \in Seq(STRING)
    BY EmptySeq
  <2>2. QED
    BY <2>1 DEF Init, ReaderInit, ReaderTyped
<1>4. QED
  BY <1>1, <1>2, <1>3 DEF Typed

\* What the steps of the walk do to the disk and to the reader.
LEMMA TypedDisk ==
  ASSUME Typed, [Next]_vars
  PROVE  DiskTyped'
<1> USE DEF Typed, DiskTyped
<1>1. ASSUME NEW n \in Nodes, Vanish(n)
      PROVE  DiskTyped'
  <2>1. "gone" \in Kinds
    BY DEF Kinds
  <2>2. QED
    BY <1>1, <2>1 DEF Vanish
<1>2. ASSUME NEW n \in Nodes, Rewrite(n)
      PROVE  DiskTyped'
  <2>1. PICK t \in Seq(STRING) : content' = [content EXCEPT ![n] = t]
    <3>1. content[n] \in Seq(STRING) /\ Extra \in STRING
      BY FileSystemAssumption
    <3>2. Append(content[n], Extra) \in Seq(STRING)
      BY <3>1, AppendProperties
    <3>3. content[n] # <<>> => Front(content[n]) \in Seq(STRING)
      <4>1. SUFFICES ASSUME content[n] # <<>> PROVE Front(content[n]) \in Seq(STRING)
        OBVIOUS
      <4>2. /\ Len(content[n]) - 1 \in 0 .. Len(content[n]) /\ 0 \in 0 .. Len(content[n])
            /\ 0 + 1 = 1
        BY <3>1, <4>1, EmptySeq
      <4>3. QED
        BY <3>1, <4>2, Part DEF Front
    <3>4. QED
      BY <1>2, <3>2, <3>3 DEF Rewrite
  <2>2. content' \in [Nodes -> Seq(STRING)]
    BY <2>1
  <2>3. QED
    BY <1>2, <2>2 DEF Rewrite
<1>3. descriptors' \in {descriptors, descriptors + 1, descriptors - 1} /\ UNCHANGED disk => DiskTyped'
  BY DEF disk
<1>4. CASE UNCHANGED vars
  BY <1>3, <1>4 DEF vars
<1>5. CASE WalkStep \/ \E m \in {"files", "directories"} : StartWalk(m)
  <2>1. descriptors' \in {descriptors, descriptors + 1, descriptors - 1} /\ UNCHANGED disk
    BY <1>5 DEF WalkStep, StartWalk, OpenDir, OpenDirFails, EndOfDir, ReadEntry, SkipEntry,
                Entry, StatFails
  <2>2. QED
    BY <1>3, <2>1
<1>6. CASE HandlerRuns \/ HandlerEnds
  <2>1. descriptors' \in {descriptors, descriptors + 1, descriptors - 1} /\ UNCHANGED disk
    BY <1>6 DEF HandlerRuns, ReaderNext, LoadFails, Measure, Read, NextLine, Parse, FreeFile,
                HandlerEnds, HandlerReturns
  <2>2. QED
    BY <1>3, <2>1
<1>7. CASE Others
  BY <1>1, <1>2, <1>7 DEF Others
<1>8. QED
  BY <1>4, <1>5, <1>6, <1>7 DEF Next, Running

\* What the steps do to the walk.
LEMMA TypedWalk ==
  ASSUME Typed, [Next]_vars
  PROVE  WalkTyped'
<1>0. WalkTyped /\ DiskTyped
  BY DEF Typed
<1>1. CASE UNCHANGED walk
  BY <1>0, <1>1 DEF WalkTyped, walk, Aims, Here
<1>2. ASSUME NEW m \in {"files", "directories"}, StartWalk(m)
      PROVE  WalkTyped'
  <2>1. stack' = <<>> /\ stack' \in Seq(Frames)
    BY <1>0, <1>2, EmptySeq DEF StartWalk, WalkTyped
  <2>2. Here' = <<>>
    BY <2>1 DEF Here
  <2>3. Aims'
    <3>1. target' = Append(<<>>, Root)
      BY <1>2 DEF StartWalk
    <3>2. QED
      BY <2>2, <3>1, FileSystemAssumption DEF Aims
  <2>4. QED
    BY <1>2, <2>1, <2>3 DEF StartWalk, WalkTyped
<1>3. ASSUME NEW frames \in Seq(Frames), NEW ret \in {"true", "false"}, Return(frames, ret),
             UNCHANGED mode
      PROVE  WalkTyped'
  <2>1. /\ stack' \in Seq(Frames) /\ pc' = IF stack' = <<>> THEN "idle" ELSE "reading"
        /\ result' = IF stack' = <<>> THEN ret ELSE result
    BY <1>3, Returned
  <2>2. QED
    BY <1>0, <1>3, <2>1 DEF WalkTyped
<1>4. CASE OpenDirFails
  <2>1. stack \in Seq(Frames) /\ Return(stack, "false") /\ UNCHANGED mode
    BY <1>0, <1>4 DEF OpenDirFails, WalkTyped
  <2>2. QED
    BY <1>3, <2>1
<1>5. CASE EndOfDir
  <2>1. Last(stack) \in Frames /\ Front(stack) \in Seq(Frames)
    BY <1>0, <1>5, TopFrame DEF EndOfDir, WalkTyped
  <2>2. Last(stack).ret \in {"true", "false"} /\ Return(Front(stack), Last(stack).ret)
        /\ UNCHANGED mode
    BY <1>5, <2>1 DEF EndOfDir, Frames
  <2>3. QED
    BY <1>3, <2>1, <2>2
<1>6. CASE OpenDir
  <2>1. pc = "opening" /\ \E c \in Nodes : target = Append(Here, c)
    BY <1>0, <1>6 DEF OpenDir, WalkTyped, Aims
  <2>2. Last(target) \in Nodes
    <3>1. PICK c \in Nodes : target = Append(Here, c)
      BY <2>1
    <3>2. Here \in Seq(Nodes)
      BY <1>0, HereFacts
    <3>3. QED
      BY <3>1, <3>2, AppendProperties DEF Last
  <2>3. Frame(Last(target)) \in Frames
    <3>1. world.children[Last(target)] \in SUBSET Nodes
      BY <1>0, <2>2, FileSystemAssumption DEF DiskTyped
    <3>2. QED
      BY <2>2, <3>1 DEF Frame, Frames
  <2>4. stack' \in Seq(Frames) /\ stack' # <<>>
    BY <1>0, <1>6, <2>3, AppendProperties DEF OpenDir, WalkTyped
  <2>5. QED
    BY <1>0, <1>6, <2>4 DEF OpenDir, WalkTyped
<1>7. ASSUME NEW c \in Nodes, SkipEntry(c)
      PROVE  WalkTyped'
  <2>1. stack # <<>> /\ stack' = Taken(c) /\ pc = "reading"
    BY <1>0, <1>7 DEF SkipEntry, WalkTyped
  <2>2. stack' \in Seq(Frames) /\ stack' # <<>>
    BY <1>0, <2>1, EntryTaken
  <2>3. QED
    BY <1>0, <1>7, <2>1, <2>2 DEF SkipEntry, WalkTyped
<1>8. ASSUME NEW c \in Nodes, pc = "reading", StatFails(c), UNCHANGED mode
      PROVE  WalkTyped'
  <2>1. Front(stack) \in Seq(Frames) /\ Return(Front(stack), "false")
    BY <1>0, <1>8, TopFrame DEF StatFails, WalkTyped
  <2>2. QED
    BY <1>3, <1>8, <2>1
<1>9. ASSUME NEW c \in Nodes, pc = "reading", Entry(c), UNCHANGED mode
      PROVE  WalkTyped'
  <2>1. stack # <<>> /\ stack' = Taken(c) /\ UNCHANGED result
    BY <1>0, <1>9 DEF Entry, WalkTyped
  <2>2. stack' \in Seq(Frames) /\ stack' # <<>> /\ Here' = Here
    BY <1>0, <2>1, EntryTaken
  <2>3. \/ pc' \in {"handling", "opening"} /\ target' = Append(Here, c)
        \/ pc' = pc
    BY <1>9, Zenon DEF Entry, Handle
  <2>4. pc' \in {"opening", "handling"} => Aims'
    <3>1. CASE pc' = pc
      BY <1>9, <3>1
    <3>2. CASE target' = Append(Here, c)
      BY <2>2, <3>2 DEF Aims
    <3>3. QED
      BY <2>3, <3>1, <3>2
  <2>5. pc' \in {"opening", "reading", "handling"}
    BY <1>9, <2>3
  <2>6. QED
    BY <1>0, <1>9, <2>1, <2>2, <2>4, <2>5 DEF WalkTyped
<1>10. CASE HandlerEnds
  <2>1. /\ pc = "handling" /\ pc' \in {"opening", "reading"}
        /\ UNCHANGED <<mode, stack, target, result>>
    BY <1>10 DEF HandlerEnds, HandlerReturns
  <2>2. Aims => Aims'
    BY <2>1 DEF Aims, Here
  <2>3. QED
    BY <1>0, <2>1, <2>2 DEF WalkTyped
<1>11. CASE HandlerRuns \/ Others \/ UNCHANGED vars
  BY <1>1, <1>11 DEF HandlerRuns, Others, vars
<1>12. CASE WalkStep
  BY <1>4, <1>5, <1>6, <1>7, <1>8, <1>9, <1>12 DEF WalkStep, ReadEntry
<1>13. QED
  BY <1>2, <1>10, <1>11, <1>12 DEF Next, Running

\* The least element of some naturals is one of them.
LEMMA MinOf ==
  ASSUME NEW S \in SUBSET Nat, S # {}
  PROVE  Min(S) \in S /\ \A n \in S : Min(S) <= n
<1>1. \E m \in S : \A n \in S : m <= n
  BY LeastNatural
<1>2. QED
  BY <1>1 DEF Min

\* The greatest element of bounded naturals is one of them.
LEMMA MaxOf ==
  ASSUME NEW m \in Nat, NEW S \in SUBSET (0 .. m), S # {}
  PROVE  Max(S) \in S /\ \A n \in S : Max(S) >= n
<1> DEFINE D == {m - n : n \in S}
<1>1. D \in SUBSET Nat /\ D # {}
  <2>1. \A n \in S : m - n \in Nat
    OBVIOUS
  <2>2. QED
    BY <2>1
<1>2. PICK d \in D : \A c \in D : d <= c
  <2> HIDE DEF D
  <2> QED
    BY <1>1, LeastNatural
<1>3. PICK x \in S : d = m - x
  BY <1>2
<1>4. ASSUME NEW n \in S PROVE x >= n
  <2>1. m - x <= m - n
    BY <1>2, <1>3
  <2>2. QED
    BY <2>1
<1>5. QED
  BY <1>4 DEF Max

\* What (int)i is.
LEMMA IntOf ==
  ASSUME NEW i \in Nat
  PROVE  ToInt(i) \in Int /\ (i < IntRange \div 2 => ToInt(i) = i)
<1>1. IntRange \in Nat \ {0}
  BY ReaderAssumption
<1>2. i % IntRange \in 0 .. IntRange - 1 /\ (i < IntRange \div 2 => i % IntRange = i)
  <2>1. PICK R \in Nat \ {0} : R = IntRange
    BY <1>1
  <2>2. i % R \in 0 .. R - 1
    OBVIOUS
  <2>3. i < R => i % R = i
    OBVIOUS
  <2>4. R \div 2 <= R
    OBVIOUS
  <2>5. R \div 2 \in Int
    OBVIOUS
  <2>6. i < R \div 2 => i < R
    BY <2>4, <2>5
  <2>7. QED
    BY <2>1, <2>2, <2>3, <2>6
<1>3. PICK low \in Int : low = i % IntRange
  BY <1>2
<1>4. ToInt(i) = IF low < IntRange \div 2 THEN low ELSE low - IntRange
  BY <1>3 DEF ToInt
<1>5. QED
  BY <1>1, <1>2, <1>3, <1>4

\* The line end that ez_next_line finds.
LEMMA LineEndFacts ==
  ASSUME ReaderTyped
  PROVE  LineEnd \in Int
<1> DEFINE ends == {i \in cursor .. length - 1 : data[i + 1] = NewLine}
<1>1. ends \in SUBSET Nat
  BY DEF ReaderTyped
<1>2. LineEnd = IF ends = {} THEN -1 ELSE ToInt(Min(ends))
  BY DEF LineEnd
<1> HIDE DEF ends
<1>3. ends # {} => Min(ends) \in Nat
  BY <1>1, MinOf
<1>4. ends # {} => ToInt(Min(ends)) \in Int
  BY <1>3, IntOf
<1>5. QED
  BY <1>2, <1>4

\* Where the next line begins.
LEMMA NextStartFacts ==
  ASSUME NEW last \in Nat, NEW place \in NextStart(last)
  PROVE  place \in Nat /\ (last + 1 < IntRange \div 2 => place = last + 1)
<1>1. CASE last = IntRange \div 2 - 1
  <2>1. PICK i \in Int : i = ToInt(last + 1)
    BY IntOf
  <2>2. WordSize \in Nat \ {0} /\ IntRange \div 2 \in Int
    BY ReaderAssumption
  <2>3. i % WordSize \in 0 .. WordSize - 1
    BY <2>2, RemainderIs
  <2>4. place \in {last + 1, i % WordSize}
    BY <1>1, <2>1 DEF NextStart
  <2>5. ~(last + 1 < IntRange \div 2)
    BY <1>1, <2>2
  <2>6. QED
    BY <2>2, <2>3, <2>4, <2>5
<1>2. CASE last # IntRange \div 2 - 1
  BY <1>2 DEF NextStart
<1>3. QED
  BY <1>1, <1>2

\* What is copied to the handler's buffer.
LEMMA Copied ==
  ASSUME ReaderTyped, at = "loaded", NEW n \in Int, Copy(n)
  PROVE  /\ piece' \in Seq(STRING) /\ at' \in {"line", "overrun"}
         /\ at' = "line" => n <= size /\ cursor + n <= length
<1>1. data \in Seq(STRING) /\ Len(data) = length /\ length \in Nat /\ cursor \in Nat
  BY DEF ReaderTyped
<1>2. CASE n <= size /\ cursor + n <= length
  <2>1. piece' = SubSeq(data, cursor + 1, cursor + n) /\ at' = "line"
    BY <1>2 DEF Copy
  <2>2. ASSUME NEW i \in cursor + 1 .. cursor + n PROVE data[i] \in STRING
    <3>1. i \in 1 .. Len(data)
      BY <1>1, <1>2
    <3>2. QED
      BY <1>1, <3>1, ElementOfSeq
  <2>3. SubSeq(data, cursor + 1, cursor + n) \in Seq(STRING)
    <3>1. cursor + 1 \in Int /\ cursor + n \in Int
      BY <1>1
    <3>2. QED
      BY <2>2, <3>1, SubSeqProperties
  <2>4. QED
    BY <1>2, <2>1, <2>3
<1>3. CASE ~(n <= size /\ cursor + n <= length)
  <2>1. piece' = <<>> /\ at' = "overrun"
    BY <1>3 DEF Copy
  <2>2. QED
    BY <2>1, EmptySeq
<1>4. QED
  BY <1>2, <1>3

\* What the steps do to the reader.
LEMMA TypedReader ==
  ASSUME Typed, [Next]_vars
  PROVE  ReaderTyped'
<1>0. WalkTyped /\ DiskTyped /\ ReaderTyped
  BY DEF Typed
<1>1. ASSUME UNCHANGED reader, at = "idle"
      PROVE  ReaderTyped'
  BY <1>0, <1>1 DEF ReaderTyped, reader
<1>2. ASSUME UNCHANGED reader, UNCHANGED walk
      PROVE  ReaderTyped'
  BY <1>0, <1>2 DEF ReaderTyped, reader, walk
<1>3. ASSUME NEW m \in {"files", "directories"}, StartWalk(m)
      PROVE  at = "idle"
  BY <1>0, <1>3 DEF StartWalk, ReaderTyped
<1>4. ASSUME WalkStep
      PROVE  at = "idle"
  <2>1. pc \in {"opening", "reading"}
    BY <1>4 DEF WalkStep, OpenDir, OpenDirFails, EndOfDir, ReadEntry, SkipEntry
  <2>2. QED
    BY <1>0, <2>1 DEF ReaderTyped
<1>5. CASE HandlerEnds
  BY <1>0, <1>5 DEF HandlerEnds, HandlerReturns, ReaderTyped
<1>6. ASSUME Fresh("done"), allocated' \in Int, pc' = "handling" /\ mode' = "files"
      PROVE  ReaderTyped'
  <2>1. <<>> \in Seq(STRING)
    BY EmptySeq
  <2>2. QED
    BY <1>6, <2>1 DEF Fresh, ReaderTyped
<1>7. CASE HandlerRuns
  <2>1. pc = "handling" /\ mode = "files" /\ pc' = "handling" /\ mode' = "files" /\ target' = target
    BY <1>7 DEF HandlerRuns, walk
  <2>2. allocated \in Int /\ length \in Nat /\ Header \in Nat
    BY <1>0, HeaderAssumption DEF ReaderTyped
  <2>3. BothFreed \in Int
    BY <2>2 DEF BothFreed, Freed, Block
  <2>4. CASE LoadFails(target)
    <3>1. Fresh("done") /\ allocated' = allocated
      BY <2>4 DEF LoadFails
    <3>2. QED
      BY <1>6, <2>1, <2>2, <3>1
  <2>5. CASE FreeFile
    <3>1. Fresh("done") /\ allocated' = BothFreed
      BY <2>5 DEF FreeFile
    <3>2. QED
      BY <1>6, <2>1, <2>3, <3>1
  <2>6. CASE Measure(target)
    <3>1. /\ at = "idle" /\ at' = "measured" /\ path' = target
          /\ length' = Len(content[Last(target)])
          /\ allocated' = Allocated(Allocated(allocated, 1), length')
          /\ UNCHANGED <<data, cursor, line, size, piece>>
      BY <2>6 DEF Measure
    <3>2. length' \in Nat
      <4>1. Last(target) \in Nodes
        BY <1>0, <2>1, TargetNode
      <4>2. content[Last(target)] \in Seq(STRING)
        BY <1>0, <4>1 DEF DiskTyped
      <4>3. QED
        BY <3>1, <4>2, LenProperties
    <3>3. allocated' \in Int
      BY <2>2, <3>1, <3>2 DEF Allocated, Block
    <3>4. QED
      BY <1>0, <2>1, <3>1, <3>2, <3>3 DEF ReaderTyped
  <2>7. CASE Read
    <3>1. CASE Len(content[Last(path)]) < length
      <4>1. Fresh("done") /\ allocated' = BothFreed
        BY <2>7, <3>1 DEF Read
      <4>2. QED
        BY <1>6, <2>1, <2>3, <4>1
    <3>2. CASE ~(Len(content[Last(path)]) < length)
      <4>1. /\ at = "measured" /\ data' = SubSeq(content[Last(path)], 1, length)
            /\ at' = "loaded" /\ size' \in Sizes
            /\ UNCHANGED <<path, length, cursor, line, piece, allocated>>
        BY <2>7, <3>2 DEF Read
      <4>2. data' \in Seq(STRING) /\ Len(data') = length
        <5>1. Last(path) \in Nodes
          BY <1>0, <2>1, <4>1, TargetNode DEF ReaderTyped
        <5>2. PICK text \in Seq(STRING) : text = content[Last(path)]
          BY <1>0, <5>1 DEF DiskTyped
        <5>3. /\ Len(text) \in Nat /\ length \in 0 .. Len(text) /\ 0 \in 0 .. Len(text)
              /\ 0 + 1 = 1
          BY <2>2, <3>2, <5>2, LenProperties
        <5>4. /\ SubSeq(text, 1, length) \in Seq(STRING)
              /\ Len(SubSeq(text, 1, length)) = IF 0 < length THEN length - 0 ELSE 0
          BY <5>3, Part
        <5>5. QED
          BY <2>2, <4>1, <5>2, <5>4
      <4>3. Sizes \subseteq Nat \ {0}
        BY ReaderAssumption
      <4>4. QED
        BY <1>0, <2>1, <4>1, <4>2, <4>3 DEF ReaderTyped
    <3>3. QED
      BY <3>1, <3>2
  <2>8. CASE Parse
    <3>1. /\ at = "line" /\ at' = "loaded"
          /\ UNCHANGED <<path, length, data, cursor, line, size, piece, allocated>>
      BY <2>8 DEF Parse
    <3>2. QED
      BY <1>0, <2>1, <3>1 DEF ReaderTyped
  <2>9. CASE NextLine
    <3>1. /\ at = "loaded" /\ cursor < length /\ Advance /\ line' = line + 1
          /\ UNCHANGED <<path, length, data, size, allocated>>
      BY <2>9 DEF NextLine
    <3>2. piece' \in Seq(STRING) /\ at' \in {"line", "overrun"} /\ cursor' \in Nat
      <4>1. /\ cursor \in Nat /\ size \in Nat \ {0} /\ LineEnd \in Int
            /\ (LineEnd - cursor) % WordSize \in Int
        <5>1. cursor \in Nat /\ size \in Nat \ {0} /\ LineEnd \in Int
          BY <1>0, LineEndFacts DEF ReaderTyped
        <5>2. WordSize \in Nat \ {0}
          BY ReaderAssumption
        <5>3. LineEnd - cursor \in Int
          BY <5>1
        <5>4. (LineEnd - cursor) % WordSize \in 0 .. WordSize - 1
          BY <5>2, <5>3, RemainderIs
        <5>5. QED
          BY <5>1, <5>4
      <4>2. PICK n \in Int : Copy(n)
        BY <2>2, <3>1, <4>1 DEF Advance
      <4>3. piece' \in Seq(STRING) /\ at' \in {"line", "overrun"}
        BY <1>0, <3>1, <4>2, Copied
      <4>4. cursor' \in {length, cursor + size} \/ (LineEnd >= 0 /\ cursor' \in NextStart(LineEnd))
        BY <3>1 DEF Advance
      <4>5. LineEnd >= 0 /\ cursor' \in NextStart(LineEnd) => cursor' \in Nat
        <5>1. LineEnd >= 0 => LineEnd \in Nat
          BY <4>1
        <5>2. QED
          BY <5>1, NextStartFacts
      <4>6. QED
        BY <2>2, <4>1, <4>3, <4>4, <4>5
    <3>3. QED
      BY <1>0, <2>1, <3>1, <3>2 DEF ReaderTyped
  <2>10. QED
    BY <1>7, <2>4, <2>5, <2>6, <2>7, <2>8, <2>9 DEF HandlerRuns, ReaderNext
<1>8. QED
  BY <1>1, <1>2, <1>3, <1>4, <1>5, <1>7 DEF Next, Running, Others, vars

\* The stack is empty between the walks, and the handler holds nothing before
\* and after it reads.
LEMMA TypesHold == Spec => []Typed
<1>1. Init => Typed
  BY TypedInit
<1>2. Typed /\ [Next]_vars => Typed'
  BY TypedDisk, TypedReader, TypedWalk, Zenon DEF Typed
<1>3. QED
  BY <1>1, <1>2, PTL DEF Spec

-----------------------------------------------------------------------------
\* Descriptors and bytes.

\* One step of the walk or of the handler, with what it leaves alone: what the
\* proofs about all steps go through.
LEMMA StepCases ==
  ASSUME Typed, Next
  PROVE  \/ \E m \in {"files", "directories"} : StartWalk(m) /\ UNCHANGED reader
         \/ OpenDir /\ UNCHANGED reader
         \/ OpenDirFails /\ UNCHANGED reader
         \/ EndOfDir /\ UNCHANGED reader
         \/ \E c \in Nodes : SkipEntry(c) /\ UNCHANGED reader
         \/ \E c \in Nodes : /\ pc = "reading" /\ c \in Last(stack).left /\ Entry(c)
                             /\ UNCHANGED disk /\ UNCHANGED mode /\ UNCHANGED reader
         \/ \E c \in Nodes : /\ pc = "reading" /\ c \in Last(stack).left /\ StatFails(c)
                             /\ UNCHANGED disk /\ UNCHANGED mode /\ UNCHANGED reader
         \/ HandlerRuns
         \/ HandlerEnds
         \/ Others
BY Zenon DEF Next, Running, WalkStep, ReadEntry

\* The property of one step.
LEMMA LeakStep ==
  ASSUME Typed, Next
  PROVE  /\ Unheld' = Unheld
         /\ Strays' # Strays => \E c \in Nodes : StatFails(c)
<1>0. /\ WalkTyped /\ DiskTyped /\ ReaderTyped
      /\ stack \in Seq(Frames) /\ Len(stack) \in Nat /\ descriptors \in Int
      /\ allocated \in Int /\ length \in Nat /\ Header \in Nat
  BY LenProperties, HeaderAssumption DEF Typed, WalkTyped, DiskTyped, ReaderTyped
<1>1. ASSUME UNCHANGED reader, UNCHANGED <<descriptors, stack>>
      PROVE  Unheld' = Unheld /\ Strays' = Strays
  BY <1>1 DEF Unheld, Strays, reader
<1>2. ASSUME UNCHANGED reader
      PROVE  Unheld' = Unheld
  BY <1>2 DEF Unheld, reader
<1>3. ASSUME UNCHANGED reader, stack' \in Seq(Frames),
             descriptors' - Len(stack') = descriptors - Len(stack)
      PROVE  Strays' = Strays
  <2>1. Len(stack') \in Nat /\ at' = at
    BY <1>3, LenProperties DEF reader
  <2>2. QED
    BY <1>3, <2>1 DEF Strays
<1>4. CASE \E m \in {"files", "directories"} : StartWalk(m) /\ UNCHANGED reader
  BY <1>1, <1>4 DEF StartWalk
<1>5. CASE OpenDir /\ UNCHANGED reader
  <2>1. Last(target) \in Nodes /\ world.children[Last(target)] \in SUBSET Nodes
    BY <1>0, <1>5, TargetNode, FileSystemAssumption DEF OpenDir, DiskTyped
  <2>2. Frame(Last(target)) \in Frames
    BY <2>1 DEF Frame, Frames
  <2>3. stack' \in Seq(Frames) /\ Len(stack') = Len(stack) + 1
    BY <1>0, <1>5, <2>2, AppendProperties DEF OpenDir
  <2>4. descriptors' - Len(stack') = descriptors - Len(stack)
    BY <1>0, <1>5, <2>3 DEF OpenDir
  <2>5. QED
    BY <1>2, <1>3, <1>5, <2>3, <2>4
<1>6. CASE OpenDirFails /\ UNCHANGED reader
  <2>1. Return(stack, "false") /\ descriptors' = descriptors
    BY <1>6 DEF OpenDirFails
  <2>2. stack' \in Seq(Frames) /\ Len(stack') = Len(stack)
    BY <1>0, <2>1, Returned
  <2>3. QED
    BY <1>2, <1>3, <1>6, <2>1, <2>2
<1>7. CASE EndOfDir /\ UNCHANGED reader
  <2>1. /\ Last(stack) \in Frames /\ Front(stack) \in Seq(Frames)
        /\ Len(Front(stack)) = Len(stack) - 1
    BY <1>0, <1>7, TopFrame DEF EndOfDir, WalkTyped
  <2>2. /\ Last(stack).ret \in {"true", "false"} /\ Return(Front(stack), Last(stack).ret)
        /\ descriptors' = descriptors - 1
    BY <1>7, <2>1 DEF EndOfDir, Frames
  <2>3. stack' \in Seq(Frames) /\ Len(stack') = Len(stack) - 1
    BY <2>1, <2>2, Returned
  <2>4. descriptors' - Len(stack') = descriptors - Len(stack)
    BY <1>0, <2>2, <2>3
  <2>5. QED
    BY <1>2, <1>3, <1>7, <2>3, <2>4
<1>8. ASSUME NEW c \in Nodes, pc = "reading", stack' = Taken(c), UNCHANGED reader,
             UNCHANGED descriptors
      PROVE  Unheld' = Unheld /\ Strays' = Strays
  <2>1. stack # <<>>
    BY <1>0, <1>8 DEF WalkTyped
  <2>2. stack' \in Seq(Frames) /\ Len(stack') = Len(stack)
    BY <1>0, <1>8, <2>1, EntryTaken
  <2>3. QED
    BY <1>2, <1>3, <1>8, <2>2
<1>9. CASE \E c \in Nodes : SkipEntry(c) /\ UNCHANGED reader
  BY <1>8, <1>9 DEF SkipEntry
<1>10. CASE \E c \in Nodes : /\ pc = "reading" /\ c \in Last(stack).left /\ Entry(c)
                             /\ UNCHANGED disk /\ UNCHANGED mode /\ UNCHANGED reader
  BY <1>8, <1>10 DEF Entry
<1>11. CASE \E c \in Nodes : /\ pc = "reading" /\ c \in Last(stack).left /\ StatFails(c)
                             /\ UNCHANGED disk /\ UNCHANGED mode /\ UNCHANGED reader
  BY <1>2, <1>11
<1>12. CASE HandlerEnds
  <2>1. /\ at \in {"idle", "done"} /\ at' = "idle"
        /\ UNCHANGED <<length, allocated, descriptors, stack>>
    BY <1>12 DEF HandlerEnds, HandlerReturns
  <2>2. QED
    BY <2>1 DEF Unheld, Strays
<1>13. CASE Others
  BY <1>1, <1>13 DEF Others, Vanish, Rewrite, walk
<1>14. CASE HandlerRuns
  <2>1. stack' = stack
    BY <1>14 DEF HandlerRuns, walk
  <2>2. CASE LoadFails(target)
    BY <2>1, <2>2 DEF LoadFails, Fresh, Unheld, Strays
  <2>3. CASE Measure(target)
    <3>1. /\ at = "idle" /\ at' = "measured" /\ descriptors' = descriptors + 1
          /\ allocated' = allocated + Block(1) + Block(length')
      BY <2>3 DEF Measure, Allocated
    <3>2. length' \in Nat
      BY TypedReader, <1>14 DEF Next, Running, ReaderTyped
    <3>3. Block(1) \in Nat /\ Block(length') \in Nat
      <4>1. \A n \in Nat : Block(n) \in Nat
        BY <1>0 DEF Block
      <4>2. QED
        BY <3>2, <4>1
    <3>4. Unheld = allocated - 0
      BY <3>1 DEF Unheld
    <3>5. at' \notin {"idle", "done"}
      BY <3>1
    <3>6. Unheld' = allocated' - (Block(1) + Block(length'))
      BY <3>5, Zenon DEF Unheld
    <3>7. Unheld' = Unheld
      BY <1>0, <3>1, <3>3, <3>4, <3>6
    <3>8. Strays' = Strays
      BY <1>0, <2>1, <3>1 DEF Strays
    <3>9. QED
      BY <3>7, <3>8
  <2>4. CASE Read
    <3>1. at = "measured" /\ descriptors' = descriptors - 1
      BY <2>4 DEF Read
    <3>2. \/ at' = "done" /\ allocated' = BothFreed
          \/ at' = "loaded" /\ length' = length /\ allocated' = allocated
      BY <2>4 DEF Read, Fresh
    <3>3. Strays' = Strays
      BY <1>0, <2>1, <3>1, <3>2 DEF Strays
    <3>4. Unheld = allocated - (Block(1) + Block(length))
      BY <3>1 DEF Unheld
    <3>5. Block(1) \in Nat /\ Block(length) \in Nat
      BY <1>0 DEF Block
    <3>6. CASE at' = "done" /\ allocated' = BothFreed
      <4>1. Unheld' = BothFreed - 0
        BY <3>6 DEF Unheld
      <4>2. QED
        <5>1. BothFreed = allocated - Block(length) - Block(1)
          BY DEF BothFreed, Freed
        <5>2. Unheld' = Unheld
          BY <1>0, <3>4, <3>5, <4>1, <5>1
        <5>3. QED
          BY <3>3, <5>2
    <3>7. CASE at' = "loaded" /\ length' = length /\ allocated' = allocated
      <4>1. at' \notin {"idle", "done"}
        BY <3>7
      <4>2. Unheld' = allocated - (Block(1) + Block(length))
        BY <3>7, <4>1, Zenon DEF Unheld
      <4>3. QED
        BY <3>3, <3>4, <4>2
    <3>8. QED
      BY <3>2, <3>3, <3>6, <3>7
  <2>5. CASE NextLine
    <3>1. at = "loaded" /\ UNCHANGED <<descriptors, length, allocated>> /\ Advance
      BY <2>5 DEF NextLine
    <3>2. at' \in {"line", "overrun"}
      BY <3>1 DEF Advance, Copy
    <3>3. QED
      BY <2>1, <3>1, <3>2 DEF Unheld, Strays
  <2>6. CASE Parse
    BY <2>1, <2>6 DEF Parse, Unheld, Strays
  <2>7. CASE FreeFile
    <3>1. at = "loaded" /\ at' = "done" /\ descriptors' = descriptors /\ allocated' = BothFreed
      BY <2>7 DEF FreeFile, Fresh
    <3>2. QED
      BY <1>0, <2>1, <3>1 DEF Unheld, Strays, BothFreed, Freed, Block
  <2>8. QED
    BY <1>14, <2>2, <2>3, <2>4, <2>5, <2>6, <2>7 DEF HandlerRuns, ReaderNext
<1>15. QED
  BY <1>4, <1>5, <1>6, <1>7, <1>9, <1>10, <1>11, <1>12, <1>13, <1>14, StepCases

\* A directory stays open only where stat fails on one of its entries; loading,
\* reading and freeing a file leaves no byte behind, however they end.
THEOREM NothingElseLeaks == Spec => OnlyStatLeaks
<1> DEFINE Step == /\ Unheld' = Unheld
                   /\ Strays' # Strays => \E c \in Nodes : StatFails(c)
<1>1. Typed /\ [Next]_vars => [Step]_vars
  BY LeakStep
<1>2. QED
  BY <1>1, TypesHold, PTL DEF Spec, OnlyStatLeaks

-----------------------------------------------------------------------------
\* Loading a file.

\* A slash is a character, too.
Characters == STRING \cup Separators

\* A sequence of one.
LEMMA SingleFacts ==
  ASSUME NEW S, NEW e \in S
  PROVE  <<e>> \in Seq(S) /\ Len(<<e>>) = 1 /\ <<e>>[1] = e
OBVIOUS

\* f holds the first k sums of the sequences q, one behind the other.
Flattens(f, q, k) == f = [i \in 1 .. k |-> IF i = 1 THEN q[i] ELSE f[i - 1] \o q[i]]

\* There is such an f.
LEMMA FlattensExists ==
  ASSUME NEW q, NEW n \in Nat \ {0}
  PROVE  \E f : Flattens(f, q, n)
<1> DEFINE D == {k \in Nat \ {0} : ~\E f : Flattens(f, q, k)}
<1>1. SUFFICES ASSUME D # {} PROVE FALSE
  OBVIOUS
<1>2. PICK k \in D : \A j \in D : k <= j
  BY <1>1, LeastNatural
<1>3. CASE k = 1
  <2> DEFINE f == [i \in 1 .. 1 |-> q[i]]
  <2>1. f = [i \in 1 .. 1 |-> IF i = 1 THEN q[i] ELSE f[i - 1] \o q[i]]
    OBVIOUS
  <2>2. Flattens(f, q, k)
    BY <1>3, <2>1 DEF Flattens
  <2>3. QED
    BY <1>2, <2>2
<1>4. CASE k > 1
  <2>1. k - 1 \in Nat \ {0} /\ k - 1 \notin D
    BY <1>2, <1>4
  <2>2. PICK f : Flattens(f, q, k - 1)
    BY <2>1
  <2> DEFINE g == [i \in 1 .. k |-> IF i = k THEN f[k - 1] \o q[k] ELSE f[i]]
  <2>7. /\ k \in Nat /\ g = [i \in 1 .. k |-> g[i]] /\ g[k] = f[k - 1] \o q[k]
        /\ \A i \in 1 .. k - 1 : g[i] = f[i]
    <3>1. k \in 1 .. k /\ \A i \in 1 .. k - 1 : i \in 1 .. k /\ i # k
      BY <1>4
    <3>2. QED
      BY <3>1
  <2> HIDE DEF g
  <2>3. ASSUME NEW i \in 1 .. k
        PROVE  g[i] = IF i = 1 THEN q[i] ELSE g[i - 1] \o q[i]
    <3>1. CASE i = k
      <4>1. k - 1 \in 1 .. k - 1
        BY <1>4
      <4>2. g[k - 1] = f[k - 1]
        BY <2>7, <4>1
      <4>3. k # 1
        BY <1>4
      <4>4. QED
        BY <2>7, <3>1, <4>2, <4>3
    <3>2. CASE i < k
      <4>1. i \in 1 .. k - 1
        BY <3>2
      <4>2. f[i] = IF i = 1 THEN q[i] ELSE f[i - 1] \o q[i]
        BY <2>2, <4>1 DEF Flattens
      <4>3. i # 1 => i - 1 \in 1 .. k - 1
        BY <3>2
      <4>4. g[i] = f[i] /\ (i # 1 => g[i - 1] = f[i - 1])
        BY <2>7, <4>1, <4>3
      <4>5. QED
        BY <4>2, <4>4
    <3>3. QED
      BY <3>1, <3>2
  <2>4. g = [i \in 1 .. k |-> IF i = 1 THEN q[i] ELSE g[i - 1] \o q[i]]
    BY <2>3, <2>7
  <2>5. QED
    BY <1>2, <2>4 DEF Flattens
<1>5. QED
  BY <1>2, <1>3, <1>4

\* Flattened texts are a text that ends in the last of them.
LEMMA Flattened ==
  ASSUME NEW q \in Seq(Seq(Characters)), Len(q) > 1
  PROVE  \E t \in Seq(Characters) : FlattenSeq(q) = t \o q[Len(q)]
<1> DEFINE n == Len(q)
           f == CHOOSE h : Flattens(h, q, n)
<1>1. n \in Nat \ {0} /\ n > 1 /\ \A i \in 1 .. n : q[i] \in Seq(Characters)
  <2>1. n \in Nat
    BY LenProperties
  <2>2. \A i \in 1 .. n : q[i] \in Seq(Characters)
    BY ElementOfSeq
  <2>3. QED
    BY <2>1, <2>2
<1>2. Flattens(f, q, n)
  <2>1. \E h : Flattens(h, q, n)
    BY <1>1, FlattensExists
  <2>2. QED
    BY <2>1, Zenon
<1>3. FlattenSeq(q) = f[n]
  <2>1. n # 0
    BY <1>1
  <2>2. QED
    BY <2>1 DEF FlattenSeq, Flattens
<1> HIDE DEF f, n
<1>4. \A i \in 1 .. n : f[i] = IF i = 1 THEN q[i] ELSE f[i - 1] \o q[i]
  BY <1>2 DEF Flattens
<1>5. \A i \in 1 .. n : f[i] \in Seq(Characters)
  <2> DEFINE D == {i \in 1 .. n : f[i] \notin Seq(Characters)}
  <2>1. SUFFICES ASSUME D # {} PROVE FALSE
    OBVIOUS
  <2>2. PICK i \in D : \A j \in D : i <= j
    <3>1. D \in SUBSET Nat
      OBVIOUS
    <3>2. QED
      BY <2>1, <3>1, LeastNatural
  <2>3. CASE i = 1
    BY <1>1, <1>4, <2>2, <2>3
  <2>4. CASE i # 1
    <3>1. i - 1 \in 1 .. n /\ i - 1 \notin D
      <4>1. i \in 1 .. n /\ n \in Nat
        BY <1>1, <2>2
      <4>2. i - 1 \in 1 .. n /\ ~(i <= i - 1)
        BY <2>4, <4>1
      <4> HIDE DEF D
      <4>3. QED
        BY <2>2, <4>2
    <3>2. f[i - 1] \in Seq(Characters) /\ q[i] \in Seq(Characters)
      BY <1>1, <3>1
    <3>3. f[i - 1] \o q[i] \in Seq(Characters)
      BY <3>2, ConcatProperties
    <3>4. QED
      BY <1>4, <2>2, <2>4, <3>3
  <2>5. QED
    BY <2>3, <2>4
<1>6. f[n] = f[n - 1] \o q[n] /\ n - 1 \in 1 .. n
  <2>1. n \in 1 .. n /\ n # 1 /\ n - 1 \in 1 .. n
    BY <1>1
  <2>2. QED
    BY <1>4, <2>1
<1>7. QED
  BY <1>3, <1>5, <1>6 DEF n

\* The path of what lies in a directory is spelled with a slash.
LEMMA SpelledFacts ==
  ASSUME world \in Worlds, NEW p \in Seq(Nodes), Len(p) > 1
  PROVE  /\ Spelled(p) \in Seq(Characters)
         /\ \E i \in DOMAIN Spelled(p) : Spelled(p)[i] \in Separators
<1> DEFINE q == [i \in DOMAIN p |-> IF i = 1 THEN world.name[p[i]]
                                    ELSE <<"/">> \o world.name[p[i]]]
           n == Len(p)
<1>1. n \in Nat /\ n > 1 /\ DOMAIN p = 1 .. n /\ \A i \in 1 .. n : p[i] \in Nodes
  BY LenProperties
<1>2. \A m \in Nodes : world.name[m] \in Seq(Characters)
  <2>1. \A m \in Nodes : world.name[m] \in Seq(STRING)
    <3>1. world.name \in [Nodes -> Seq(STRING)]
      BY FileSystemAssumption
    <3>2. QED
      BY <3>1
  <2>2. STRING \subseteq Characters
    BY DEF Characters
  <2>3. QED
    BY <2>1, <2>2, SeqMonotonic
<1>3. <<"/">> \in Seq(Characters) /\ Len(<<"/">>) = 1 /\ <<"/">>[1] = "/"
  <2>1. "/" \in Characters
    BY DEF Characters, Separators
  <2>2. QED
    BY <2>1, SingleFacts, Zenon
<1>4. \A m \in Nodes : <<"/">> \o world.name[m] \in Seq(Characters)
  BY <1>2, <1>3, ConcatProperties
<1>5. q \in Seq(Seq(Characters)) /\ Len(q) = n /\ q[n] = <<"/">> \o world.name[p[n]]
  <2>1. \A i \in 1 .. n : (IF i = 1 THEN world.name[p[i]] ELSE <<"/">> \o world.name[p[i]]) \in Seq(Characters)
    BY <1>1, <1>2, <1>4
  <2>2. q \in [1 .. n -> Seq(Characters)]
    BY <1>1, <2>1
  <2>3. q[n] = <<"/">> \o world.name[p[n]]
    BY <1>1
  <2> HIDE DEF q, n
  <2>4. QED
    BY <1>1, <2>2, <2>3
<1>6. Spelled(p) = FlattenSeq(q)
  BY DEF Spelled
<1> HIDE DEF q, n
<1>7. PICK t \in Seq(Characters) : FlattenSeq(q) = t \o q[n]
  BY <1>1, <1>5, Flattened
<1> DEFINE u == q[n]
           k == Len(t) + 1
<1>8. u \in Seq(Characters) /\ Len(u) \in Nat /\ Len(u) >= 1 /\ u[1] = "/"
  <2>1. world.name[p[n]] \in Seq(Characters)
    BY <1>1, <1>2
  <2>2. /\ u \in Seq(Characters) /\ Len(u) = 1 + Len(world.name[p[n]])
        /\ \A i \in 1 .. 1 + Len(world.name[p[n]]) :
             u[i] = IF i <= 1 THEN <<"/">>[i] ELSE world.name[p[n]][i - 1]
    BY <1>3, <1>5, <2>1, ConcatProperties
  <2>3. Len(world.name[p[n]]) \in Nat
    BY <2>1, LenProperties
  <2>4. QED
    BY <1>3, <2>2, <2>3
<1> HIDE DEF u
<1>9. /\ t \o u \in Seq(Characters) /\ Len(t \o u) = Len(t) + Len(u)
      /\ \A i \in 1 .. Len(t) + Len(u) : (t \o u)[i] = IF i <= Len(t) THEN t[i] ELSE u[i - Len(t)]
  BY <1>8, ConcatProperties
<1>10. Len(t) \in Nat /\ DOMAIN (t \o u) = 1 .. Len(t) + Len(u)
  BY <1>9, LenProperties
<1>11. k \in 1 .. Len(t) + Len(u) /\ ~(k <= Len(t)) /\ k - Len(t) = 1
  BY <1>8, <1>10
<1> HIDE DEF k
<1>12. (t \o u)[k] = "/" /\ k \in DOMAIN (t \o u)
  BY <1>8, <1>9, <1>10, <1>11
<1>13. QED
  BY <1>6, <1>7, <1>9, <1>12 DEF u, Separators

\* The last place of a character of S, or 0.
LEMMA LastOfFacts ==
  ASSUME NEW s \in Seq(Characters), NEW S
  PROVE  /\ LastOf(s, S) \in 0 .. Len(s)
         /\ LastOf(s, S) # 0 => s[LastOf(s, S)] \in S
         /\ \A i \in 1 .. Len(s) : s[i] \in S => i <= LastOf(s, S)
<1>1. Len(s) \in Nat /\ DOMAIN s = 1 .. Len(s)
  BY LenProperties
<1> DEFINE D == {i \in DOMAIN s : s[i] \in S}
           E == {0} \cup D
<1>2. E \in SUBSET (0 .. Len(s)) /\ E # {}
  BY <1>1
<1>3. LastOf(s, S) = Max(E)
  BY DEF LastOf
<1> HIDE DEF E
<1>4. Max(E) \in E /\ \A n \in E : Max(E) >= n
  BY <1>1, <1>2, MaxOf
<1>5. QED
  BY <1>1, <1>2, <1>3, <1>4 DEF E

\* A place that is the last one.
LEMMA LastOfIs ==
  ASSUME NEW s \in Seq(Characters), NEW S, NEW n \in 0 .. Len(s),
         n # 0 => s[n] \in S,
         \A i \in 1 .. Len(s) : s[i] \in S => i <= n
  PROVE  LastOf(s, S) = n
<1>1. Len(s) \in Nat
  BY LenProperties
<1>2. PICK m \in 0 .. Len(s) : /\ m = LastOf(s, S) /\ (m # 0 => s[m] \in S)
                               /\ \A i \in 1 .. Len(s) : s[i] \in S => i <= m
  BY LastOfFacts
<1>3. m <= n
  BY <1>1, <1>2
<1>4. n <= m
  BY <1>1, <1>2
<1>5. QED
  BY <1>1, <1>2, <1>3, <1>4

\* The type of a path with separators is that of the name behind the last one.
LEMMA TypeOfName ==
  ASSUME NEW s \in Seq(Characters), \E i \in DOMAIN s : s[i] \in Separators
  PROVE  FileType(s) = IF StripName(s) = NoName THEN "UNKNOWN" ELSE FileType(StripName(s))
<1> DEFINE n == Len(s)
           l == LastOf(s, Separators)
           d == LastOf(s, {Dot})
<1>1. n \in Nat /\ DOMAIN s = 1 .. n
  BY LenProperties
<1>2. /\ l \in 1 .. n /\ s[l] \in Separators
      /\ \A i \in 1 .. n : s[i] \in Separators => i <= l
  <2>1. /\ l \in 0 .. n /\ (l # 0 => s[l] \in Separators)
        /\ \A i \in 1 .. n : s[i] \in Separators => i <= l
    BY LastOfFacts
  <2>2. PICK i \in 1 .. n : s[i] \in Separators
    BY <1>1
  <2>3. i <= l
    BY <2>1, <2>2
  <2>4. l # 0
    BY <1>1, <2>1, <2>3
  <2>5. QED
    BY <1>1, <2>1, <2>4
<1>3. /\ d \in 0 .. n /\ (d # 0 => s[d] = Dot)
      /\ \A i \in 1 .. n : s[i] = Dot => i <= d
  <2>1. /\ d \in 0 .. n /\ (d # 0 => s[d] \in {Dot})
        /\ \A i \in 1 .. n : s[i] \in {Dot} => i <= d
    BY LastOfFacts
  <2>2. QED
    BY <2>1
<1>4. Dot \notin Separators
  BY DEF Dot, Separators
<1>5. NoName \notin DOMAIN Types
  BY TextAssumption
<1>6. /\ Extension(s) = IF d = 0 \/ d < l THEN NoName ELSE SubSeq(s, d + 1, n)
      /\ StripName(s) = IF l \in {0, n} THEN NoName ELSE SubSeq(s, l + 1, n)
  BY DEF Extension, StripName
<1>7. d # l
  BY <1>1, <1>2, <1>3, <1>4
<1> HIDE DEF d, l, n
<1>8. CASE l = n
  <2>1. d = 0 \/ d < l
    BY <1>1, <1>2, <1>3, <1>7, <1>8
  <2>2. Extension(s) = NoName /\ StripName(s) = NoName
    BY <1>6, <1>8, <2>1
  <2>3. QED
    BY <1>5, <2>2 DEF FileType
<1>9. CASE l # n
  <2> DEFINE t == SubSeq(s, l + 1, n)
  <2>1. StripName(s) = t /\ l < n
    BY <1>1, <1>2, <1>6, <1>9
  <2>2. /\ t \in Seq(Characters) /\ Len(t) = n - l
        /\ \A i \in 1 .. n - l : t[i] = s[l + i]
    <3>1. l \in 0 .. Len(s) /\ n \in 0 .. Len(s)
      BY <1>1, <1>2 DEF n
    <3>2. /\ t \in Seq(Characters) /\ Len(t) = IF l < n THEN n - l ELSE 0
          /\ \A i \in 1 .. n - l : t[i] = s[l + i]
      BY <3>1, Part
    <3>3. QED
      BY <2>1, <3>2
  <2> HIDE DEF t
  <2>3. \A i \in 1 .. n - l : l + i \in 1 .. n /\ l + i > l
    BY <1>1, <1>2
  <2>4. LastOf(t, Separators) = 0
    <3>1. \A i \in 1 .. Len(t) : t[i] \notin Separators
      <4>1. ASSUME NEW i \in 1 .. Len(t) PROVE t[i] \notin Separators
        <5>1. i \in 1 .. n - l /\ t[i] = s[l + i]
          BY <2>2
        <5>2. l + i \in 1 .. n /\ ~(l + i <= l)
          BY <1>1, <1>2, <2>3, <5>1
        <5>3. QED
          BY <1>2, <5>1, <5>2
      <4>2. QED
        BY <4>1
    <3>2. 0 \in 0 .. Len(t)
      BY <1>1, <1>2, <2>1, <2>2
    <3>3. QED
      BY <2>2, <3>1, <3>2, LastOfIs
  <2>5. CASE d = 0 \/ d < l
    <3>1. \A i \in 1 .. Len(t) : t[i] \notin {Dot}
      <4>1. ASSUME NEW i \in 1 .. Len(t) PROVE t[i] # Dot
        <5>1. i \in 1 .. n - l /\ t[i] = s[l + i]
          BY <2>2
        <5>2. l + i \in 1 .. n /\ ~(l + i <= d)
          BY <1>1, <1>2, <1>3, <2>3, <2>5, <5>1
        <5>3. QED
          BY <1>3, <5>1, <5>2
      <4>2. QED
        BY <4>1
    <3>2. 0 \in 0 .. Len(t)
      BY <1>1, <1>2, <2>1, <2>2
    <3>3. LastOf(t, {Dot}) = 0
      BY <2>2, <3>1, <3>2, LastOfIs
    <3>4. Extension(s) = NoName /\ Extension(t) = NoName
      BY <1>6, <2>5, <3>3 DEF Extension
    <3>5. QED
      BY <1>5, <2>1, <3>4 DEF FileType
  <2>6. CASE d > l
    <3>0. d \in Nat /\ l \in Nat /\ n \in Nat /\ l < d /\ d <= n
      BY <1>1, <1>2, <1>3, <2>6
    <3> DEFINE e == d - l
    <3>1. e \in 1 .. n - l /\ l + e = d /\ e # 0
      BY <1>1, <1>2, <1>3, <2>6
    <3>2. LastOf(t, {Dot}) = e
      <4>1. t[e] \in {Dot}
        <5>1. t[e] = s[d] /\ d # 0
          BY <1>1, <1>2, <2>2, <2>6, <3>1
        <5>2. QED
          BY <1>3, <5>1
      <4>2. ASSUME NEW i \in 1 .. Len(t), t[i] \in {Dot} PROVE i <= e
        <5>1. i \in 1 .. n - l /\ t[i] = s[l + i]
          BY <2>2
        <5>2. l + i \in 1 .. n
          BY <2>3, <5>1
        <5>3. l + i <= d
          BY <1>3, <4>2, <5>1, <5>2
        <5>4. QED
          BY <1>1, <1>2, <1>3, <5>1, <5>3
      <4>3. e \in 0 .. Len(t)
        BY <1>1, <1>2, <2>2, <3>1
      <4> HIDE DEF e
      <4>4. QED
        BY <2>2, <4>1, <4>2, <4>3, LastOfIs
    <3>3. Extension(s) = SubSeq(s, d + 1, n)
      BY <1>1, <1>2, <1>3, <1>6, <2>6
    <3>4. Extension(t) = SubSeq(t, e + 1, n - l)
      <4>1. Extension(t) = IF e = 0 \/ e < 0 THEN NoName ELSE SubSeq(t, e + 1, Len(t))
        BY <2>4, <3>2, Zenon DEF Extension
      <4>2. ~(e = 0 \/ e < 0)
        BY <1>1, <1>2, <3>1
      <4>3. QED
        BY <2>2, <4>1, <4>2, Zenon
    <3> DEFINE a == SubSeq(s, d + 1, n)
               b == SubSeq(t, e + 1, n - l)
    <3>5. /\ a \in Seq(Characters) /\ Len(a) = IF d < n THEN n - d ELSE 0
          /\ \A i \in 1 .. n - d : a[i] = s[d + i]
      <4>1. d \in 0 .. Len(s) /\ n \in 0 .. Len(s)
        BY <1>1, <1>3 DEF n
      <4>2. QED
        BY <4>1, Part
    <3>6. /\ b \in Seq(Characters) /\ Len(b) = IF e < n - l THEN n - l - e ELSE 0
          /\ \A i \in 1 .. n - l - e : b[i] = t[e + i]
      <4>1. e \in 0 .. Len(t) /\ n - l \in 0 .. Len(t)
        BY <1>1, <1>2, <2>2, <3>1
      <4> HIDE DEF e
      <4>2. QED
        BY <2>2, <4>1, Part
    <3>7. n - l - e = n - d /\ (e < n - l <=> d < n)
      BY <1>1, <1>2, <1>3
    <3> HIDE DEF a, b
    <3>8. Len(a) = Len(b)
      <4> HIDE DEF e
      <4> QED
        BY <3>5, <3>6, <3>7
    <3>9. ASSUME NEW i \in 1 .. Len(a) PROVE a[i] = b[i]
      <4>1. i \in 1 .. n - d /\ i \in 1 .. n - l - e
        BY <1>1, <1>3, <3>5, <3>7
      <4>2. e + i \in 1 .. n - l /\ l + (e + i) = d + i
        BY <3>0, <4>1
      <4>3. b[i] = t[e + i] /\ t[e + i] = s[l + (e + i)] /\ a[i] = s[d + i]
        <5> HIDE DEF e
        <5> QED
          BY <2>2, <3>5, <3>6, <4>1, <4>2
      <4>4. QED
        BY <4>2, <4>3
    <3>10. a = b
      BY <3>5, <3>6, <3>8, <3>9, SeqEqual
    <3>11. Extension(s) = Extension(t)
      BY <3>3, <3>4, <3>10 DEF a, b
    <3>12. CASE t = NoName
      <4>1. Len(t) = 1 /\ t[1] = "NULL"
        BY <3>12 DEF NoName
      <4>2. n - l = 1 /\ e \in 1 .. 1
        BY <2>2, <3>1, <4>1
      <4>3. e = 1 /\ t[e] = s[d] /\ s[d] = Dot
        BY <1>3, <2>2, <3>0, <3>1, <4>2
      <4>4. QED
        BY <4>1, <4>3 DEF Dot
    <3>13. CASE t # NoName
      BY <2>1, <3>11, <3>13 DEF FileType
    <3>14. QED
      BY <3>12, <3>13
  <2>7. QED
    BY <1>1, <1>2, <1>3, <1>7, <2>5, <2>6
<1>10. QED
  BY <1>8, <1>9

\* The file system changes only where others change it, and then for good.
LEMMA DiskChanges ==
  ASSUME Typed, [Next]_vars
  PROVE  /\ world' = world /\ (changes' = 0 => changes = 0)
         /\ changes' = 0 => UNCHANGED <<kind, content>>
<1>0. changes \in Nat
  BY DEF Typed, DiskTyped
<1>1. UNCHANGED disk => UNCHANGED <<world, kind, content, changes>>
  BY DEF disk
<1>2. CASE UNCHANGED vars
  BY <1>1, <1>2 DEF vars
<1>3. CASE Others
  BY <1>0, <1>3 DEF Others, Vanish, Rewrite
<1>4. CASE WalkStep \/ \E m \in {"files", "directories"} : StartWalk(m)
  <2>1. UNCHANGED disk
    BY <1>4 DEF WalkStep, StartWalk, OpenDir, OpenDirFails, EndOfDir, ReadEntry, SkipEntry
  <2>2. QED
    BY <1>1, <2>1
<1>5. CASE HandlerRuns \/ HandlerEnds
  <2>1. UNCHANGED disk
    BY <1>5 DEF HandlerRuns, ReaderNext, LoadFails, Measure, Read, NextLine, Parse, FreeFile,
                HandlerEnds, HandlerReturns
  <2>2. QED
    BY <1>1, <2>1
<1>6. QED
  BY <1>2, <1>3, <1>4, <1>5 DEF Next, Running

\* While nobody interferes, nothing changes.
LEMMA NothingTouched == Spec => []Untouched
<1>1. Init => Untouched
  BY DEF Init, DiskInit, Untouched
<1>2. Typed /\ Untouched /\ [Next]_vars => Untouched'
  BY DiskChanges DEF Untouched
<1>3. QED
  BY <1>1, <1>2, TypesHold, PTL DEF Spec

\* What the handler keeps of the file it was called for.
LEMMA LoadedNext ==
  ASSUME Typed, Loaded, [Next]_vars
  PROVE  Loaded'
<1>0. /\ WalkTyped /\ DiskTyped /\ ReaderTyped /\ world' = world
      /\ (changes' = 0 => changes = 0) /\ (changes' = 0 => content' = content)
  BY DiskChanges DEF Typed
<1>1. ASSUME UNCHANGED <<type, path, length, data>>, at' = at \/ (at = "line" /\ at' = "loaded")
                                                     \/ (at = "loaded" /\ at' = "line")
      PROVE  Loaded'
  <2>1. Spelled(path)' = Spelled(path)
    BY <1>0, <1>1 DEF Spelled
  <2>2. QED
    BY <1>0, <1>1, <2>1 DEF Loaded
<1>2. ASSUME at' \notin {"measured", "loaded", "line"}
      PROVE  Loaded'
  BY <1>2 DEF Loaded
<1>3. CASE UNCHANGED reader
  BY <1>1, <1>3 DEF reader
<1>4. CASE HandlerEnds
  BY <1>2, <1>4 DEF HandlerEnds
<1>5. CASE LoadFails(target) \/ FreeFile
  BY <1>2, <1>5 DEF LoadFails, FreeFile, Fresh
<1>6. CASE Measure(target)
  <2>1. /\ at' = "measured" /\ path' = target /\ type' = FileType(Spelled(target))
        /\ length' = Len(content[Last(target)])
    BY <1>6 DEF Measure
  <2>2. Spelled(path)' = Spelled(target)
    BY <1>0, <2>1 DEF Spelled
  <2>3. changes' = 0 => length' = Len(content'[Last(path')])
    BY <1>0, <2>1
  <2>4. QED
    BY <2>1, <2>2, <2>3 DEF Loaded
<1>7. CASE Read
  <2>1. CASE Len(content[Last(path)]) < length
    BY <1>2, <1>7, <2>1 DEF Read, Fresh
  <2>2. CASE ~(Len(content[Last(path)]) < length)
    <3>1. /\ at = "measured" /\ data' = SubSeq(content[Last(path)], 1, length)
          /\ at' = "loaded" /\ UNCHANGED <<path, type, length>>
      BY <1>7, <2>2 DEF Read
    <3>2. Spelled(path)' = Spelled(path)
      BY <1>0, <3>1 DEF Spelled
    <3>3. changes' = 0 => data' = content'[Last(path')]
      <4>1. SUFFICES ASSUME changes' = 0 PROVE data' = content[Last(path)]
        BY <1>0, <3>1
      <4>2. length = Len(content[Last(path)])
        BY <1>0, <3>1, <4>1 DEF Loaded
      <4>3. content[Last(path)] \in Seq(STRING)
        <5>1. Last(path) \in Nodes
          BY <1>0, <3>1, TargetNode DEF ReaderTyped
        <5>2. QED
          BY <1>0, <5>1 DEF DiskTyped
      <4>4. QED
        BY <3>1, <4>2, <4>3, SubSeqFull
    <3>4. QED
      BY <3>1, <3>2, <3>3 DEF Loaded
  <2>3. QED
    BY <2>1, <2>2
<1>8. CASE NextLine
  <2>1. at = "loaded" /\ UNCHANGED <<type, path, length, data>> /\ Advance
    BY <1>8 DEF NextLine
  <2>2. at' \in {"line", "overrun"}
    BY <2>1 DEF Advance, Copy
  <2>3. QED
    BY <1>1, <1>2, <2>1, <2>2
<1>9. CASE Parse
  BY <1>1, <1>9 DEF Parse
<1>10. QED
  BY <1>3, <1>4, <1>5, <1>6, <1>7, <1>8, <1>9
  DEF Next, Running, HandlerRuns, ReaderNext, Others, vars

\* ez_load_file returns all of the file unless others changed it, with the type
\* of the name that ez_strip_filename would find in its path.
THEOREM LoadsWholeFiles == Spec => []LoadedRight
<1>1. Init => Loaded
  BY DEF Init, ReaderInit, Loaded
<1>2. Typed /\ Loaded /\ [Next]_vars => Loaded'
  BY LoadedNext
<1>3. Typed /\ Loaded => LoadedRight
  <2> SUFFICES ASSUME Typed, Loaded, at \in {"loaded", "line"}
               PROVE  /\ Len(data) = length
                      /\ changes = 0 => data = content[Last(path)]
                      /\ type = IF StripName(Spelled(path)) = NoName THEN "UNKNOWN"
                                ELSE FileType(StripName(Spelled(path)))
    BY Zenon DEF LoadedRight
  <2>1. WalkTyped /\ DiskTyped /\ ReaderTyped
    BY DEF Typed
  <2>2. Len(data) = length /\ path = target /\ pc = "handling" /\ stack # <<>>
    BY <2>1 DEF ReaderTyped, WalkTyped
  <2>3. path \in Seq(Nodes) /\ Len(path) > 1
    <3>1. Len(stack) \in Nat \ {0}
      BY <2>1, <2>2, TopFrame DEF WalkTyped
    <3>2. QED
      BY <2>1, <2>2, <3>1, TargetNode
  <2>4. /\ Spelled(path) \in Seq(Characters)
        /\ \E i \in DOMAIN Spelled(path) : Spelled(path)[i] \in Separators
    BY <2>1, <2>3, SpelledFacts DEF DiskTyped
  <2>5. type = FileType(Spelled(path)) /\ (changes = 0 => data = content[Last(path)])
    BY DEF Loaded
  <2>6. QED
    BY <2>2, <2>4, <2>5, TypeOfName
<1>4. QED
  BY <1>1, <1>2, <1>3, TypesHold, PTL DEF Spec

-----------------------------------------------------------------------------
\* Reading it line by line.

\* A part of a part.
LEMMA PartOfPart ==
  ASSUME NEW S, NEW d \in Seq(S), NEW l \in 0 .. Len(d), NEW c \in 0 .. l,
         NEW a \in 0 .. l - c, NEW b \in 0 .. l - c
  PROVE  SubSeq(SubSeq(d, c + 1, l), a + 1, b) = SubSeq(d, c + a + 1, c + b)
<1> DEFINE t == SubSeq(d, c + 1, l)
           u == SubSeq(t, a + 1, b)
           v == SubSeq(d, c + a + 1, c + b)
<1>1. Len(d) \in Nat /\ l \in Nat /\ c \in Nat /\ a \in Nat /\ b \in Nat /\ c <= l /\ l <= Len(d)
  BY LenProperties
<1>2. t \in Seq(S) /\ Len(t) = l - c /\ \A i \in 1 .. l - c : t[i] = d[c + i]
  <2>1. c \in 0 .. Len(d)
    BY <1>1
  <2>2. /\ t \in Seq(S) /\ Len(t) = IF c < l THEN l - c ELSE 0
        /\ \A i \in 1 .. l - c : t[i] = d[c + i]
    BY <2>1, Part
  <2>3. (IF c < l THEN l - c ELSE 0) = l - c
    BY <1>1
  <2>4. QED
    BY <2>2, <2>3, Zenon
<1> HIDE DEF t
<1>3. /\ u \in Seq(S) /\ Len(u) = IF a < b THEN b - a ELSE 0
      /\ \A i \in 1 .. b - a : u[i] = t[a + i]
  <2>1. a \in 0 .. Len(t) /\ b \in 0 .. Len(t)
    BY <1>2
  <2>2. QED
    BY <1>2, <2>1, Part
<1>4. /\ v \in Seq(S) /\ Len(v) = IF a < b THEN b - a ELSE 0
      /\ \A i \in 1 .. b - a : v[i] = d[c + a + i]
  <2>1. c + a \in 0 .. Len(d) /\ c + b \in 0 .. Len(d)
    BY <1>1
  <2>2. /\ v \in Seq(S) /\ Len(v) = IF c + a < c + b THEN c + b - (c + a) ELSE 0
        /\ \A i \in 1 .. c + b - (c + a) : v[i] = d[c + a + i]
    BY <2>1, Part
  <2>3. c + b - (c + a) = b - a /\ (c + a < c + b <=> a < b)
    BY <1>1
  <2> HIDE DEF v
  <2>4. QED
    BY <2>2, <2>3
<1> HIDE DEF u, v
<1>5. ASSUME NEW i \in 1 .. Len(u) PROVE u[i] = v[i]
  <2>1. i \in 1 .. b - a
    BY <1>1, <1>3
  <2>2. a + i \in 1 .. l - c /\ c + (a + i) = c + a + i
    BY <1>1, <2>1
  <2>3. QED
    BY <1>2, <1>3, <1>4, <2>1, <2>2
<1>6. u = v
  BY <1>3, <1>4, <1>5, SeqEqual
<1>7. QED
  BY <1>6 DEF t, u, v

\* What the abstract specification sees.
Unread == IF Reading /\ at # "overrun" THEN SubSeq(data, cursor + 1, length) ELSE <<>>
Shown == IF ~Reading THEN <<>> ELSE IF at = "overrun" THEN <<NewLine>> ELSE piece
Count == IF Reading THEN line ELSE 0

\* How far the range of an int goes.
LEMMA Half ==
  /\ IntRange \div 2 \in Nat /\ IntRange \div 2 < IntRange
  /\ IntRange <= WordSize /\ WordSize \in Nat \ {0}
<1>1. IntRange \in Nat \ {0} /\ WordSize \in Nat /\ IntRange <= WordSize
  BY ReaderAssumption
<1>2. \A n \in Nat \ {0} : n \div 2 \in Nat /\ n \div 2 < n
  OBVIOUS
<1>3. QED
  BY <1>1, <1>2

\* A line of a text whose length an int can hold.
LEMMA NextLineStep ==
  ASSUME Typed, Inside, NextLine, length < IntRange \div 2
  PROVE  cursor' <= length' /\ (Lines!ReadLine \/ Lines!Overrun)
<1> DEFINE c == cursor
           l == length
           ends == {i \in c .. l - 1 : data[i + 1] = NewLine}
<1>0. /\ at = "loaded" /\ cursor < length /\ Advance /\ line' = line + 1
      /\ UNCHANGED <<length, data, size>>
  BY DEF NextLine
<1>1. /\ c \in Nat /\ l \in Nat /\ c < l /\ l < IntRange \div 2 /\ data \in Seq(STRING)
      /\ Len(data) = l /\ size \in Sizes /\ size \in Nat \ {0} /\ line \in Nat
  BY <1>0 DEF Typed, ReaderTyped
<1>2. Unread = SubSeq(data, c + 1, l) /\ Count = line
  BY <1>0 DEF Unread, Count, Reading
<1> DEFINE text == SubSeq(data, c + 1, l)
<1>3. /\ text \in Seq(STRING) /\ Len(text) = l - c
      /\ \A i \in 1 .. l - c : text[i] = data[c + i]
  <2>1. data \in Seq(STRING) /\ c \in 0 .. Len(data) /\ l \in 0 .. Len(data)
    BY <1>1
  <2>2. /\ text \in Seq(STRING) /\ Len(text) = IF c < l THEN l - c ELSE 0
        /\ \A i \in 1 .. l - c : text[i] = data[c + i]
    BY <2>1, Part
  <2>3. (IF c < l THEN l - c ELSE 0) = l - c
    BY <1>1
  <2>4. QED
    BY <2>2, <2>3, Zenon
<1>4. \A a, b \in 0 .. l - c : SubSeq(text, a + 1, b) = SubSeq(data, c + a + 1, c + b)
  <2>1. l \in 0 .. Len(data) /\ c \in 0 .. l
    BY <1>1
  <2>2. QED
    BY <1>1, <2>1, PartOfPart
<1>5. text # <<>>
  BY <1>1, <1>3, EmptySeq
<1> HIDE DEF text
<1>6. ASSUME at' = "line" /\ cursor' \in Nat /\ cursor' <= l
      PROVE  /\ Unread' = SubSeq(data, cursor' + 1, l) /\ Shown' = piece'
             /\ Count' = line + 1
  BY <1>0, <1>1, <1>6 DEF Unread, Shown, Count, Reading
<1>7. ASSUME at' = "overrun"
      PROVE  Unread' = <<>> /\ Shown' = <<NewLine>> /\ Count' = line + 1
  BY <1>0, <1>1, <1>7 DEF Unread, Shown, Count, Reading
\* The first line of the text, as the abstract specification has it.
<1> DEFINE First(n) == /\ n \in 0 .. Len(text)
                       /\ \A i \in 1 .. n : text[i] # NewLine
                       /\ n < Len(text) => text[n + 1] = NewLine
<1>8. ASSUME NEW n, First(n), Count' = Count + 1,
             \/ n <= size /\ Shown' = SubSeq(text, 1, n)
                /\ Unread' = SubSeq(text, n + 1 + 1, Len(text))
             \/ ~(n <= size) /\ Shown' = SubSeq(text, 1, size)
                /\ Unread' = SubSeq(text, size + 1, Len(text))
      PROVE  Lines!ReadLine
  <2>1. Unread = text
    BY <1>2 DEF text
  <2>2. \E m \in 0 .. Len(Unread), s \in Sizes :
          /\ m \in 0 .. Len(Unread) /\ (\A i \in 1 .. m : Unread[i] # NewLine)
          /\ m < Len(Unread) => Unread[m + 1] = NewLine
          /\ IF m <= s THEN Shown' = SubSeq(Unread, 1, m) /\ Unread' = SubSeq(Unread, m + 1 + 1, Len(Unread))
             ELSE Shown' = SubSeq(Unread, 1, s) /\ Unread' = SubSeq(Unread, s + 1, Len(Unread))
    BY <1>1, <1>8, <2>1
  <2>3. Unread # <<>>
    BY <1>5, <2>1
  <2>4. QED
    BY <1>8, <2>2, <2>3, Zenon
    DEF Lines!ReadLine, Lines!FirstLine, Lines!Rest, Unread, Shown, Count
<1>9. ASSUME First(Len(text)), Len(text) > size, Count' = Count + 1,
             Unread' = <<>>, Shown' = <<NewLine>>
      PROVE  Lines!Overrun
  <2>1. Unread = text
    BY <1>2 DEF text
  <2>2. \E s \in Sizes :
          /\ Len(Unread) \in 0 .. Len(Unread) /\ (\A i \in 1 .. Len(Unread) : Unread[i] # NewLine)
          /\ Len(Unread) < Len(Unread) => Unread[Len(Unread) + 1] = NewLine
          /\ Len(Unread) > s
    BY <1>1, <1>9, <2>1
  <2>3. QED
    BY <1>9, <2>2, Zenon
    DEF Lines!Overrun, Lines!FirstLine, Lines!Spoiled, Unread, Shown, Count
<1>10. LineEnd = IF ends = {} THEN -1 ELSE ToInt(Min(ends))
  BY DEF LineEnd
<1>11. CASE ends = {}
  <2>1. LineEnd = -1
    BY <1>10, <1>11
  <2>2. Copy(l - c) /\ cursor' = l
    BY <1>0, <2>1 DEF Advance
  <2>3. First(Len(text))
    <3>1. ASSUME NEW i \in 1 .. Len(text) PROVE text[i] # NewLine
      <4>1. i \in 1 .. l - c
        BY <1>3
      <4>2. c + i - 1 \in c .. l - 1 /\ c + i - 1 + 1 = c + i
        BY <1>1, <4>1
      <4>3. data[c + i] # NewLine
        BY <1>11, <4>2
      <4>4. QED
        BY <1>3, <4>1, <4>3
    <3>2. Len(text) \in 0 .. Len(text) /\ ~(Len(text) < Len(text))
      BY <1>1, <1>3
    <3>3. QED
      BY <3>1, <3>2
  <2> HIDE DEF First
  <2>4. CASE l - c <= size
    <3>1. c + (l - c) = l
      BY <1>1
    <3>2. piece' = SubSeq(data, c + 1, l) /\ at' = "line"
      BY <1>1, <2>2, <2>4, <3>1 DEF Copy
    <3>3. Unread' = SubSeq(data, l + 1, l) /\ Shown' = text /\ Count' = line + 1
      BY <1>1, <1>6, <2>2, <3>2 DEF text
    <3>4. Unread' = <<>>
      BY <1>1, <3>3, SubSeqEmpty
    <3>5. SubSeq(text, Len(text) + 1 + 1, Len(text)) = <<>> /\ SubSeq(text, 1, Len(text)) = text
      BY <1>1, <1>3, SubSeqEmpty, SubSeqFull
    <3>6. Len(text) <= size
      BY <1>3, <2>4
    <3>7. Lines!ReadLine
      BY <1>2, <1>8, <2>3, <3>3, <3>4, <3>5, <3>6
    <3>8. QED
      BY <1>0, <1>1, <2>2, <3>7
  <2>5. CASE ~(l - c <= size)
    <3>1. at' = "overrun"
      BY <2>2, <2>5 DEF Copy
    <3>2. Len(text) > size
      BY <1>1, <1>3, <2>5
    <3>3. Lines!Overrun
      BY <1>2, <1>7, <1>9, <2>3, <3>1, <3>2
    <3>4. QED
      BY <1>0, <1>1, <2>2, <3>3
  <2>6. QED
    BY <2>4, <2>5
<1>12. CASE ends # {}
  <2> DEFINE e == Min(ends)
             n == e - c
  <2>1. e \in ends /\ \A i \in ends : e <= i
    <3>1. ends \in SUBSET Nat
      BY <1>1
    <3> HIDE DEF ends
    <3>2. QED
      BY <1>12, <3>1, MinOf
  <2> HIDE DEF e
  <2>2. e \in Nat /\ c <= e /\ e < l /\ data[e + 1] = NewLine
    BY <1>1, <2>1
  <2>3. LineEnd = e
    <3>1. e < IntRange \div 2
      BY <1>1, <2>2, Half
    <3>2. ToInt(e) = e
      BY <2>2, <3>1, IntOf
    <3>3. QED
      BY <1>10, <1>12, <3>2 DEF e
  <2>4. n \in Nat /\ n < l - c /\ c + n = e
    BY <1>1, <2>2
  <2>5. (LineEnd - cursor) % WordSize = n
    <3>0. WordSize \in Nat \ {0}
      BY Half
    <3>1. PICK W \in Nat \ {0} : W = WordSize
      BY <3>0, Zenon
    <3>2. n < W
      <4>1. PICK H \in Nat, R \in Nat : H = IntRange \div 2 /\ R = IntRange /\ H < R /\ R <= W
        <5>1. IntRange \in Nat /\ IntRange \div 2 \in Nat
          BY Half, ReaderAssumption
        <5>2. IntRange \div 2 < IntRange /\ IntRange <= W
          BY Half, <3>1
        <5>3. QED
          BY <5>1, <5>2, Zenon
      <4>2. l < H
        BY <1>1, <4>1
      <4>3. n < l
        BY <1>1, <2>4
      <4>4. QED
        BY <1>1, <2>4, <4>1, <4>2, <4>3
    <3>3. \A i \in Nat : i < W => i % W = i
      OBVIOUS
    <3>4. n % W = n
      BY <2>4, <3>2, <3>3
    <3>5. QED
      BY <2>3, <3>1, <3>4
  <2>6. First(n)
    <3>1. ASSUME NEW i \in 1 .. n PROVE text[i] # NewLine
      <4>1. i \in 1 .. l - c
        BY <1>1, <2>2, <2>4
      <4>2. c + i - 1 \in c .. l - 1 /\ c + i - 1 + 1 = c + i /\ ~(e <= c + i - 1)
        BY <1>1, <2>2, <2>4
      <4>3. data[c + i] # NewLine
        BY <2>1, <4>2
      <4>4. QED
        BY <1>3, <4>1, <4>3
    <3>2. n \in 0 .. Len(text)
      BY <1>1, <1>3, <2>4
    <3>3. text[n + 1] = NewLine
      <4>1. n + 1 \in 1 .. l - c /\ c + (n + 1) = e + 1
        BY <1>1, <2>2, <2>4
      <4>2. text[n + 1] = data[c + (n + 1)]
        BY <1>3, <4>1
      <4>3. QED
        BY <2>2, <4>1, <4>2
    <3>4. QED
      BY <3>1, <3>2, <3>3
  <2> HIDE DEF n, First
  <2>7. CASE n > size
    <3>1. LineEnd >= 0 /\ ~(LineEnd < 0) /\ ~(n <= size)
      BY <1>1, <2>2, <2>3, <2>4, <2>7
    <3>2. Copy(size) /\ cursor' = c + size
      BY <1>0, <2>5, <3>1 DEF Advance
    <3>3. size \in 0 .. l - c /\ l - c \in 0 .. l - c /\ 0 \in 0 .. l - c /\ c + size <= l
          /\ size <= size
      BY <1>1, <2>4, <2>7
    <3>4. piece' = SubSeq(data, c + 1, c + size) /\ at' = "line"
      BY <3>2, <3>3 DEF Copy
    <3>5. /\ Shown' = piece' /\ Unread' = SubSeq(data, c + size + 1, l) /\ Count' = line + 1
      <4>1. cursor' \in Nat /\ cursor' <= l
        BY <1>1, <3>2, <3>3
      <4>2. QED
        BY <1>6, <3>2, <3>4, <4>1
    <3>6. SubSeq(text, 1, size) = SubSeq(data, c + 1, c + size)
      <4>1. SubSeq(text, 0 + 1, size) = SubSeq(data, c + 0 + 1, c + size)
        BY <1>4, <3>3
      <4>2. 0 + 1 = 1 /\ c + 0 + 1 = c + 1
        BY <1>1
      <4>3. QED
        BY <4>1, <4>2
    <3>7. SubSeq(text, size + 1, Len(text)) = SubSeq(data, c + size + 1, l)
      <4>1. SubSeq(text, size + 1, l - c) = SubSeq(data, c + size + 1, c + (l - c))
        BY <1>4, <3>3
      <4>2. c + (l - c) = l
        BY <1>1
      <4>3. QED
        BY <1>3, <4>1, <4>2
    <3>8. Lines!ReadLine
      BY <1>2, <1>8, <2>6, <3>1, <3>4, <3>5, <3>6, <3>7
    <3>9. QED
      BY <1>0, <3>2, <3>3, <3>8
  <2>8. CASE n <= size
    <3>1. LineEnd >= 0 /\ ~(LineEnd < 0) /\ ~(n > size)
      BY <1>1, <2>2, <2>3, <2>4, <2>8
    <3>2. Copy(n) /\ cursor' = e + 1
      <4>1. Copy(n) /\ cursor' \in NextStart(e)
        BY <1>0, <2>3, <2>5, <3>1 DEF Advance
      <4>2. e + 1 < IntRange \div 2
        BY <1>1, <2>2, Half
      <4>3. QED
        BY <2>2, <4>1, <4>2, NextStartFacts
    <3>3. /\ n \in 0 .. l - c /\ n + 1 \in 0 .. l - c /\ l - c \in 0 .. l - c /\ 0 \in 0 .. l - c
          /\ c + n <= l /\ c + (n + 1) = e + 1
      BY <1>1, <2>2, <2>4
    <3>4. piece' = SubSeq(data, c + 1, c + n) /\ at' = "line"
      BY <2>8, <3>2, <3>3 DEF Copy
    <3>5. /\ Shown' = piece' /\ Unread' = SubSeq(data, e + 1 + 1, l) /\ Count' = line + 1
      <4>1. cursor' \in Nat /\ cursor' <= l
        BY <1>1, <2>2, <3>2
      <4>2. QED
        BY <1>6, <3>2, <3>4, <4>1
    <3>6. SubSeq(text, 1, n) = SubSeq(data, c + 1, c + n)
      <4>1. SubSeq(text, 0 + 1, n) = SubSeq(data, c + 0 + 1, c + n)
        BY <1>4, <3>3
      <4>2. 0 + 1 = 1 /\ c + 0 + 1 = c + 1
        BY <1>1
      <4>3. QED
        BY <4>1, <4>2
    <3>7. SubSeq(text, n + 1 + 1, Len(text)) = SubSeq(data, e + 1 + 1, l)
      <4>1. SubSeq(text, (n + 1) + 1, l - c) = SubSeq(data, c + (n + 1) + 1, c + (l - c))
        BY <1>4, <3>3
      <4>2. c + (l - c) = l
        BY <1>1
      <4>3. QED
        BY <1>3, <3>3, <4>1, <4>2
    <3>8. Lines!ReadLine
      BY <1>2, <1>8, <2>6, <2>8, <3>4, <3>5, <3>6, <3>7
    <3>9. QED
      BY <1>0, <1>1, <2>2, <3>2, <3>8
  <2>9. QED
    BY <1>1, <2>4, <2>7, <2>8
<1>13. QED
  BY <1>11, <1>12

\* A text is opened or left.
Opened == Unread' \in Seq(STRING) /\ Shown' = <<>> /\ Count' = 0

Still == UNCHANGED <<Unread, Shown, Count>>

\* Every step keeps the reader inside its text, and is one of EzLines, opens or
\* leaves a text, or is invisible.
LEMMA LinesStep ==
  ASSUME Typed, Inside, [Next]_vars
  PROVE  /\ Inside'
         /\ Lines!ReadLine \/ Lines!Overrun \/ Opened \/ Still
<1>0. /\ ReaderTyped /\ ReaderTyped' /\ WalkTyped /\ DiskTyped
      /\ length \in Nat /\ cursor \in Nat /\ cursor' \in Nat /\ length' \in Nat
  BY TypedReader DEF Typed, ReaderTyped
<1>1. ASSUME UNCHANGED reader
      PROVE  Inside' /\ Still
  <2>1. UNCHANGED <<at, length, data, cursor, line, piece>>
    BY <1>1 DEF reader
  <2>2. Inside'
    BY <2>1 DEF Inside
  <2>3. QED
    BY <2>1, <2>2 DEF Still, Unread, Shown, Count, Reading
<1>2. ASSUME ~Reading, ~Reading'
      PROVE  Still
  BY <1>2 DEF Still, Unread, Shown, Count
<1>3. ASSUME at' \in {"idle", "done", "measured"}
      PROVE  Inside' /\ ~Reading' /\ Opened
  <2>1. cursor' = 0
    BY <1>0, <1>3 DEF ReaderTyped
  <2>2. Inside'
    BY <1>0, <2>1 DEF Inside
  <2>3. ~Reading'
    BY <1>3 DEF Reading
  <2>4. Unread' = <<>> /\ Shown' = <<>> /\ Count' = 0
    BY <2>3 DEF Unread, Shown, Count
  <2>5. QED
    BY <2>2, <2>3, <2>4, EmptySeq DEF Opened
<1>4. CASE HandlerEnds
  <2>1. at' = "idle"
    BY <1>4 DEF HandlerEnds
  <2>2. QED
    BY <1>3, <2>1
<1>5. CASE LoadFails(target) \/ Measure(target) \/ FreeFile
  <2>1. at' \in {"done", "measured"}
    BY <1>5 DEF LoadFails, Measure, FreeFile, Fresh
  <2>2. QED
    BY <1>3, <2>1
<1>6. CASE Read
  <2>1. CASE Len(content[Last(path)]) < length
    <3>1. at' = "done"
      BY <1>6, <2>1 DEF Read, Fresh
    <3>2. QED
      BY <1>3, <3>1
  <2>2. CASE ~(Len(content[Last(path)]) < length)
    <3>1. /\ at = "measured" /\ at' = "loaded" /\ UNCHANGED <<length, cursor, line, piece>>
      BY <1>6, <2>2 DEF Read
    <3>2. cursor' = 0 /\ line' = 0 /\ piece' = <<>>
      BY <1>0, <3>1 DEF ReaderTyped
    <3>3. Inside'
      BY <1>0, <3>2 DEF Inside
    <3>4. CASE ~Reading'
      <4>1. ~Reading
        BY <3>1 DEF Reading
      <4>2. QED
        BY <1>2, <3>3, <3>4, <4>1
    <3>5. CASE Reading'
      <4>1. Unread' = SubSeq(data', 1, length') /\ Shown' = <<>> /\ Count' = 0
        <5>1. 0 + 1 = 1 /\ at' # "overrun"
          BY <3>1
        <5>2. QED
          BY <3>2, <3>5, <5>1 DEF Unread, Shown, Count
      <4>2. data' \in Seq(STRING) /\ Len(data') = length'
        BY <1>0, <3>1 DEF ReaderTyped
      <4>3. SubSeq(data', 1, length') = data'
        BY <4>2, SubSeqFull
      <4>4. QED
        BY <3>3, <4>1, <4>2, <4>3 DEF Opened
    <3>6. QED
      BY <3>4, <3>5
  <2>3. QED
    BY <2>1, <2>2
<1>7. CASE NextLine
  <2>1. length' = length
    BY <1>7 DEF NextLine
  <2>2. CASE length < IntRange \div 2
    <3>1. cursor' <= length' /\ (Lines!ReadLine \/ Lines!Overrun)
      BY <1>7, <2>2, NextLineStep
    <3>2. QED
      BY <3>1 DEF Inside
  <2>3. CASE ~(length < IntRange \div 2)
    <3>1. ~Reading /\ ~Reading' /\ Inside'
      BY <2>1, <2>3 DEF Reading, Inside
    <3>2. QED
      BY <1>2, <3>1
  <2>4. QED
    BY <2>2, <2>3
<1>8. CASE Parse
  <2>1. at = "line" /\ at' = "loaded" /\ UNCHANGED <<length, data, cursor, line, piece>>
    BY <1>8 DEF Parse
  <2>2. Inside'
    BY <2>1 DEF Inside
  <2>3. Still
    BY <2>1 DEF Still, Unread, Shown, Count, Reading
  <2>4. QED
    BY <2>2, <2>3
<1>9. QED
  BY <1>1, <1>4, <1>5, <1>6, <1>7, <1>8
  DEF Next, Running, HandlerRuns, ReaderNext, Others, vars

\* Up to the range of an int, ez_next_line hands out the lines of the file in
\* order: whole, or in pieces as long as the buffer.
THEOREM LinesImplemented == Spec => ImplementsLines
<1>1. Init => Inside /\ Lines!Init
  BY DEF Init, ReaderInit, Inside, Reading, Lines!Init
<1>2. Typed /\ Inside /\ [Next]_vars => Inside'
  BY LinesStep
<1>3. Typed /\ Inside /\ [Next]_vars => [Lines!Next]_<<Unread, Shown, Count>>
  <2> SUFFICES ASSUME Typed, Inside, [Next]_vars
               PROVE  Lines!Next \/ UNCHANGED <<Unread, Shown, Count>>
    OBVIOUS
  <2>1. Lines!ReadLine \/ Lines!Overrun \/ Opened \/ Still
    BY LinesStep
  <2>2. Opened => Lines!Open
    BY DEF Opened, Lines!Open, Unread, Shown, Count
  <2>3. QED
    BY <2>1, <2>2 DEF Lines!Next, Still
<1>4. QED
  BY <1>1, <1>2, <1>3, TypesHold, PTL
  DEF Spec, ImplementsLines, Lines!Spec, Unread, Shown, Count

-----------------------------------------------------------------------------
\* No path is handed out twice.

\* Where frames go, or entries to come, what is left of them was not yet.
LEMMA Shrinks ==
  ASSUME WalkTyped, WalkTyped', ComesOnce, Entered, handled' = handled,
         Len(stack') <= Len(stack),
         \A i \in 1 .. Len(stack') : /\ stack'[i].dir = stack[i].dir
                                     /\ stack'[i].left \subseteq stack[i].left
  PROVE  ComesOnce' /\ Entered'
<1>1. Len(stack) \in Nat /\ Len(stack') \in Nat
  BY LenProperties DEF WalkTyped
<1>2. ASSUME NEW k \in 1 .. Len(stack'), NEW c \in stack'[k].left, NEW p \in handled,
             Through(p, k, c)'
      PROVE  FALSE
  <2>1. k \in 1 .. Len(stack) /\ c \in stack[k].left
    BY <1>1
  <2>2. \A i \in 1 .. k : i \in 1 .. Len(stack')
    BY <1>1
  <2>3. Through(p, k, c)
    BY <1>2, <2>2 DEF Through
  <2>4. QED
    BY <2>1, <2>3 DEF ComesOnce
<1>3. ASSUME NEW k \in 1 .. Len(stack') - 1
      PROVE  stack'[k + 1].dir \notin stack'[k].left
  <2>1. k \in 1 .. Len(stack) - 1 /\ k \in 1 .. Len(stack') /\ k + 1 \in 1 .. Len(stack')
    BY <1>1
  <2>2. QED
    BY <2>1 DEF Entered
<1>4. QED
  BY <1>2, <1>3 DEF ComesOnce, Entered

\* What happens to the frames below a return.
LEMMA ShrinksOnReturn ==
  ASSUME Typed, WalkTyped', ComesOnce, Entered, handled' = handled, NEW r \in {"true", "false"},
         Return(stack, r) \/ (stack # <<>> /\ Return(Front(stack), r))
  PROVE  ComesOnce' /\ Entered' /\ Ahead'
<1>1. WalkTyped /\ stack \in Seq(Frames) /\ Len(stack) \in Nat
  BY LenProperties DEF Typed, WalkTyped
<1>2. PICK f \in Seq(Frames) : /\ Return(f, r) /\ Len(f) \in Nat /\ Len(f) <= Len(stack)
                               /\ \A i \in 1 .. Len(f) : f[i] = stack[i]
  <2>1. CASE Return(stack, r)
    BY <1>1, <2>1
  <2>2. CASE stack # <<>> /\ Return(Front(stack), r)
    <3>1. /\ Front(stack) \in Seq(Frames) /\ Len(Front(stack)) = Len(stack) - 1
          /\ Len(stack) \in Nat \ {0}
          /\ \A i \in 1 .. Len(stack) - 1 : Front(stack)[i] = stack[i]
      BY <1>1, <2>2, TopFrame
    <3>2. Len(Front(stack)) \in Nat /\ Len(Front(stack)) <= Len(stack)
      BY <3>1
    <3>3. \A i \in 1 .. Len(Front(stack)) : Front(stack)[i] = stack[i]
      BY <3>1
    <3>4. QED
      BY <2>2, <3>1, <3>2, <3>3
  <2>3. QED
    BY <2>1, <2>2
<1>3. /\ stack' \in Seq(Frames) /\ Len(stack') = Len(f)
      /\ \A i \in 1 .. Len(f) : stack'[i].dir = f[i].dir /\ stack'[i].left = f[i].left
      /\ pc' = IF stack' = <<>> THEN "idle" ELSE "reading"
  BY <1>2, Returned
<1>4. /\ Len(stack') <= Len(stack)
      /\ \A i \in 1 .. Len(stack') : /\ stack'[i].dir = stack[i].dir
                                     /\ stack'[i].left \subseteq stack[i].left
  BY <1>2, <1>3
<1>5. ComesOnce' /\ Entered'
  BY <1>1, <1>4, Shrinks
<1>6. Ahead'
  BY <1>3 DEF Ahead
<1>7. QED
  BY <1>5, <1>6

\* An entry that readdir returns for the first time.
LEMMA NewEntry ==
  ASSUME Typed, WalkTyped', NotYet, pc = "reading", NEW c \in Nodes, c \in Last(stack).left,
         stack' = Taken(c), NEW p, p = Append(Here, c)
  PROVE  /\ p \in Seq(Nodes) /\ p \notin handled /\ ~Below(p, p)
         /\ Last(p) = c /\ stack' # <<>> /\ c \notin Last(stack').left
         /\ \A q \in handled : ~Below(q, p)
         /\ \A k \in 1 .. Len(stack') : \A d \in stack'[k].left :
              ~Through(p, k, d)' /\ \A q \in handled : ~Through(q, k, d)'
         /\ Entered'
<1> DEFINE n == Len(stack)
<1>1. WalkTyped /\ stack # <<>> /\ stack \in Seq(Frames)
  BY DEF Typed, WalkTyped
<1>2. n \in Nat \ {0} /\ Last(stack) = stack[n] /\ c \in stack[n].left
  BY <1>1, TopFrame
<1>3. /\ Here \in Seq(Nodes) /\ Len(Here) = n /\ \A i \in 1 .. n : Here[i] = stack[i].dir
  BY <1>1, HereFacts
<1>4. /\ p \in Seq(Nodes) /\ Len(p) = n + 1 /\ p[n + 1] = c
      /\ \A i \in 1 .. n : p[i] = stack[i].dir
  BY <1>3, AppendProperties
<1>5. /\ stack' \in Seq(Frames) /\ stack' # <<>> /\ Len(stack') = n
      /\ \A i \in 1 .. n :
           /\ stack'[i].dir = stack[i].dir
           /\ stack'[i].left = IF i = n THEN stack[i].left \ {c} ELSE stack[i].left
  BY <1>1, EntryTaken
<1> HIDE DEF n
<1>6. Last(p) = c
  BY <1>4 DEF Last
<1>7. p \notin handled /\ \A q \in handled : ~Below(q, p)
  <2>1. \A q \in handled : ~Through(q, n, c)
    BY <1>2 DEF NotYet, ComesOnce, n
  <2>2. Through(p, n, c)
    BY <1>2, <1>4 DEF Through
  <2>3. ASSUME NEW q \in handled, Below(q, p) PROVE Through(q, n, c)
    <3>1. q \in Seq(Nodes)
      BY DEF NotYet, HandledOnce
    <3>2. Len(q) \in Nat /\ Len(q) > n + 1 /\ \A i \in 1 .. n + 1 : q[i] = p[i]
      BY <1>4, <2>3, <3>1, LenProperties DEF Below
    <3>3. Len(q) > n /\ n + 1 \in 1 .. n + 1 /\ \A i \in 1 .. n : i \in 1 .. n + 1
      BY <1>2, <3>2
    <3>4. QED
      BY <1>4, <3>2, <3>3 DEF Through
  <2>4. QED
    BY <2>1, <2>2, <2>3
<1>8. ~Below(p, p)
  BY <1>2, <1>4 DEF Below
<1>9. c \notin Last(stack').left
  <2>1. Last(stack') = stack'[n]
    BY <1>5, Zenon DEF Last
  <2>2. n \in 1 .. n
    BY <1>2
  <2>3. stack'[n].left = stack[n].left \ {c}
    BY <1>5, <2>2
  <2>4. QED
    BY <2>1, <2>3
<1>10. ASSUME NEW k \in 1 .. Len(stack'), NEW d \in stack'[k].left, Through(p, k, d)'
       PROVE  FALSE
  <2>1. k \in 1 .. n /\ d = p[k + 1] /\ d \in stack[k].left
    BY <1>5, <1>10 DEF Through
  <2>2. CASE k = n
    BY <1>4, <1>5, <2>1, <2>2
  <2>3. CASE k # n
    <3>1. k \in 1 .. n - 1 /\ k + 1 \in 1 .. n
      BY <1>2, <2>1, <2>3
    <3>2. d = stack[k + 1].dir
      BY <1>4, <2>1, <3>1
    <3>3. QED
      BY <2>1, <3>1, <3>2 DEF NotYet, Entered, n
  <2>4. QED
    BY <2>2, <2>3
<1>11. ASSUME NEW k \in 1 .. Len(stack'), NEW d \in stack'[k].left, NEW q \in handled,
              Through(q, k, d)'
       PROVE  FALSE
  <2>1. k \in 1 .. n
    BY <1>5
  <2>2. d \in stack[k].left
    BY <1>5, <2>1
  <2>3. \A i \in 1 .. k : i \in 1 .. n
    BY <1>2, <2>1
  <2>4. Through(q, k, d)
    BY <1>5, <1>11, <2>3 DEF Through
  <2>5. QED
    BY <2>1, <2>2, <2>4 DEF NotYet, ComesOnce, n
<1>12. Entered'
  <2>1. ASSUME NEW k \in 1 .. Len(stack') - 1 PROVE stack'[k + 1].dir \notin stack'[k].left
    <3>1. k \in 1 .. n - 1 /\ k \in 1 .. n /\ k + 1 \in 1 .. n
      BY <1>2, <1>5
    <3>2. stack[k + 1].dir \notin stack[k].left
      BY <3>1 DEF NotYet, Entered, n
    <3>3. QED
      BY <1>5, <3>1, <3>2
  <2>2. QED
    BY <2>1 DEF Entered
<1>13. QED
  BY <1>4, <1>5, <1>6, <1>7, <1>8, <1>9, <1>10, <1>11, <1>12

\* The walk goes into a directory.
LEMMA NewFrame ==
  ASSUME Typed, WalkTyped', NotYet, OpenDir
  PROVE  ComesOnce' /\ Entered' /\ Ahead'
<1> DEFINE n == Len(stack)
<1>1. /\ WalkTyped /\ DiskTyped /\ stack \in Seq(Frames) /\ n \in Nat /\ pc = "opening"
      /\ pc' = "reading" /\ handled' = handled /\ stack' = Append(stack, Frame(Last(target)))
  BY LenProperties DEF Typed, WalkTyped, OpenDir
<1>2. /\ target \in Seq(Nodes) /\ Last(target) \in Nodes /\ Len(target) = n + 1
      /\ target[n + 1] = Last(target) /\ \A i \in 1 .. n : target[i] = stack[i].dir
  BY <1>1, TargetNode
<1>3. PICK f \in Frames : f = Frame(Last(target)) /\ f.dir = Last(target)
  <2>1. world.children[Last(target)] \in SUBSET Nodes
    <3>1. world \in Worlds
      BY <1>1 DEF DiskTyped
    <3>2. world.children \in [Nodes -> SUBSET Nodes]
      BY <3>1, FileSystemAssumption
    <3>3. QED
      BY <1>2, <3>2
  <2>2. Frame(Last(target)) \in Frames /\ Frame(Last(target)).dir = Last(target)
    BY <1>2, <2>1 DEF Frame, Frames
  <2>3. QED
    BY <2>2
<1>4. /\ Len(stack') = n + 1 /\ stack'[n + 1] = f
      /\ \A i \in 1 .. n : stack'[i] = stack[i]
  BY <1>1, <1>3, AppendProperties
<1> HIDE DEF n
<1>5. ASSUME NEW k \in 1 .. n + 1, NEW c \in stack'[k].left, NEW p \in handled, Through(p, k, c)'
      PROVE  FALSE
  <2>1. Len(p) > k /\ p[k + 1] = c /\ \A i \in 1 .. k : p[i] = stack'[i].dir
    BY <1>5 DEF Through
  <2>2. CASE k \in 1 .. n
    <3>1. \A i \in 1 .. k : i \in 1 .. n
      BY <1>1, <2>2
    <3>2. Through(p, k, c) /\ c \in stack[k].left
      BY <1>4, <2>1, <2>2, <3>1 DEF Through
    <3>3. QED
      BY <2>2, <3>2 DEF NotYet, ComesOnce, n
  <2>3. CASE k = n + 1
    <3>1. \A i \in 1 .. n + 1 : p[i] = target[i]
      <4>1. ASSUME NEW i \in 1 .. n PROVE p[i] = target[i]
        <5>1. i \in 1 .. k
          BY <1>1, <2>3
        <5>2. QED
          BY <1>2, <1>4, <2>1, <5>1
      <4>2. p[n + 1] = target[n + 1]
        <5>1. n + 1 \in 1 .. k
          BY <1>1, <2>3
        <5>2. QED
          BY <1>2, <1>3, <1>4, <2>1, <5>1
      <4>3. \A i \in 1 .. n + 1 : i = n + 1 \/ i \in 1 .. n
        BY <1>1
      <4>4. QED
        BY <4>1, <4>2, <4>3
    <3>2. Below(p, target)
      BY <1>2, <2>1, <2>3, <3>1 DEF Below
    <3>3. QED
      BY <1>1, <3>2 DEF NotYet, Ahead
  <2>4. QED
    BY <1>1, <2>2, <2>3
<1>6. ASSUME NEW k \in 1 .. n
      PROVE  stack'[k + 1].dir \notin stack'[k].left
  <2>1. CASE k = n
    <3>1. stack # <<>> /\ Last(stack) = stack[n]
      BY <1>1, <2>1, EmptySeq DEF Last, n
    <3>2. QED
      BY <1>1, <1>3, <1>4, <2>1, <3>1 DEF NotYet, Ahead
  <2>2. CASE k # n
    <3>1. k + 1 \in 1 .. n /\ k \in 1 .. n - 1
      BY <1>1, <2>2
    <3>2. QED
      BY <1>4, <3>1 DEF NotYet, Entered, n
  <2>3. QED
    BY <2>1, <2>2
<1>7. ComesOnce'
  BY <1>1, <1>4, <1>5 DEF ComesOnce
<1>8. Entered'
  <2>1. Len(stack') - 1 = n
    BY <1>1, <1>4
  <2>2. QED
    BY <1>6, <2>1, Zenon DEF Entered
<1>9. Ahead'
  BY <1>1 DEF Ahead
<1>10. QED
  BY <1>7, <1>8, <1>9

\* No step hands out a path again.
LEMMA NotYetNext ==
  ASSUME Typed, NotYet, [Next]_vars
  PROVE  NotYet'
<1>1. WalkTyped /\ WalkTyped' /\ stack \in Seq(Frames)
  BY TypedWalk DEF Typed, WalkTyped
<1>2. HandledOnce /\ ComesOnce /\ Entered /\ Ahead
  BY DEF NotYet
<1>3. handled' = handled /\ handlings' = handlings => HandledOnce'
  BY <1>2 DEF HandledOnce
<1>4. CASE UNCHANGED walk
  <2>1. UNCHANGED <<pc, stack, target, handled, handlings>>
    BY <1>4 DEF walk
  <2>2. ComesOnce' /\ Entered' /\ Ahead'
    BY <1>2, <2>1 DEF ComesOnce, Entered, Ahead, Through
  <2>3. QED
    BY <1>3, <2>1, <2>2 DEF NotYet
<1>5. ASSUME NEW m \in {"files", "directories"}, StartWalk(m)
      PROVE  NotYet'
  <2>1. stack' = <<>> /\ handled' = {} /\ handlings' = 0
    BY <1>1, <1>5 DEF StartWalk, WalkTyped
  <2>2. Len(stack') = 0
    BY <2>1, EmptySeq
  <2>3. HandledOnce'
    BY <2>1, FS_EmptySet DEF HandledOnce
  <2>4. ComesOnce' /\ Entered' /\ Ahead'
    BY <2>1, <2>2 DEF ComesOnce, Entered, Ahead
  <2>5. QED
    BY <2>3, <2>4 DEF NotYet
<1>6. CASE OpenDir
  BY <1>1, <1>3, <1>6, NewFrame DEF NotYet, OpenDir
<1>7. ASSUME NEW r \in {"true", "false"}, handled' = handled, handlings' = handlings,
             Return(stack, r) \/ (stack # <<>> /\ Return(Front(stack), r))
      PROVE  NotYet'
  <2>1. ComesOnce' /\ Entered' /\ Ahead'
    BY <1>1, <1>2, <1>7, ShrinksOnReturn
  <2>2. QED
    BY <1>3, <1>7, <2>1 DEF NotYet
<1>8. CASE OpenDirFails
  BY <1>7, <1>8 DEF OpenDirFails
<1>9. CASE EndOfDir
  <2>1. stack # <<>>
    BY <1>1, <1>9 DEF EndOfDir, WalkTyped
  <2>2. Last(stack).ret \in {"true", "false"}
    BY <1>1, <2>1, TopFrame DEF Frames
  <2>3. QED
    BY <1>7, <1>9, <2>1, <2>2 DEF EndOfDir
<1>10. ASSUME NEW c \in Nodes, pc = "reading", StatFails(c)
       PROVE  NotYet'
  <2>1. stack # <<>>
    BY <1>1, <1>10 DEF WalkTyped
  <2>2. QED
    BY <1>7, <1>10, <2>1 DEF StatFails
<1>11. ASSUME pc = "reading", NEW c \in Nodes, stack' = Taken(c), UNCHANGED handled
       PROVE  ComesOnce' /\ Entered'
  <2>1. stack # <<>>
    BY <1>1, <1>11 DEF WalkTyped
  <2>2. /\ Len(stack') = Len(stack)
        /\ \A i \in 1 .. Len(stack) :
             /\ stack'[i].dir = stack[i].dir
             /\ stack'[i].left = IF i = Len(stack) THEN stack[i].left \ {c} ELSE stack[i].left
    BY <1>1, <1>11, <2>1, EntryTaken
  <2>3. Len(stack') <= Len(stack)
    BY <1>1, <2>2
  <2>4. \A i \in 1 .. Len(stack') : /\ stack'[i].dir = stack[i].dir
                                    /\ stack'[i].left \subseteq stack[i].left
    BY <2>2
  <2>5. QED
    BY <1>1, <1>2, <1>11, <2>3, <2>4, Shrinks
<1>12. ASSUME NEW c \in Nodes, SkipEntry(c)
       PROVE  NotYet'
  <2>1. pc = "reading" /\ pc' = pc /\ stack' = Taken(c) /\ UNCHANGED <<handled, handlings>>
    BY <1>12 DEF SkipEntry
  <2>2. Ahead'
    BY <2>1 DEF Ahead
  <2>3. QED
    BY <1>3, <1>11, <2>1, <2>2 DEF NotYet
<1>13. ASSUME NEW c \in Nodes, pc = "reading", c \in Last(stack).left, Entry(c)
       PROVE  NotYet'
  <2>1. PICK p : p = Append(Here, c)
    OBVIOUS
  <2>2. stack' = Taken(c)
    BY <1>13 DEF Entry
  <2>3. /\ p \in Seq(Nodes) /\ p \notin handled /\ ~Below(p, p)
        /\ Last(p) = c /\ c \notin Last(stack').left
        /\ \A q \in handled : ~Below(q, p)
        /\ \A k \in 1 .. Len(stack') : \A d \in stack'[k].left :
             ~Through(p, k, d)' /\ \A q \in handled : ~Through(q, k, d)'
        /\ Entered'
    BY <1>1, <1>13, <2>1, <2>2, NewEntry
  <2>4. CASE Handle(p)
    <3>1. handled' = handled \cup {p} /\ handlings' = handlings + 1 /\ target' = p
      BY <2>4 DEF Handle
    <3>2. HandledOnce'
      <4>1. IsFiniteSet(handled \cup {p}) /\ Cardinality(handled \cup {p}) = Cardinality(handled) + 1
        BY <1>2, <2>3, FS_AddElement DEF HandledOnce
      <4>2. QED
        BY <1>2, <2>3, <3>1, <4>1 DEF HandledOnce
    <3>3. ComesOnce'
      BY <2>3, <3>1 DEF ComesOnce
    <3>4. Ahead'
      BY <2>3, <3>1 DEF Ahead, Below
    <3>5. QED
      BY <2>3, <3>2, <3>3, <3>4 DEF NotYet
  <2>5. CASE ~Handle(p)
    <3>1. UNCHANGED <<handled, handlings>> /\ (target' = p \/ pc' = pc)
      BY <1>13, <2>1, <2>5, Zenon DEF Entry
    <3>2. ComesOnce'
      BY <2>3, <3>1 DEF ComesOnce
    <3>3. Ahead'
      BY <1>13, <2>3, <3>1 DEF Ahead, Below
    <3>4. QED
      BY <1>3, <2>3, <3>1, <3>2, <3>3 DEF NotYet
  <2>6. QED
    BY <2>4, <2>5
<1>14. CASE HandlerEnds
  <2>1. pc = "handling" /\ UNCHANGED <<stack, target, handled, handlings>>
    BY <1>14 DEF HandlerEnds, HandlerReturns
  <2>2. ComesOnce' /\ Entered' /\ Ahead'
    BY <1>2, <2>1 DEF ComesOnce, Entered, Ahead, Through
  <2>3. QED
    BY <1>3, <2>1, <2>2 DEF NotYet
<1>15. CASE UNCHANGED vars
  BY <1>4, <1>15 DEF vars
<1>16. CASE HandlerRuns
  BY <1>4, <1>16 DEF HandlerRuns
<1>17. CASE Others
  BY <1>4, <1>17 DEF Others
<1>18. QED
  BY <1>5, <1>6, <1>8, <1>9, <1>10, <1>12, <1>13, <1>14, <1>15, <1>16, <1>17, StepCases

-----------------------------------------------------------------------------
\* The walk hands out all.

\* A path goes on with what its last node holds.
LEMMA RealAppend ==
  ASSUME NEW p, Real(p), NEW c \in Nodes, c \in world.children[Last(p)],
         NEW q, q = Append(p, c)
  PROVE  Real(q) /\ Len(q) = Len(p) + 1 /\ Last(q) = c /\ Len(p) \in Nat \ {0}
<1> DEFINE n == Len(p)
<1>1. p \in Seq(Nodes) /\ n \in Nat \ {0} /\ p[1] = Root /\ Last(p) = p[n]
  <2>1. p \in Seq(Nodes) /\ p # <<>> /\ p[1] = Root
    BY DEF Real
  <2>2. n \in Nat \ {0}
    BY <2>1, LenProperties, EmptySeq
  <2>3. QED
    BY <2>1, <2>2 DEF Last
<1>2. /\ q \in Seq(Nodes) /\ Len(q) = n + 1 /\ q[n + 1] = c
      /\ \A i \in 1 .. n : q[i] = p[i]
  BY <1>1, AppendProperties
<1>3. \A i \in 1 .. n - 1 : p[i + 1] \in world.children[p[i]]
  BY DEF Real
<1> HIDE DEF n
<1>4. ASSUME NEW i \in 1 .. n PROVE q[i + 1] \in world.children[q[i]]
  <2>1. CASE i = n
    BY <1>1, <1>2, <2>1
  <2>2. CASE i # n
    <3>1. i \in 1 .. n - 1 /\ i + 1 \in 1 .. n
      BY <1>1, <2>2
    <3>2. QED
      BY <1>2, <1>3, <3>1
  <2>3. QED
    BY <2>1, <2>2
<1>5. q # <<>> /\ q[1] = Root /\ Last(q) = c
  <2>1. Len(q) # 0 /\ 1 \in 1 .. n
    BY <1>1, <1>2
  <2>2. QED
    BY <1>1, <1>2, <2>1, EmptySeq DEF Last
<1>6. Len(q) - 1 = n
  BY <1>1, <1>2
<1>7. Real(q)
  BY <1>2, <1>4, <1>5, <1>6, Zenon DEF Real
<1>8. QED
  BY <1>1, <1>2, <1>5, <1>7 DEF n

\* The first nodes of a path are a path.
LEMMA RealPrefix ==
  ASSUME NEW p, Real(p), NEW m \in 1 .. Len(p)
  PROVE  /\ Real(SubSeq(p, 1, m)) /\ Len(SubSeq(p, 1, m)) = m
         /\ \A i \in 1 .. m : SubSeq(p, 1, m)[i] = p[i]
<1>1. /\ p \in Seq(Nodes) /\ Len(p) \in Nat /\ p[1] = Root
      /\ \A i \in 1 .. Len(p) - 1 : p[i + 1] \in world.children[p[i]]
  BY LenProperties DEF Real
<1> DEFINE q == SubSeq(p, 1, m)
<1>2. m \in 0 .. Len(p) /\ 0 \in 0 .. Len(p) /\ 0 + 1 = 1 /\ m - 0 = m /\ 0 < m /\ 1 \in 1 .. m
  BY <1>1
<1>3. q \in Seq(Nodes) /\ Len(q) = m /\ \A i \in 1 .. m : q[i] = p[0 + i]
  BY <1>1, <1>2, Part
<1>4. \A i \in 1 .. m : q[i] = p[i]
  BY <1>3
<1> HIDE DEF q
<1>5. ASSUME NEW i \in 1 .. m - 1 PROVE q[i + 1] \in world.children[q[i]]
  <2>1. i \in 1 .. m /\ i + 1 \in 1 .. m /\ i \in 1 .. Len(p) - 1
    BY <1>1
  <2>2. QED
    BY <1>1, <1>4, <2>1
<1>6. q # <<>> /\ q[1] = Root
  BY <1>1, <1>2, <1>3, <1>4, EmptySeq
<1>7. Real(q)
  BY <1>3, <1>5, <1>6 DEF Real
<1>8. QED
  BY <1>3, <1>4, <1>7 DEF q

\* What goes on from path p to the next length.
Longer(P) == UNION {{Append(p, c) : c \in world.children[Last(p)]} : p \in P}

\* Its members.
LEMMA LongerHas ==
  ASSUME NEW P, NEW q
  PROVE  q \in Longer(P) <=> \E p \in P : \E c \in world.children[Last(p)] : q = Append(p, c)
<1> DEFINE E(p) == {Append(p, c) : c \in world.children[Last(p)]}
<1>1. Longer(P) = UNION {E(p) : p \in P}
  BY DEF Longer
<1>2. \A p : q \in E(p) <=> \E c \in world.children[Last(p)] : q = Append(p, c)
  OBVIOUS
<1> HIDE DEF E
<1>3. q \in UNION {E(p) : p \in P} <=> \E p \in P : q \in E(p)
  OBVIOUS
<1>4. QED
  BY <1>1, <1>2, <1>3

\* The paths of n nodes.
RealOf(n) == {p \in Seq(Nodes) : Real(p) /\ Len(p) = n}

\* The paths of one node.
LEMMA RealOfOne == RealOf(1) = {<<Root>>}
<1>1. Root \in Nodes
  BY FileSystemAssumption
<1>2. <<Root>> \in Seq(Nodes) /\ Len(<<Root>>) = 1 /\ <<Root>>[1] = Root
  BY <1>1
<1>3. <<Root>> # <<>>
  OBVIOUS
<1>4. <<Root>> \in RealOf(1)
  BY <1>2, <1>3 DEF Real, RealOf
<1>5. ASSUME NEW p \in RealOf(1) PROVE p = <<Root>>
  <2>1. p \in Seq(Nodes) /\ Len(p) = 1 /\ p[1] = Root
    BY DEF Real, RealOf
  <2>2. QED
    BY <1>2, <2>1
<1>6. QED
  BY <1>4, <1>5

\* The paths of n + 1 nodes.
LEMMA RealOfMore ==
  ASSUME world \in Worlds, NEW n \in Nat \ {0}
  PROVE  RealOf(n + 1) = Longer(RealOf(n))
<1>1. ASSUME NEW q \in RealOf(n + 1) PROVE q \in Longer(RealOf(n))
  <2>1. /\ q \in Seq(Nodes) /\ Len(q) = n + 1 /\ Real(q)
        /\ \A i \in 1 .. Len(q) - 1 : q[i + 1] \in world.children[q[i]]
    BY DEF Real, RealOf
  <2>2. n \in 1 .. Len(q) /\ n + 1 \in 1 .. Len(q) /\ n \in 1 .. Len(q) - 1
    BY <2>1
  <2>3. PICK p : p = SubSeq(q, 1, n)
    OBVIOUS
  <2>4. Real(p) /\ Len(p) = n /\ \A i \in 1 .. n : p[i] = q[i]
    BY <2>1, <2>2, <2>3, RealPrefix
  <2>5. p \in Seq(Nodes) /\ p \in RealOf(n)
    BY <2>4 DEF Real, RealOf
  <2>6. PICK c \in Nodes : c = q[n + 1]
    BY <2>1, <2>2, ElementOfSeq
  <2>7. Last(p) = q[n] /\ c \in world.children[Last(p)]
    BY <2>1, <2>2, <2>4, <2>6 DEF Last
  <2>8. q = Append(p, c)
    <3>1. /\ Append(p, c) \in Seq(Nodes) /\ Len(Append(p, c)) = n + 1
          /\ Append(p, c)[n + 1] = c
          /\ \A i \in 1 .. n : Append(p, c)[i] = p[i]
      BY <2>4, <2>5, <2>6, AppendProperties
    <3>2. \A i \in 1 .. n + 1 : i \in 1 .. n \/ i = n + 1
      OBVIOUS
    <3>3. \A i \in 1 .. n + 1 : q[i] = Append(p, c)[i]
      BY <2>4, <2>6, <3>1, <3>2
    <3>4. QED
      BY <2>1, <3>1, <3>3, SeqEqual
  <2>9. QED
    BY <2>5, <2>7, <2>8, LongerHas
<1>2. ASSUME NEW p \in RealOf(n), NEW c \in world.children[Last(p)]
      PROVE  Append(p, c) \in RealOf(n + 1)
  <2>1. Real(p) /\ p \in Seq(Nodes) /\ Len(p) = n
    BY DEF RealOf
  <2>2. c \in Nodes
    <3>1. n \in 1 .. Len(p) /\ Last(p) = p[n]
      BY <2>1 DEF Last
    <3>2. Last(p) \in Nodes
      BY <2>1, <3>1, ElementOfSeq
    <3>3. world.children[Last(p)] \in SUBSET Nodes
      BY <3>2, FileSystemAssumption
    <3>4. QED
      BY <3>3
  <2>3. PICK q : q = Append(p, c)
    OBVIOUS
  <2>4. Real(q) /\ Len(q) = n + 1
    BY <2>1, <2>2, <2>3, RealAppend
  <2>5. QED
    BY <2>3, <2>4 DEF Real, RealOf
<1>3. ASSUME NEW q \in Longer(RealOf(n)) PROVE q \in RealOf(n + 1)
  <2>1. PICK p \in RealOf(n) : \E c \in world.children[Last(p)] : q = Append(p, c)
    BY LongerHas
  <2>2. QED
    BY <1>2, <2>1
<1>4. QED
  BY <1>1, <1>3

\* PathsOf, as it is defined.
PathsBelow(f) ==
  f = [n \in 1 .. MaxPath + 1 |-> IF n = 1 THEN {<<Root>>} ELSE Longer(f[n - 1])]

\* PathsOf is what its definition says.
LEMMA PathsOfIs ==
  ASSUME world \in Worlds
  PROVE  \A n \in 1 .. MaxPath + 1 : PathsOf[n] = RealOf(n)
<1> DEFINE m == MaxPath + 1
<1>1. m \in Nat \ {0}
  BY FileSystemAssumption
<1>2. PathsOf = CHOOSE f : PathsBelow(f)
  BY DEF PathsOf, PathsBelow, Longer
<1>3. ASSUME NEW n \in 1 .. m, n # 1
      PROVE  n - 1 \in 1 .. m /\ RealOf(n) = Longer(RealOf(n - 1))
  <2>1. n - 1 \in Nat \ {0} /\ n - 1 \in 1 .. m /\ (n - 1) + 1 = n
    BY <1>1, <1>3
  <2>2. QED
    BY <2>1, RealOfMore
<1>4. \E f : PathsBelow(f)
  <2> DEFINE f == [n \in 1 .. m |-> RealOf(n)]
  <2>1. \A n \in 1 .. m : f[n] = IF n = 1 THEN {<<Root>>} ELSE Longer(f[n - 1])
    BY <1>3, RealOfOne
  <2>2. f = [n \in 1 .. m |-> f[n]]
    OBVIOUS
  <2> HIDE DEF f
  <2>3. f = [n \in 1 .. m |-> IF n = 1 THEN {<<Root>>} ELSE Longer(f[n - 1])]
    BY <2>1, <2>2
  <2>4. QED
    BY <2>3 DEF PathsBelow
<1>5. PathsBelow(PathsOf)
  BY <1>2, <1>4, Zenon
<1>6. PICK f : f = PathsOf
  OBVIOUS
<1>7. \A n \in 1 .. m : f[n] = IF n = 1 THEN {<<Root>>} ELSE Longer(f[n - 1])
  BY <1>5, <1>6 DEF PathsBelow
<1> HIDE DEF m
<1>8. \A n \in 1 .. m : f[n] = RealOf(n)
  <2> DEFINE D == {n \in 1 .. m : f[n] # RealOf(n)}
  <2>1. SUFFICES ASSUME D # {} PROVE FALSE
    OBVIOUS
  <2>2. PICK n \in D : \A i \in D : n <= i
    <3>1. D \in SUBSET Nat
      OBVIOUS
    <3>2. QED
      BY <2>1, <3>1, LeastNatural
  <2>3. n \in 1 .. m /\ f[n] # RealOf(n)
    BY <2>2
  <2>4. n # 1
    BY <1>7, <2>3, RealOfOne
  <2>5. n - 1 \in 1 .. m /\ RealOf(n) = Longer(RealOf(n - 1))
    BY <1>3, <2>3, <2>4
  <2>6. n - 1 \notin D
    <3>1. ~(n <= n - 1)
      BY <2>3
    <3> HIDE DEF D
    <3>2. QED
      BY <2>2, <3>1
  <2>7. f[n - 1] = RealOf(n - 1)
    BY <2>5, <2>6
  <2>8. f[n] = Longer(f[n - 1])
    BY <1>7, <2>3, <2>4, Zenon
  <2>9. QED
    BY <2>3, <2>5, <2>7, <2>8
<1>9. QED
  BY <1>6, <1>8 DEF m

\* What Tame and Wanted say.
LEMMA WantedIs ==
  ASSUME world \in Worlds, Tame
  PROVE  Ordinary /\ \A p : p \in Wanted <=> Want(p)
<1>0. MaxPath \in Nat
  BY FileSystemAssumption
<1>1. ASSUME NEW p, Real(p) PROVE Len(p) \in Nat /\ Len(p) <= MaxPath /\ p \in Seq(Nodes)
  <2>1. p \in Seq(Nodes) /\ Len(p) \in Nat
    BY <1>1, LenProperties DEF Real
  <2>2. ASSUME Len(p) > MaxPath PROVE FALSE
    <3>1. MaxPath + 1 \in 1 .. Len(p) /\ MaxPath + 1 \in 1 .. MaxPath + 1
      BY <1>0, <2>1, <2>2
    <3>2. PICK q : q = SubSeq(p, 1, MaxPath + 1)
      OBVIOUS
    <3>3. Real(q) /\ Len(q) = MaxPath + 1
      BY <1>1, <3>1, <3>2, RealPrefix
    <3>4. q \in RealOf(MaxPath + 1)
      BY <3>3 DEF Real, RealOf
    <3>5. QED
      BY <3>1, <3>4, PathsOfIs DEF Tame
  <2>3. QED
    BY <1>0, <2>1, <2>2
<1>2. Ordinary
  BY <1>1 DEF Ordinary, Tame
<1>3. ASSUME NEW p PROVE p \in Paths <=> Real(p) /\ Len(p) > 1
  <2>1. \A n \in 2 .. MaxPath : PathsOf[n] = RealOf(n)
    <3>1. \A n \in 2 .. MaxPath : n \in 1 .. MaxPath + 1
      BY <1>0
    <3>2. QED
      BY <3>1, PathsOfIs
  <2>2. ASSUME p \in Paths PROVE Real(p) /\ Len(p) > 1
    <3>1. PICK n \in 2 .. MaxPath : p \in PathsOf[n]
      BY <2>2 DEF Paths
    <3>2. p \in RealOf(n)
      BY <2>1, <3>1
    <3>3. QED
      BY <3>2 DEF RealOf
  <2>3. ASSUME Real(p), Len(p) > 1 PROVE p \in Paths
    <3>1. p \in RealOf(Len(p)) /\ Len(p) \in 2 .. MaxPath
      BY <1>0, <1>1, <2>3 DEF RealOf
    <3>2. p \in PathsOf[Len(p)]
      BY <2>1, <3>1
    <3>3. QED
      BY <3>1, <3>2 DEF Paths
  <2>4. QED
    BY <2>2, <2>3
<1>4. \A p : p \in Wanted <=> Want(p)
  BY <1>3 DEF Wanted, Want
<1>5. QED
  BY <1>2, <1>4

\* What is on the stack, and goes on below it, in the walk of an ordinary tree.
LEMMA OnPathsFacts ==
  ASSUME Typed, Untouched, Covers, changes = 0, Ordinary
  PROVE  /\ kind = world.kind /\ NoneAstray /\ NoneFailed /\ OnPaths /\ NoneMissed
         /\ \A n \in Nodes : kind[n] \in {"file", "dir"}
         /\ \A p : Real(p) => StatOK(p)
<1>1. kind = world.kind /\ \A n \in Nodes : kind[n] \in {"file", "dir"}
  BY DEF Untouched, Ordinary
<1>2. ASSUME NEW p, Real(p) PROVE StatOK(p)
  <2>1. p \in Seq(Nodes) /\ Len(p) \in Nat \ {0} /\ Len(p) <= MaxPath
    <3>1. p \in Seq(Nodes) /\ p # <<>> /\ Len(p) <= MaxPath
      BY <1>2 DEF Real, Ordinary
    <3>2. QED
      BY <3>1, LenProperties, EmptySeq
  <2>2. \A i \in 1 .. Len(p) : p[i] \in Nodes
    BY <2>1, ElementOfSeq
  <2>3. DOMAIN p = 1 .. Len(p) /\ Len(p) \in 1 .. Len(p)
    BY <2>1, LenProperties
  <2>4. Exists(p)
    BY <1>1, <2>1, <2>2, <2>3 DEF Exists
  <2>5. kind[Last(p)] # "dangling"
    BY <1>1, <2>2, <2>3 DEF Last
  <2>6. QED
    BY <2>4, <2>5 DEF StatOK
<1>3. QED
  BY <1>1, <1>2 DEF Covers

\* In an ordinary tree opendir succeeds.
LEMMA OpenSucceeds ==
  ASSUME Typed, Untouched, Covers, changes = 0, Ordinary, pc = "opening"
  PROVE  CanOpenDir(target)
<1>1. /\ kind = world.kind /\ NoneAstray /\ OnPaths /\ \A p : Real(p) => StatOK(p)
  BY OnPathsFacts
<1>2. Real(target) /\ kind[Last(target)] = "dir"
  BY <1>1 DEF OnPaths, Descends
<1>3. Exists(target) /\ Len(target) <= MaxPath /\ MaxPath <= MaxOpen
  BY <1>1, <1>2 DEF StatOK, Ordinary
<1>4. Len(target) = Len(stack) + 1 /\ Len(stack) \in Nat
  BY TargetNode, HereFacts DEF Typed
<1>5. descriptors = Len(stack)
  <2>1. at # "measured"
    BY DEF Typed, ReaderTyped
  <2>2. QED
    BY <1>1, <1>4, <2>1 DEF NoneAstray
<1>6. descriptors < MaxOpen
  <2>1. MaxPath \in Nat /\ MaxOpen \in Nat
    BY FileSystemAssumption
  <2>2. QED
    BY <1>3, <1>4, <1>5, <2>1
<1>7. QED
  BY <1>2, <1>3, <1>6 DEF CanOpenDir

\* The path p leads from the root through the stack to the entry c.
Leads(p, c) ==
  /\ Real(p) /\ Len(p) = Len(stack) + 1 /\ Last(p) = c
  /\ Len(stack) \in Nat \ {0} /\ p[Len(stack) + 1] = c
  /\ \A i \in 1 .. Len(stack) : p[i] = stack[i].dir

\* An entry of the top directory lies on a path, which stat finds.
LEMMA EntryReal ==
  ASSUME Typed, Untouched, Covers, changes = 0, Ordinary, pc = "reading",
         NEW c \in Nodes, c \in Last(stack).left, NEW p, p = Append(Here, c)
  PROVE  Leads(p, c) /\ StatOK(p)
<1>1. OnPaths /\ \A q : Real(q) => StatOK(q)
  BY OnPathsFacts
<1>2. WalkTyped /\ stack # <<>> /\ stack \in Seq(Frames)
  BY DEF Typed, WalkTyped
<1>3. Len(stack) \in Nat \ {0} /\ Last(stack) = stack[Len(stack)]
  BY <1>2, TopFrame
<1>4. PICK h : h = Here
  OBVIOUS
<1>5. /\ h \in Seq(Nodes) /\ Len(h) = Len(stack)
      /\ \A i \in 1 .. Len(stack) : h[i] = stack[i].dir
  BY <1>2, <1>4, HereFacts
<1>6. Last(h) = stack[Len(stack)].dir
  BY <1>3, <1>5 DEF Last
<1>7. c \in world.children[Last(h)] /\ Real(h)
  BY <1>1, <1>2, <1>3, <1>4, <1>6 DEF OnPaths
<1>8. Real(p) /\ Len(p) = Len(stack) + 1 /\ Last(p) = c
  BY <1>4, <1>5, <1>7, RealAppend
<1>9. p[Len(stack) + 1] = c /\ \A i \in 1 .. Len(stack) : p[i] = stack[i].dir
  BY <1>4, <1>5, AppendProperties
<1>10. QED
  BY <1>1, <1>3, <1>8, <1>9 DEF Leads

\* What comes below a directory that is opened is to come below its entries.
LEMMA OpenedCovers ==
  ASSUME Typed, Typed', Untouched, Covers, changes = 0, Ordinary, world' = world, OpenDir,
         UNCHANGED at
  PROVE  NoneAstray' /\ NoneFailed' /\ OnPaths' /\ NoneMissed'
<1> DEFINE n == Len(stack)
<1>1. /\ kind = world.kind /\ NoneAstray /\ NoneFailed /\ OnPaths /\ NoneMissed
      /\ \A m \in Nodes : kind[m] \in {"file", "dir"}
  BY OnPathsFacts
<1>2. /\ WalkTyped /\ WalkTyped' /\ DiskTyped /\ stack \in Seq(Frames) /\ n \in Nat
      /\ pc = "opening" /\ pc' = "reading" /\ UNCHANGED <<target, handled, result, mode>>
      /\ descriptors' = descriptors + 1 /\ stack' = Append(stack, Frame(Last(target)))
  BY LenProperties DEF Typed, WalkTyped, OpenDir
<1>3. /\ target \in Seq(Nodes) /\ Last(target) \in Nodes /\ Len(target) = n + 1
      /\ target[n + 1] = Last(target) /\ \A i \in 1 .. n : target[i] = stack[i].dir
  BY <1>2, TargetNode
<1>4. PICK f \in Frames : /\ f = Frame(Last(target)) /\ f.dir = Last(target) /\ f.ret = "true"
                          /\ f.left = world.children[Last(target)]
  <2>1. world.children[Last(target)] \in SUBSET Nodes
    BY <1>2, <1>3, FileSystemAssumption DEF DiskTyped
  <2>2. {c \in world.children[Last(target)] : kind[c] # "gone"} = world.children[Last(target)]
    BY <1>1, <2>1
  <2>3. /\ Frame(Last(target)) \in Frames /\ Frame(Last(target)).dir = Last(target)
        /\ Frame(Last(target)).left = world.children[Last(target)]
        /\ Frame(Last(target)).ret = "true"
    BY <1>3, <2>1, <2>2 DEF Frame, Frames
  <2>4. QED
    BY <2>3
<1>5. /\ Len(stack') = n + 1 /\ stack'[n + 1] = f /\ \A i \in 1 .. n : stack'[i] = stack[i]
  BY <1>2, <1>4, AppendProperties
<1>6. \A i \in 1 .. n + 1 : i \in 1 .. n \/ i = n + 1
  BY <1>2
<1> HIDE DEF n
<1>7. NoneAstray'
  <2>1. descriptors = n + (IF at = "measured" THEN 1 ELSE 0) /\ descriptors \in Int
    BY <1>1, <1>2 DEF NoneAstray, DiskTyped, n
  <2>2. descriptors' = Len(stack') + (IF at = "measured" THEN 1 ELSE 0)
    BY <1>2, <1>5, <2>1
  <2>3. QED
    BY <2>2 DEF NoneAstray
<1>8. NoneFailed'
  <2>1. \A k \in 1 .. n : stack[k].ret = "true"
    BY <1>1 DEF NoneFailed, n
  <2>2. \A k \in 1 .. n + 1 : stack'[k].ret = "true"
    BY <1>4, <1>5, <1>6, <2>1
  <2>3. result' # "false" /\ result' = "none"
    BY <1>1, <1>2 DEF NoneFailed
  <2>4. QED
    BY <1>5, <2>2, <2>3 DEF NoneFailed
<1>9. \A i \in 1 .. n + 1 : target[i] = stack'[i].dir
  BY <1>3, <1>4, <1>5, <1>6
<1>10. OnPaths'
  <2>1. \A k \in 1 .. n : stack[k].left \subseteq world.children[stack[k].dir]
    BY <1>1 DEF OnPaths, n
  <2>2. \A k \in 1 .. n + 1 : stack'[k].left \subseteq world.children[stack'[k].dir]
    BY <1>4, <1>5, <1>6, <2>1
  <2>3. Here' = target
    <3>1. /\ Here' \in Seq(Nodes) /\ Len(Here') = Len(stack')
          /\ \A i \in 1 .. Len(stack') : Here'[i] = stack'[i].dir
      BY <1>2, Dirs DEF Here, WalkTyped
    <3>2. QED
      BY <1>3, <1>5, <1>9, <3>1, SeqEqual
  <2>4. Real(target)
    BY <1>1, <1>2 DEF OnPaths
  <2>5. Real(Here)'
    BY <2>3, <2>4 DEF Real
  <2>6. pc' = "reading" /\ ~Descends'
    BY <1>2 DEF Descends
  <2>7. QED
    BY <1>5, <2>2, <2>5, <2>6 DEF OnPaths
<1>11. ASSUME NEW p, Want(p)', p \notin handled' PROVE ToCome(p)'
  <2>1. Want(p)
    BY <1>2, <1>11 DEF Want, Real
  <2>2. ToCome(p)
    BY <1>1, <1>2, <1>11, <2>1 DEF NoneMissed
  <2>3. CASE \E k \in 1 .. n : \E c \in stack[k].left : Through(p, k, c)
    <3>1. PICK k \in 1 .. n : \E c \in stack[k].left : Through(p, k, c)
      BY <2>3
    <3>5. PICK c \in stack[k].left : Through(p, k, c)
      BY <3>1
    <3>2. k \in 1 .. n + 1 /\ \A i \in 1 .. k : i \in 1 .. n
      BY <1>2
    <3>3. Through(p, k, c)' /\ c \in stack'[k].left
      BY <1>5, <3>1, <3>5, <3>2 DEF Through
    <3>4. QED
      BY <1>5, <3>2, <3>3 DEF ToCome
  <2>4. CASE Below(p, target)
    <3>1. PICK m \in Nat : m = n + 1
      BY <1>2
    <3>2. /\ p \in Seq(Nodes) /\ Len(p) \in Nat /\ Len(p) > m
          /\ \A i \in 1 .. m : p[i] = stack'[i].dir
      BY <1>3, <1>9, <2>1, <2>4, <3>1, LenProperties DEF Below, Want, Real
    <3>3. m \in 1 .. Len(p) - 1 /\ m \in 1 .. Len(stack') /\ m \in 1 .. m
      BY <1>2, <1>5, <3>1, <3>2
    <3>4. PICK c : c = p[m + 1]
      OBVIOUS
    <3>5. c \in world.children[p[m]]
      BY <2>1, <3>3, <3>4 DEF Want, Real
    <3>6. c \in stack'[m].left
      BY <1>4, <1>5, <3>1, <3>2, <3>3, <3>5
    <3>7. Through(p, m, c)'
      BY <3>2, <3>4 DEF Through
    <3>8. QED
      BY <3>3, <3>6, <3>7 DEF ToCome
  <2>5. QED
    BY <2>2, <2>3, <2>4 DEF ToCome, n
<1>12. NoneMissed'
  BY <1>11 DEF NoneMissed
<1>13. QED
  BY <1>7, <1>8, <1>10, <1>12

\* Below a directory that has ended nothing was to come.
LEMMA EndedCovers ==
  ASSUME Typed, Typed', Untouched, Covers, changes = 0, Ordinary, world' = world, EndOfDir,
         UNCHANGED at
  PROVE  NoneAstray' /\ NoneFailed' /\ OnPaths' /\ NoneMissed'
<1> DEFINE n == Len(stack)
<1>1. NoneAstray /\ NoneFailed /\ OnPaths /\ NoneMissed
  BY OnPathsFacts
<1>2. /\ WalkTyped /\ WalkTyped' /\ DiskTyped /\ stack \in Seq(Frames) /\ stack # <<>>
      /\ pc = "reading" /\ UNCHANGED <<target, handled, mode>> /\ Last(stack).left = {}
      /\ descriptors' = descriptors - 1 /\ Return(Front(stack), Last(stack).ret)
  BY DEF Typed, WalkTyped, EndOfDir
<1>3. /\ n \in Nat \ {0} /\ Last(stack) = stack[n] /\ n \in 1 .. n
      /\ Front(stack) \in Seq(Frames) /\ Len(Front(stack)) = n - 1
      /\ \A i \in 1 .. n - 1 : Front(stack)[i] = stack[i]
  BY <1>2, TopFrame
<1> HIDE DEF n
<1>4. \A k \in 1 .. n : stack[k].ret = "true"
  BY <1>1 DEF NoneFailed, n
<1>5. Return(Front(stack), "true")
  BY <1>2, <1>3, <1>4
<1>6. /\ stack' \in Seq(Frames) /\ Len(stack') = n - 1
      /\ \A i \in 1 .. n - 1 : /\ stack'[i].dir = stack[i].dir /\ stack'[i].left = stack[i].left
                               /\ stack'[i].ret = "true"
      /\ pc' = IF stack' = <<>> THEN "idle" ELSE "reading"
      /\ result' = IF stack' = <<>> THEN "true" ELSE result
  <2>1. \A i \in 1 .. n - 1 : i \in 1 .. n
    BY <1>3
  <2>2. /\ stack' \in Seq(Frames) /\ Len(stack') = n - 1
        /\ \A i \in 1 .. n - 1 : /\ stack'[i].dir = Front(stack)[i].dir
                                 /\ stack'[i].left = Front(stack)[i].left
                                 /\ stack'[i].ret = IF i = n - 1 THEN "true"
                                                    ELSE Front(stack)[i].ret
        /\ pc' = IF stack' = <<>> THEN "idle" ELSE "reading"
        /\ result' = IF stack' = <<>> THEN "true" ELSE result
    BY <1>3, <1>5, Returned, SMTT(30)
  <2>3. QED
    BY <1>3, <1>4, <2>1, <2>2
<1>7. NoneAstray'
  <2>1. descriptors = n + (IF at = "measured" THEN 1 ELSE 0) /\ descriptors \in Int
    BY <1>1, <1>2 DEF NoneAstray, DiskTyped, n
  <2>2. descriptors' = Len(stack') + (IF at = "measured" THEN 1 ELSE 0)
    BY <1>2, <1>3, <1>6, <2>1
  <2>3. QED
    BY <2>2 DEF NoneAstray
<1>8. NoneFailed'
  <2>1. result = "none"
    BY <1>1, <1>2 DEF NoneFailed
  <2>2. result' # "false" /\ (result' = "none" \/ pc' = "idle")
    BY <1>6, <2>1
  <2>3. QED
    BY <1>6, <2>2 DEF NoneFailed
<1>9. \A i \in 1 .. n - 1 : i \in 1 .. n
  BY <1>3
<1>10. OnPaths'
  <2>1. \A k \in 1 .. n : stack[k].left \subseteq world.children[stack[k].dir]
    BY <1>1 DEF OnPaths, n
  <2>2. \A k \in 1 .. n - 1 : stack'[k].left \subseteq world.children[stack'[k].dir]
    BY <1>6, <1>9, <2>1
  <2>3. ASSUME stack' # <<>> PROVE Real(Here)'
    <3>1. PICK h : h = Here
      OBVIOUS
    <3>2. Real(h) /\ Len(h) = n /\ \A i \in 1 .. n : h[i] = stack[i].dir
      BY <1>1, <1>2, <3>1, HereFacts DEF OnPaths, n
    <3>3. n - 1 \in 1 .. n
      BY <1>3, <1>6, <2>3, EmptySeq
    <3>4. PICK g : g = SubSeq(h, 1, n - 1)
      OBVIOUS
    <3>5. Real(g) /\ Len(g) = n - 1 /\ \A i \in 1 .. n - 1 : g[i] = h[i]
      BY <3>2, <3>3, <3>4, RealPrefix
    <3>6. /\ Here' \in Seq(Nodes) /\ Len(Here') = n - 1
          /\ \A i \in 1 .. n - 1 : Here'[i] = stack'[i].dir
      BY <1>2, <1>6, Dirs DEF Here
    <3>7. \A i \in 1 .. n - 1 : Here'[i] = g[i]
      BY <1>6, <1>9, <3>2, <3>5, <3>6
    <3>8. g \in Seq(Nodes)
      BY <3>5 DEF Real
    <3>9. Here' = g
      BY <3>5, <3>6, <3>7, <3>8, SeqEqual
    <3>10. QED
      BY <3>5, <3>9 DEF Real
  <2>4. pc' \in {"idle", "reading"} /\ ~Descends'
    BY <1>6 DEF Descends
  <2>5. QED
    BY <1>6, <2>2, <2>3, <2>4 DEF OnPaths
<1>11. ASSUME NEW p, Want(p)', p \notin handled' PROVE ToCome(p)'
  <2>1. Want(p)
    BY <1>2, <1>11 DEF Want, Real
  <2>2. ToCome(p) /\ ~Descends
    BY <1>1, <1>2, <1>11, <2>1 DEF NoneMissed, Descends
  <2>3. PICK k \in 1 .. n : \E c \in stack[k].left : Through(p, k, c)
    BY <2>2 DEF ToCome, n
  <2>4. PICK c \in stack[k].left : Through(p, k, c)
    BY <2>3
  <2>5. k # n
    BY <1>2, <1>3, <2>4
  <2>6. k \in 1 .. n - 1 /\ \A i \in 1 .. k : i \in 1 .. n - 1
    BY <1>3, <2>5
  <2>7. Through(p, k, c)' /\ c \in stack'[k].left
    BY <1>6, <2>4, <2>6 DEF Through
  <2>8. QED
    BY <1>6, <2>6, <2>7 DEF ToCome
<1>12. NoneMissed'
  BY <1>11 DEF NoneMissed
<1>13. QED
  BY <1>7, <1>8, <1>10, <1>12

\* An entry is handed out if it is to be, and so are those below it.
LEMMA EntryCovers ==
  ASSUME Typed, Typed', Untouched, Covers, changes = 0, Ordinary, UNCHANGED <<world, at, mode>>,
         pc = "reading", NEW c \in Nodes, c \in Last(stack).left, Entry(c)
  PROVE  /\ NoneAstray' /\ NoneFailed' /\ OnPaths' /\ NoneMissed'
         /\ \A q \in handled' : q \in handled \/ Want(q)
<1> DEFINE n == Len(stack)
<1>1. /\ kind = world.kind /\ NoneAstray /\ NoneFailed /\ OnPaths /\ NoneMissed
      /\ \A m \in Nodes : kind[m] \in {"file", "dir"}
  BY OnPathsFacts
<1>2. /\ WalkTyped /\ WalkTyped' /\ DiskTyped /\ stack # <<>> /\ stack' = Taken(c)
      /\ UNCHANGED <<descriptors, result>>
  BY DEF Typed, WalkTyped, Entry
<1>3. PICK p : p = Append(Here, c)
  OBVIOUS
<1>4. /\ Real(p) /\ Len(p) = n + 1 /\ Last(p) = c /\ n \in Nat \ {0} /\ p[n + 1] = c
      /\ \A i \in 1 .. n : p[i] = stack[i].dir
  <2>1. Leads(p, c)
    BY <1>3, EntryReal, Zenon
  <2>2. QED
    BY <2>1 DEF Leads
<1>5. /\ stack' \in Seq(Frames) /\ stack' # <<>> /\ Len(stack') = n
      /\ \A i \in 1 .. n :
           /\ stack'[i].dir = stack[i].dir /\ stack'[i].ret = stack[i].ret
           /\ stack'[i].left = IF i = n THEN stack[i].left \ {c} ELSE stack[i].left
      /\ Here' = Here
  BY <1>2, EntryTaken
<1>6. \/ (mode = "directories" <=> IsDir(kind[c])) /\ Handle(p)
      \/ /\ mode = "files" /\ IsDir(kind[c]) /\ target' = p /\ pc' = "opening"
         /\ UNCHANGED handled
      \/ mode = "directories" /\ ~IsDir(kind[c]) /\ UNCHANGED <<pc, target, handled>>
  BY <1>3, Zenon DEF Entry
<1>7. /\ mode \in {"files", "directories"} /\ (IsDir(kind[c]) => kind[c] = "dir")
      /\ IsDir(kind[c]) = IsDir(world.kind[Last(p)]) /\ world.kind[Last(p)] = kind[c]
  BY <1>1, <1>2, <1>4 DEF WalkTyped, IsDir
<1> HIDE DEF n
<1>8. NoneAstray'
  BY <1>1, <1>2, <1>5 DEF NoneAstray, n
<1>9. NoneFailed'
  <2>1. \A k \in 1 .. n : stack'[k].ret = "true"
    BY <1>1, <1>5 DEF NoneFailed, n
  <2>2. result' = "none"
    BY <1>1, <1>2 DEF NoneFailed
  <2>3. QED
    BY <1>5, <2>1, <2>2 DEF NoneFailed
<1>10. OnPaths'
  <2>1. \A k \in 1 .. n : stack'[k].left \subseteq world.children[stack'[k].dir]
    <3>1. \A k \in 1 .. n : stack[k].left \subseteq world.children[stack[k].dir]
      BY <1>1 DEF OnPaths, n
    <3>2. \A k \in 1 .. n : stack'[k].left \subseteq stack[k].left
      BY <1>5
    <3>3. QED
      BY <1>5, <3>1, <3>2
  <2>2. Real(Here)'
    BY <1>1, <1>2, <1>5 DEF OnPaths, Real
  <2>3. pc' \in {"opening", "handling"} => target' = p
    BY <1>6 DEF Handle
  <2>4. Descends' => IsDir(kind[c])
    BY <1>6 DEF Handle, Descends
  <2>5. pc' \in {"opening", "handling"} => Real(target)'
    BY <1>4, <2>3 DEF Real
  <2>6. Descends' => world.kind'[Last(target')] = "dir"
    <3>1. Descends' => pc' \in {"opening", "handling"}
      BY DEF Descends
    <3>2. QED
      BY <1>7, <2>3, <2>4, <3>1
  <2>7. QED
    BY <1>5, <2>1, <2>2, <2>5, <2>6 DEF OnPaths
<1>11. ASSUME NEW q \in handled', q \notin handled PROVE Want(q)
  <2>1. q = p /\ (mode = "directories" <=> IsDir(kind[c]))
    BY <1>6, <1>11 DEF Handle
  <2>2. Len(p) > 1
    BY <1>4
  <2>3. QED
    BY <1>4, <1>7, <2>1, <2>2 DEF Want
<1>12. ASSUME NEW q, Want(q)', q \notin handled' PROVE ToCome(q)'
  <2>1. Want(q) /\ q \in Seq(Nodes) /\ Len(q) \in Nat
    BY <1>12, LenProperties DEF Want, Real
  <2>2. ToCome(q) /\ ~Descends
    <3>1. q \notin handled
      BY <1>6, <1>12 DEF Handle
    <3>2. QED
      BY <1>1, <2>1, <3>1 DEF NoneMissed, Descends
  <2>3. PICK k \in 1 .. n : \E d \in stack[k].left : Through(q, k, d)
    BY <2>2 DEF ToCome, n
  <2>4. PICK d \in stack[k].left : Through(q, k, d)
    BY <2>3
  <2>5. CASE ~(k = n /\ d = c)
    <3>1. d \in stack'[k].left
      BY <1>5, <2>4, <2>5
    <3>2. \A i \in 1 .. k : i \in 1 .. n
      BY <1>4
    <3>3. Through(q, k, d)'
      BY <1>5, <2>4, <3>2 DEF Through
    <3>4. QED
      BY <1>5, <3>1, <3>3 DEF ToCome
  <2>6. CASE k = n /\ d = c
    <3>1. Len(q) > n /\ \A i \in 1 .. n + 1 : q[i] = p[i]
      <4>1. Len(q) > n /\ q[n + 1] = c /\ \A i \in 1 .. n : q[i] = stack[i].dir
        BY <2>4, <2>6 DEF Through
      <4>2. \A i \in 1 .. n + 1 : i \in 1 .. n \/ i = n + 1
        BY <1>4
      <4>3. QED
        BY <1>4, <4>1, <4>2
    <3>2. CASE Len(q) = n + 1
      <4>1. q = p
        BY <1>4, <2>1, <3>1, <3>2, SeqEqual DEF Real
      <4>2. mode = "directories" <=> IsDir(kind[c])
        BY <1>7, <2>1, <4>1 DEF Want
      <4>3. p \in handled'
        BY <1>6, <1>7, <4>2 DEF Handle
      <4>4. QED
        BY <1>12, <4>1, <4>3
    <3>3. CASE Len(q) > n + 1
      <4>1. Below(q, p)
        BY <1>4, <3>1, <3>3 DEF Below
      <4>2. PICK m \in Nat : m = n + 1
        BY <1>4
      <4>3. m \in 1 .. Len(q) - 1 /\ m \in 1 .. m
        BY <1>4, <2>1, <3>3, <4>2
      <4>4. q[m + 1] \in world.children[q[m]] /\ q[m] = c
        BY <1>4, <2>1, <3>1, <4>2, <4>3 DEF Want, Real
      <4>5. IsDir(kind[c])
        <5>1. ~IsDir(world.kind[c]) => world.children[c] = {}
          BY <1>2, FileSystemAssumption DEF DiskTyped
        <5>2. QED
          BY <1>1, <4>4, <5>1
      <4>6. Descends' /\ target' = p
        BY <1>6, <1>7, <4>5 DEF Handle, Descends
      <4>7. QED
        BY <4>1, <4>6 DEF ToCome, Below
    <3>4. QED
      BY <1>4, <2>1, <3>1, <3>2, <3>3
  <2>7. QED
    BY <2>5, <2>6
<1>13. NoneMissed'
  BY <1>12 DEF NoneMissed
<1>14. QED
  BY <1>8, <1>9, <1>10, <1>11, <1>13

\* The first directory of a walk is all that is to come.
LEMMA StartCovers ==
  ASSUME Typed, changes = 0, Ordinary, NoneAstray, world' = world, UNCHANGED at,
         NEW m \in {"files", "directories"}, StartWalk(m)
  PROVE  NoneAstray' /\ NoneFailed' /\ OnPaths' /\ NoneMissed' /\ handled' = {}
<1>1. /\ pc' = "opening" /\ target' = <<Root>> /\ stack' = <<>> /\ stack' = stack
      /\ handled' = {} /\ result' = "none" /\ UNCHANGED descriptors
  BY DEF StartWalk, Typed, WalkTyped
<1>2. Len(stack') = 0
  BY <1>1, EmptySeq
<1>3. Real(<<Root>>) /\ Len(<<Root>>) = 1 /\ Last(<<Root>>) = Root
  BY RealOfOne DEF RealOf, Last
<1>4. NoneAstray' /\ NoneFailed'
  BY <1>1, <1>2 DEF NoneAstray, NoneFailed
<1>5. OnPaths'
  BY <1>1, <1>2, <1>3 DEF OnPaths, Real, Ordinary
<1>6. ASSUME NEW p, Want(p)' PROVE ToCome(p)'
  <2>1. p[1] = Root /\ Len(p) > 1
    BY <1>6 DEF Want, Real
  <2>2. Below(p, <<Root>>)
    BY <1>3, <2>1 DEF Below
  <2>3. QED
    BY <1>1, <2>2 DEF ToCome, Descends, Below
<1>7. QED
  BY <1>1, <1>4, <1>5, <1>6 DEF NoneMissed

\* Every step keeps to it.
LEMMA CoversNext ==
  ASSUME Typed, Typed', Untouched, Covers, [Next]_vars
  PROVE  Covers'
<1> SUFFICES ASSUME changes' = 0, Ordinary'
             PROVE  /\ NoneAstray' /\ NoneFailed' /\ OnPaths' /\ NoneMissed'
                    /\ \A p \in handled' : Want(p)'
  BY DEF Covers
<1>1. world' = world /\ changes = 0 /\ kind' = kind
  BY DiskChanges
<1>2. Ordinary
  BY <1>1 DEF Ordinary, Real
<1>3. /\ kind = world.kind /\ NoneAstray /\ NoneFailed /\ OnPaths /\ NoneMissed
      /\ \A n \in Nodes : kind[n] \in {"file", "dir"}
      /\ \A p : Real(p) => StatOK(p)
  BY <1>1, <1>2, OnPathsFacts
<1>4. \A p \in handled : Want(p)
  BY <1>1, <1>2 DEF Covers
<1>5. UNCHANGED mode => \A p : Want(p)' <=> Want(p)
  BY <1>1 DEF Want, Real
<1>6. UNCHANGED <<pc, mode, stack, target, handled, result>>
        => NoneFailed' /\ OnPaths' /\ NoneMissed' /\ \A p \in handled' : Want(p)'
  <2> SUFFICES ASSUME UNCHANGED <<pc, mode, stack, target, handled, result>>
               PROVE  NoneFailed' /\ OnPaths' /\ NoneMissed' /\ \A p \in handled' : Want(p)'
    OBVIOUS
  <2>1. NoneFailed'
    BY <1>3 DEF NoneFailed
  <2>2. OnPaths'
    BY <1>1, <1>3 DEF OnPaths, Descends, Real, Here
  <2>3. \A p : ToCome(p) => ToCome(p)'
    BY DEF ToCome, Descends, Through, Below
  <2>4. NoneMissed'
    BY <1>3, <1>5, <2>3 DEF NoneMissed
  <2>5. QED
    BY <1>4, <1>5, <2>1, <2>2, <2>4
<1>7. ASSUME NEW m \in {"files", "directories"}, StartWalk(m), UNCHANGED at
      PROVE  /\ NoneAstray' /\ NoneFailed' /\ OnPaths' /\ NoneMissed'
             /\ \A p \in handled' : Want(p)'
  BY <1>1, <1>2, <1>3, <1>7, StartCovers
<1>8. ASSUME OpenDir, UNCHANGED at
      PROVE  /\ NoneAstray' /\ NoneFailed' /\ OnPaths' /\ NoneMissed'
             /\ \A p \in handled' : Want(p)'
  <2>1. UNCHANGED <<mode, handled>>
    BY <1>8 DEF OpenDir
  <2>2. QED
    BY <1>1, <1>2, <1>4, <1>5, <1>8, <2>1, OpenedCovers
<1>9. ~OpenDirFails
  BY <1>1, <1>2, OpenSucceeds DEF OpenDirFails
<1>10. ASSUME EndOfDir, UNCHANGED at
       PROVE  /\ NoneAstray' /\ NoneFailed' /\ OnPaths' /\ NoneMissed'
              /\ \A p \in handled' : Want(p)'
  <2>1. UNCHANGED <<mode, handled>>
    BY <1>10 DEF EndOfDir
  <2>2. QED
    BY <1>1, <1>2, <1>4, <1>5, <1>10, <2>1, EndedCovers
<1>11. ASSUME NEW c \in Nodes PROVE ~SkipEntry(c)
  <2>1. kind[c] # "gone"
    BY <1>3
  <2>2. QED
    BY <2>1 DEF SkipEntry
<1>12. ASSUME NEW c \in Nodes, pc = "reading", c \in Last(stack).left, Entry(c),
              UNCHANGED <<at, mode>>
       PROVE  /\ NoneAstray' /\ NoneFailed' /\ OnPaths' /\ NoneMissed'
              /\ \A p \in handled' : Want(p)'
  <2>1. /\ NoneAstray' /\ NoneFailed' /\ OnPaths' /\ NoneMissed'
        /\ \A q \in handled' : q \in handled \/ Want(q)
    BY <1>1, <1>2, <1>12, EntryCovers
  <2>2. QED
    BY <1>4, <1>5, <1>12, <2>1
<1>13. ASSUME NEW c \in Nodes, pc = "reading", c \in Last(stack).left, StatFails(c)
       PROVE  FALSE
  <2>1. PICK p : p = Append(Here, c)
    OBVIOUS
  <2>2. StatOK(p)
    BY <1>1, <1>2, <1>13, <2>1, EntryReal
  <2>3. QED
    BY <1>13, <2>1, <2>2 DEF StatFails
<1>14. CASE HandlerRuns
  <2>1. UNCHANGED <<pc, mode, stack, target, handled, result>>
    BY <1>14 DEF HandlerRuns, walk
  <2>2. descriptors' - (IF at' = "measured" THEN 1 ELSE 0)
          = descriptors - (IF at = "measured" THEN 1 ELSE 0)
    <3>1. descriptors \in Int
      BY DEF Typed, DiskTyped
    <3>2. QED
      BY <1>14, <3>1 DEF HandlerRuns, ReaderNext, LoadFails, Measure, Read, NextLine, Advance,
                         Copy, Parse, FreeFile, Fresh
  <2>3. NoneAstray'
    <3>1. Len(stack) \in Nat /\ descriptors \in Int /\ descriptors' \in Int
      BY HereFacts DEF Typed, DiskTyped
    <3>2. QED
      BY <1>3, <2>1, <2>2, <3>1 DEF NoneAstray
  <2>4. QED
    BY <1>6, <2>1, <2>3
<1>15. CASE HandlerEnds
  <2>1. /\ pc = "handling" /\ pc' = (IF mode = "directories" THEN "opening" ELSE "reading")
        /\ UNCHANGED <<descriptors, mode, stack, target, handled, result>>
        /\ at \in {"idle", "done"} /\ at' = "idle"
    BY <1>15 DEF HandlerEnds, HandlerReturns
  <2>2. NoneAstray'
    BY <1>3, <2>1 DEF NoneAstray
  <2>3. NoneFailed'
    BY <1>3, <2>1 DEF NoneFailed
  <2>4. Descends' <=> Descends
    BY <2>1 DEF Descends
  <2>5. OnPaths'
    BY <1>1, <1>3, <2>1, <2>4 DEF OnPaths, Real, Here
  <2>6. \A p : ToCome(p) => ToCome(p)'
    BY <2>1, <2>4 DEF ToCome, Through, Below
  <2>7. NoneMissed'
    BY <1>3, <1>5, <2>1, <2>6 DEF NoneMissed
  <2>8. QED
    BY <1>4, <1>5, <2>1, <2>2, <2>3, <2>5, <2>7
<1>16. CASE UNCHANGED vars
  <2>1. UNCHANGED <<pc, mode, stack, target, handled, result, at, descriptors>>
    BY <1>16 DEF vars, walk, reader
  <2>2. NoneAstray'
    BY <1>3, <2>1 DEF NoneAstray
  <2>3. QED
    BY <1>6, <2>1, <2>2
<1>17. ASSUME Others PROVE FALSE
  <2>1. changes \in Nat
    BY DEF Typed, DiskTyped
  <2>2. changes' = changes + 1
    BY <1>17 DEF Others, Vanish, Rewrite
  <2>3. QED
    BY <2>1, <2>2
<1>18. CASE Next
  <2>1. \/ \E m \in {"files", "directories"} : StartWalk(m) /\ UNCHANGED at
        \/ OpenDir /\ UNCHANGED at
        \/ EndOfDir /\ UNCHANGED at
        \/ \E c \in Nodes : /\ pc = "reading" /\ c \in Last(stack).left /\ Entry(c)
                            /\ UNCHANGED <<at, mode>>
        \/ HandlerRuns
        \/ HandlerEnds
    <3>1. UNCHANGED reader => UNCHANGED at
      BY DEF reader
    <3>2. QED
      BY <1>9, <1>11, <1>13, <1>17, <1>18, <3>1, StepCases
  <2>2. QED
    BY <1>7, <1>8, <1>10, <1>12, <1>14, <1>15, <2>1
<1>19. QED
  BY <1>16, <1>18

\* A walk never hands out a path twice, in whatever graph of links and however
\* others interfere; undisturbed in an ordinary tree, it hands out exactly the
\* files, or the directories, below the root, returns TRUE and closes all.
THEOREM WalksCover == Spec => []WalkCovers
<1>1. Init => NotYet /\ Covers
  <2> SUFFICES ASSUME Init PROVE NotYet /\ Covers
    OBVIOUS
  <2>1. /\ pc = "idle" /\ stack = <<>> /\ handled = {} /\ handlings = 0 /\ result = "none"
        /\ descriptors = 0 /\ at = "idle"
    BY DEF Init, WalkInit, DiskInit, ReaderInit
  <2>2. Len(stack) = 0
    BY <2>1, EmptySeq
  <2>3. NotYet
    BY <2>1, <2>2, FS_EmptySet DEF NotYet, HandledOnce, ComesOnce, Entered, Ahead
  <2>4. Covers
    BY <2>1, <2>2 DEF Covers, NoneAstray, NoneFailed, OnPaths, NoneMissed, Descends
  <2>5. QED
    BY <2>3, <2>4
<1>2. Typed /\ Typed' /\ Untouched /\ NotYet /\ Covers /\ [Next]_vars => NotYet' /\ Covers'
  BY NotYetNext, CoversNext
<1>3. Typed /\ NotYet /\ Covers => WalkCovers
  <2> SUFFICES ASSUME Typed, NotYet, Covers PROVE WalkCovers
    OBVIOUS
  <2>1. handlings = Cardinality(handled)
    BY DEF NotYet, HandledOnce
  <2>2. ASSUME result # "none", changes = 0, Tame
        PROVE  result = "true" /\ handled = Wanted /\ descriptors = 0
    <3>1. Ordinary /\ \A p : p \in Wanted <=> Want(p)
      BY <2>2, WantedIs DEF Typed, DiskTyped
    <3>2. NoneAstray /\ NoneFailed /\ OnPaths /\ NoneMissed /\ \A p \in handled : Want(p)
      BY <2>2, <3>1 DEF Covers
    <3>3. pc = "idle" /\ result # "false" /\ stack = <<>> /\ at = "idle"
      BY <2>2, <3>2 DEF NoneFailed, Typed, WalkTyped, ReaderTyped
    <3>4. result = "true"
      BY <2>2, <3>3 DEF Typed, WalkTyped
    <3>5. Len(stack) = 0
      BY <3>3, EmptySeq
    <3>6. descriptors = 0
      BY <3>2, <3>3, <3>5 DEF NoneAstray
    <3>7. \A p : ~ToCome(p)
      BY <3>3, <3>5 DEF ToCome, Descends
    <3>8. \A p : Want(p) => p \in handled
      BY <2>2, <3>2, <3>7 DEF NoneMissed
    <3>9. handled = Wanted
      BY <3>1, <3>2, <3>8
    <3>10. QED
      BY <3>4, <3>6, <3>9
  <2>3. QED
    BY <2>1, <2>2 DEF WalkCovers
<1>4. QED
  BY <1>1, <1>2, <1>3, TypesHold, NothingTouched, PTL DEF Spec

-----------------------------------------------------------------------------
\* A run goes up to the first character that is none of S.
LEMMA RunFacts ==
  ASSUME NEW T, NEW s \in Seq(T), NEW S, NEW i \in 1 .. Len(s) + 1
  PROVE  /\ Run(s, S, i) \in 0 .. Len(s) - i + 1
         /\ \A j \in i .. i + Run(s, S, i) - 1 : s[j] \in S
         /\ i + Run(s, S, i) <= Len(s) => s[i + Run(s, S, i)] \notin S
<1>1. PICK l \in Nat : l = Len(s)
  BY LenProperties
<1> DEFINE m == l - i + 1
           D == {n \in 0 .. m : \A j \in i .. i + n - 1 : s[j] \in S}
           r == Run(s, S, i)
<1>2. i \in 1 .. l + 1 /\ i \in Nat /\ m \in Nat
  BY <1>1
<1>3. r = Max(D)
  BY <1>1 DEF Run
<1>4. 0 \in D /\ D \in SUBSET (0 .. m)
  BY <1>2
<1>5. r \in D /\ \A n \in D : r >= n
  <2>1. D # {}
    BY <1>4
  <2> HIDE DEF D
  <2>2. QED
    BY <1>2, <1>3, <1>4, <2>1, MaxOf
<1>6. r \in 0 .. m /\ \A j \in i .. i + r - 1 : s[j] \in S
  BY <1>5
<1>7. ASSUME i + r <= l, s[i + r] \in S PROVE FALSE
  <2>1. r + 1 \in 0 .. m
    BY <1>2, <1>6, <1>7
  <2>2. ASSUME NEW j \in i .. i + (r + 1) - 1 PROVE s[j] \in S
    <3>1. j \in i .. i + r - 1 \/ j = i + r
      BY <1>2, <1>6
    <3>2. QED
      BY <1>6, <1>7, <3>1
  <2>3. r + 1 \in D
    BY <2>1, <2>2
  <2> HIDE DEF D
  <2>4. r >= r + 1
    BY <1>5, <2>3
  <2>5. QED
    BY <1>6, <2>4
<1> HIDE DEF D, r
<1>8. QED
  BY <1>1, <1>6, <1>7 DEF r

\* f has the powers of 10 up to the n-th.
Powers(f, n) == f = [i \in 0 .. n |-> IF i = 0 THEN 1 ELSE 10 * f[i - 1]]

\* There is such an f.
LEMMA PowersExist ==
  ASSUME NEW n \in Nat
  PROVE  \E f : Powers(f, n)
<1> DEFINE D == {k \in Nat : ~\E f : Powers(f, k)}
<1>1. SUFFICES ASSUME D # {} PROVE FALSE
  OBVIOUS
<1>2. PICK k \in D : \A j \in D : k <= j
  BY <1>1, LeastNatural
<1>3. CASE k = 0
  <2> DEFINE f == [i \in 0 .. 0 |-> 1]
  <2>1. f = [i \in 0 .. 0 |-> IF i = 0 THEN 1 ELSE 10 * f[i - 1]]
    OBVIOUS
  <2>2. Powers(f, k)
    BY <1>3, <2>1 DEF Powers
  <2>3. QED
    BY <1>2, <2>2
<1>4. CASE k > 0
  <2>1. k - 1 \in Nat /\ k - 1 \notin D
    BY <1>2, <1>4
  <2>2. PICK f : Powers(f, k - 1)
    BY <2>1
  <2> DEFINE g == [i \in 0 .. k |-> IF i = k THEN 10 * f[k - 1] ELSE f[i]]
  <2>3. /\ k \in Nat /\ g = [i \in 0 .. k |-> g[i]] /\ g[k] = 10 * f[k - 1]
        /\ \A i \in 0 .. k - 1 : g[i] = f[i]
    <3>1. k \in 0 .. k /\ \A i \in 0 .. k - 1 : i \in 0 .. k /\ i # k
      BY <1>4
    <3>2. QED
      BY <3>1
  <2> HIDE DEF g
  <2>4. ASSUME NEW i \in 0 .. k PROVE g[i] = IF i = 0 THEN 1 ELSE 10 * g[i - 1]
    <3>1. CASE i = k
      <4>1. k - 1 \in 0 .. k - 1 /\ k # 0
        BY <1>4
      <4>2. QED
        BY <2>3, <3>1, <4>1
    <3>2. CASE i < k
      <4>1. i \in 0 .. k - 1 /\ (i # 0 => i - 1 \in 0 .. k - 1)
        BY <3>2
      <4>2. f[i] = IF i = 0 THEN 1 ELSE 10 * f[i - 1]
        BY <2>2, <4>1 DEF Powers
      <4>3. g[i] = f[i] /\ (i # 0 => g[i - 1] = f[i - 1])
        BY <2>3, <4>1
      <4>4. QED
        BY <4>2, <4>3
    <3>3. QED
      BY <3>1, <3>2
  <2>5. g = [i \in 0 .. k |-> IF i = 0 THEN 1 ELSE 10 * g[i - 1]]
    BY <2>3, <2>4
  <2>6. QED
    BY <1>2, <2>5 DEF Powers
<1>5. QED
  BY <1>2, <1>3, <1>4

\* How the powers of 10 go on.
LEMMA TenToIs ==
  /\ TenTo(0) = 1
  /\ \A n \in Nat : TenTo(n) \in Nat /\ TenTo(n + 1) = 10 * TenTo(n)
<1>1. ASSUME NEW n \in Nat
      PROVE  \E f : Powers(f, n) /\ TenTo(n) = f[n]
  <2> DEFINE f == CHOOSE g : Powers(g, n)
  <2>1. Powers(f, n)
    <3>1. \E g : Powers(g, n)
      BY PowersExist
    <3>2. QED
      BY <3>1, Zenon
  <2>2. TenTo(n) = f[n]
    BY DEF TenTo, Powers
  <2>3. QED
    BY <2>1, <2>2
<1>2. TenTo(0) = 1
  BY <1>1 DEF Powers
<1>3. ASSUME NEW n \in Nat PROVE TenTo(n) \in Nat /\ TenTo(n + 1) = 10 * TenTo(n)
  <2>1. PICK f : Powers(f, n) /\ TenTo(n) = f[n]
    BY <1>1
  <2>2. PICK g : Powers(g, n + 1) /\ TenTo(n + 1) = g[n + 1]
    BY <1>1
  <2>3. \A i \in 0 .. n : /\ f[i] = IF i = 0 THEN 1 ELSE 10 * f[i - 1]
                          /\ g[i] = IF i = 0 THEN 1 ELSE 10 * g[i - 1]
    <3>1. \A i \in 0 .. n : i \in 0 .. n + 1
      OBVIOUS
    <3>2. QED
      BY <2>1, <2>2, <3>1 DEF Powers
  <2>4. \A i \in 0 .. n : f[i] = g[i] /\ f[i] \in Nat
    <3> DEFINE D == {i \in 0 .. n : ~(f[i] = g[i] /\ f[i] \in Nat)}
    <3>1. SUFFICES ASSUME D # {} PROVE FALSE
      OBVIOUS
    <3>2. PICK i \in D : \A j \in D : i <= j
      <4>1. D \in SUBSET Nat
        OBVIOUS
      <4>2. QED
        BY <3>1, <4>1, LeastNatural
    <3>3. i \in 0 .. n /\ i # 0
      BY <2>3, <3>2
    <3>4. i - 1 \in 0 .. n /\ ~(i <= i - 1)
      BY <3>3
    <3>5. i - 1 \notin D
      <4> HIDE DEF D
      <4> QED
        BY <3>2, <3>4
    <3>6. f[i - 1] = g[i - 1] /\ f[i - 1] \in Nat
      BY <3>4, <3>5
    <3>7. QED
      BY <2>3, <3>2, <3>3, <3>6
  <2>5. g[n + 1] = 10 * g[n] /\ n \in 0 .. n
    <3>1. n + 1 \in 0 .. n + 1 /\ n + 1 # 0 /\ (n + 1) - 1 = n
      OBVIOUS
    <3>2. QED
      BY <2>2, <3>1 DEF Powers
  <2>6. QED
    BY <2>1, <2>2, <2>4, <2>5
<1>4. QED
  BY <1>2, <1>3

\* f has the numbers that the first digits write.
Values(f, t) == f = [i \in 0 .. Len(t) |-> IF i = 0 THEN 0 ELSE 10 * f[i - 1] + Digits[t[i]]]

\* There is such an f, up to the n-th digit.
LEMMA ValuesExist ==
  ASSUME NEW t, NEW n \in Nat
  PROVE  \E f : f = [i \in 0 .. n |-> IF i = 0 THEN 0 ELSE 10 * f[i - 1] + Digits[t[i]]]
<1> DEFINE V(f, k) == f = [i \in 0 .. k |-> IF i = 0 THEN 0 ELSE 10 * f[i - 1] + Digits[t[i]]]
           D == {k \in Nat : ~\E f : V(f, k)}
<1>1. SUFFICES ASSUME D # {} PROVE FALSE
  OBVIOUS
<1>2. PICK k \in D : \A j \in D : k <= j
  <2> HIDE DEF V
  <2> QED
    BY <1>1, LeastNatural
<1>3. CASE k = 0
  <2> DEFINE f == [i \in 0 .. 0 |-> 0]
  <2>1. f = [i \in 0 .. 0 |-> IF i = 0 THEN 0 ELSE 10 * f[i - 1] + Digits[t[i]]]
    OBVIOUS
  <2>2. V(f, k)
    BY <1>3, <2>1
  <2> HIDE DEF V, f
  <2>3. QED
    BY <1>2, <2>2
<1>4. CASE k > 0
  <2>1. k - 1 \in Nat /\ k - 1 \notin D
    <3>1. k - 1 \in Nat /\ ~(k <= k - 1)
      BY <1>2, <1>4
    <3> HIDE DEF D
    <3>2. QED
      BY <1>2, <3>1
  <2>2. PICK f : V(f, k - 1)
    <3> HIDE DEF V
    <3> QED
      BY <2>1
  <2> DEFINE g == [i \in 0 .. k |-> IF i = k THEN 10 * f[k - 1] + Digits[t[k]] ELSE f[i]]
  <2>3. /\ k \in Nat /\ g = [i \in 0 .. k |-> g[i]] /\ g[k] = 10 * f[k - 1] + Digits[t[k]]
        /\ \A i \in 0 .. k - 1 : g[i] = f[i]
    <3>1. k \in 0 .. k /\ \A i \in 0 .. k - 1 : i \in 0 .. k /\ i # k
      BY <1>4
    <3>2. QED
      BY <3>1
  <2> HIDE DEF g
  <2>4. ASSUME NEW i \in 0 .. k
        PROVE  g[i] = IF i = 0 THEN 0 ELSE 10 * g[i - 1] + Digits[t[i]]
    <3>1. CASE i = k
      <4>1. k - 1 \in 0 .. k - 1 /\ k # 0
        BY <1>4
      <4>2. QED
        BY <2>3, <3>1, <4>1
    <3>2. CASE i < k
      <4>1. i \in 0 .. k - 1 /\ (i # 0 => i - 1 \in 0 .. k - 1)
        BY <3>2
      <4>2. f[i] = IF i = 0 THEN 0 ELSE 10 * f[i - 1] + Digits[t[i]]
        BY <2>2, <4>1
      <4>3. g[i] = f[i] /\ (i # 0 => g[i - 1] = f[i - 1])
        BY <2>3, <4>1
      <4>4. QED
        BY <4>2, <4>3
    <3>3. QED
      BY <3>1, <3>2
  <2>5. g = [i \in 0 .. k |-> IF i = 0 THEN 0 ELSE 10 * g[i - 1] + Digits[t[i]]]
    BY <2>3, <2>4
  <2>6. V(g, k)
    BY <2>5
  <2> HIDE DEF V
  <2>7. QED
    BY <1>2, <2>6
<1>5. QED
  BY <1>2, <1>3, <1>4

\* What Magnitude adds up.
LEMMA MagnitudeIs ==
  ASSUME NEW T, NEW t \in Seq(T)
  PROVE  \E f : Values(f, t) /\ Magnitude(t) = f[Len(t)]
<1> DEFINE f == CHOOSE g : Values(g, t)
<1>1. Len(t) \in Nat
  BY LenProperties
<1>2. \E g : Values(g, t)
  BY <1>1, ValuesExist DEF Values
<1>3. Values(f, t)
  BY <1>2, Zenon
<1>4. Magnitude(t) = f[Len(t)]
  BY DEF Magnitude, Values
<1>5. QED
  BY <1>3, <1>4

\* A number is the sum of its digits by their places.
LEMMA DigitsSum ==
  ASSUME NEW T, NEW s \in Seq(T), NEW j \in 1 .. Len(s) + 1, NEW k \in 1 .. Len(s) + 1, j <= k,
         \A n \in j .. k - 1 : s[n] \in DOMAIN Digits
  PROVE  /\ Magnitude(SubSeq(s, j, k - 1)) \in Nat
         /\ SumFunction([n \in j .. k - 1 |-> Digits[s[n]] * TenTo(k - 1 - n)])
              = Magnitude(SubSeq(s, j, k - 1))
<1>1. PICK N \in Nat : N = k - j
  BY LenProperties
<1>2. PICK t \in Seq(T) : /\ t = SubSeq(s, j, k - 1) /\ Len(t) = N
                          /\ \A m \in 1 .. N : t[m] = s[(j - 1) + m]
  <2>1. Len(s) \in Nat
    BY LenProperties
  <2>2. PICK i \in 0 .. Len(s) : i = j - 1 /\ i + 1 = j
    BY <2>1
  <2>3. PICK h \in 0 .. Len(s) : h = k - 1
    BY <2>1
  <2>4. /\ SubSeq(s, i + 1, h) \in Seq(T)
        /\ Len(SubSeq(s, i + 1, h)) = IF i < h THEN h - i ELSE 0
        /\ \A m \in 1 .. h - i : SubSeq(s, i + 1, h)[m] = s[i + m]
    BY Part
  <2>5. h - i = N /\ (IF i < h THEN h - i ELSE 0) = N
    BY <1>1, <2>2, <2>3
  <2>6. QED
    BY <2>2, <2>3, <2>4, <2>5
<1>3. PICK f : Values(f, t) /\ Magnitude(t) = f[N]
  BY <1>2, MagnitudeIs
<1>4. ASSUME NEW m \in 1 .. N
      PROVE  /\ (j - 1) + m \in j .. k - 1 /\ Digits[s[(j - 1) + m]] \in Nat
             /\ f[m] = 10 * f[m - 1] + Digits[s[(j - 1) + m]]
  <2>1. (j - 1) + m \in j .. k - 1
    BY <1>1
  <2>2. Digits[s[(j - 1) + m]] \in 0 .. 9
    BY <2>1, TextAssumption
  <2>3. m \in 0 .. Len(t) /\ m # 0
    BY <1>2
  <2>4. f[m] = 10 * f[m - 1] + Digits[t[m]]
    BY <1>3, <2>3 DEF Values
  <2>5. t[m] = s[(j - 1) + m]
    BY <1>2
  <2>6. Digits[s[(j - 1) + m]] \in Nat
    BY <2>2, SMTT(30)
  <2>7. QED
    BY <2>1, <2>4, <2>5, <2>6
<1>5. f[0] = 0
  BY <1>2, <1>3 DEF Values
<1>6. \A m \in 0 .. N : f[m] \in Nat
  <2> DEFINE D == {m \in 0 .. N : f[m] \notin Nat}
  <2>1. SUFFICES ASSUME D # {} PROVE FALSE
    OBVIOUS
  <2>2. PICK m \in D : \A i \in D : m <= i
    <3>1. D \in SUBSET Nat
      OBVIOUS
    <3>2. QED
      BY <2>1, <3>1, LeastNatural
  <2>3. m \in 1 .. N /\ m - 1 \in 0 .. N /\ ~(m <= m - 1)
    BY <1>5, <2>2
  <2>4. m - 1 \notin D
    <3> HIDE DEF D
    <3> QED
      BY <2>2, <2>3
  <2>5. f[m - 1] \in Nat
    BY <2>3, <2>4
  <2>6. f[m] \in Nat
    BY <1>4, <2>3, <2>5, SMTT(30)
  <2>7. QED
    BY <2>2, <2>6
<1> DEFINE w == [n \in j .. k - 1 |-> Digits[s[n]] * TenTo(k - 1 - n)]
           Rest(m) == SumFunctionOnSet(w, j + m .. k - 1)
<1>7. ASSUME NEW m \in 1 .. N
      PROVE  /\ w[(j - 1) + m] = Digits[s[(j - 1) + m]] * TenTo(N - m)
             /\ w[(j - 1) + m] \in Int /\ TenTo(N - m) \in Nat
  <2>1. k - 1 - ((j - 1) + m) = N - m /\ N - m \in Nat
    BY <1>1
  <2>2. TenTo(N - m) \in Nat
    BY <2>1, TenToIs
  <2>3. w[(j - 1) + m] = Digits[s[(j - 1) + m]] * TenTo(N - m)
    BY <1>4, <2>1
  <2>4. PICK e \in Nat : e = Digits[s[(j - 1) + m]]
    BY <1>4
  <2>5. PICK q \in Nat : q = TenTo(N - m)
    BY <2>2
  <2>6. e * q \in Int
    OBVIOUS
  <2> HIDE DEF w
  <2>7. QED
    BY <2>2, <2>3, <2>4, <2>5, <2>6
<1>8. \A n \in j .. k - 1 : w[n] \in Int
  <2> SUFFICES ASSUME NEW n \in j .. k - 1 PROVE w[n] \in Int
    OBVIOUS
  <2>1. n - (j - 1) \in 1 .. N /\ (j - 1) + (n - (j - 1)) = n
    BY <1>1
  <2> HIDE DEF w
  <2>2. QED
    BY <1>7, <2>1
<1>9. ASSUME NEW m \in 1 .. N
      PROVE  Rest(m - 1) = w[(j - 1) + m] + Rest(m) /\ Rest(m) \in Int
  <2> DEFINE S == j + (m - 1) .. k - 1
  <2>1. S \subseteq j .. k - 1 /\ (j - 1) + m \in S /\ j + m .. k - 1 = S \ {(j - 1) + m}
    BY <1>1
  <2>2. IsFiniteSet(S) /\ IsFiniteSet(j + m .. k - 1)
    <3>1. j + (m - 1) \in Int /\ k - 1 \in Int /\ j + m \in Int
      OBVIOUS
    <3>2. QED
      BY <3>1, FS_Interval
  <2>3. (\A x \in S : w[x] \in Int) /\ \A x \in j + m .. k - 1 : w[x] \in Int
    <3> HIDE DEF w
    <3>1. \A x \in j + m .. k - 1 : x \in S
      OBVIOUS
    <3>2. QED
      BY <1>8, <2>1, <3>1
  <2> HIDE DEF S, w
  <2>4. SumFunctionOnSet(w, S) = w[(j - 1) + m] + SumFunctionOnSet(w, S \ {(j - 1) + m})
    BY <2>1, <2>2, <2>3, SumTakeOut
  <2>5. SumFunctionOnSet(w, j + m .. k - 1) \in Int
    BY <2>2, <2>3, SumInt
  <2>6. QED
    BY <2>1, <2>4, <2>5 DEF S
<1>10. Rest(N) = 0
  <2>1. j + N .. k - 1 = {}
    BY <1>1
  <2>2. QED
    BY <2>1, SumOfNone
<1> HIDE DEF w, Rest
<1>11. \A m \in 0 .. N : f[N] = Rest(m) + f[m] * TenTo(N - m)
  <2> DEFINE D == {m \in 0 .. N : f[N] # Rest(N - m) + f[N - m] * TenTo(m)}
  <2>1. ASSUME D # {} PROVE FALSE
    <3>1. PICK m \in D : \A i \in D : m <= i
      <4>1. D \in SUBSET Nat
        OBVIOUS
      <4>2. QED
        BY <2>1, <4>1, LeastNatural
    <3>2. m \in 0 .. N /\ f[N] # Rest(N - m) + f[N - m] * TenTo(m)
      BY <3>1
    <3>3. m # 0
      <4>1. N - 0 = N /\ f[N] \in Nat /\ TenTo(0) = 1
        BY <1>6, TenToIs
      <4>2. f[N] = Rest(N - 0) + f[N - 0] * TenTo(0)
        BY <1>10, <4>1
      <4>3. QED
        BY <3>2, <4>2
    <3>4. m - 1 \in 0 .. N /\ m - 1 \notin D
      <4>1. m - 1 \in 0 .. N /\ ~(m <= m - 1)
        BY <3>2, <3>3
      <4> HIDE DEF D
      <4>2. QED
        BY <3>1, <4>1
    <3>5. PICK i \in 1 .. N : i = N - (m - 1) /\ i - 1 = N - m /\ N - i = m - 1 /\ i - 1 \in 0 .. N
      BY <3>2, <3>3
    <3>6. f[N] = Rest(i) + f[i] * TenTo(N - i)
      BY <3>4, <3>5
    <3>7. PICK e \in Nat : e = Digits[s[(j - 1) + i]]
      BY <1>4
    <3>8. PICK a \in Nat : a = f[i - 1]
      BY <1>6, <3>5
    <3>9. PICK q \in Nat : q = TenTo(N - i) /\ TenTo(m) = 10 * q
      <4>1. m - 1 \in Nat /\ (m - 1) + 1 = m
        BY <3>2, <3>3
      <4>2. QED
        BY <3>5, <4>1, TenToIs
    <3>10. f[i] = 10 * a + e
      BY <1>4, <3>7, <3>8
    <3>11. Rest(i - 1) = e * q + Rest(i) /\ Rest(i) \in Int
      BY <1>7, <1>9, <3>7, <3>9
    <3>12. PICK x \in Int : x = a * (10 * q)
      OBVIOUS
    <3>13. PICK y \in Int : y = e * q /\ (10 * a + e) * q = x + y
      BY <3>12
    <3>14. f[N] = Rest(i - 1) + a * (10 * q)
      <4>1. f[N] = Rest(i) + (x + y)
        BY <3>6, <3>9, <3>10, <3>13
      <4>2. Rest(i - 1) = y + Rest(i) /\ Rest(i) \in Int
        BY <3>11, <3>13
      <4>3. f[N] = Rest(i - 1) + x
        BY <4>1, <4>2
      <4>4. QED
        BY <3>12, <4>3
    <3>15. QED
      BY <3>2, <3>5, <3>8, <3>9, <3>14
  <2>2. ASSUME NEW m \in 0 .. N PROVE f[N] = Rest(m) + f[m] * TenTo(N - m)
    <3>1. N - m \in 0 .. N /\ N - (N - m) = m
      OBVIOUS
    <3>2. N - m \notin D
      BY <2>1
    <3>3. QED
      BY <3>1, <3>2
  <2>3. QED
    BY <2>2
<1>12. Rest(0) = SumFunction(w)
  <2>1. DOMAIN w = j .. k - 1 /\ j + 0 = j
    BY DEF w
  <2>2. QED
    BY <2>1 DEF Rest, SumFunction
<1>13. f[N] = Rest(0)
  <2>1. TenTo(N - 0) \in Nat
    <3>1. N - 0 \in Nat
      OBVIOUS
    <3>2. QED
      BY <3>1, TenToIs
  <2>2. f[0] * TenTo(N - 0) = 0
    BY <1>5, <2>1
  <2>3. f[N] = Rest(0) + f[0] * TenTo(N - 0)
    BY <1>11
  <2>4. Rest(0) \in Int
    <3>1. CASE N = 0
      BY <1>10, <3>1
    <3>2. CASE N # 0
      <4>1. 1 \in 1 .. N /\ 1 - 1 = 0
        BY <3>2
      <4>2. Rest(1 - 1) = w[(j - 1) + 1] + Rest(1) /\ Rest(1) \in Int /\ w[(j - 1) + 1] \in Int
        BY <1>7, <1>9, <4>1
      <4>3. QED
        BY <4>1, <4>2
    <3>3. QED
      BY <3>1, <3>2
  <2>5. QED
    BY <2>2, <2>3, <2>4
<1>14. QED
  BY <1>2, <1>3, <1>6, <1>12, <1>13 DEF w

\* The parts of a string that strtoul takes, and whether a parser accepts them.
Blanks(s) == Run(s, White, 1)
Sign(s) == IF Blanks(s) < Len(s) /\ s[Blanks(s) + 1] \in {Minus, Plus} THEN 1 ELSE 0
First(s) == Blanks(s) + Sign(s) + 1
Width(s) == Run(s, DOMAIN Digits, First(s))
Behind(s) == First(s) + Width(s)
IsNumber(s) == Width(s) # 0 /\ Behind(s) - 1 + Run(s, White, Behind(s)) = Len(s)

\* Where they are.
LEMMA PartsFacts ==
  ASSUME NEW T, NEW s \in Seq(T)
  PROVE  /\ Len(s) \in Nat
         /\ Blanks(s) \in 0 .. Len(s)
         /\ \A n \in 1 .. Blanks(s) : s[n] \in White
         /\ Blanks(s) + 1 <= Len(s) => s[Blanks(s) + 1] \notin White
         /\ Sign(s) = 1 <=> Blanks(s) + 1 <= Len(s) /\ s[Blanks(s) + 1] \in {Minus, Plus}
         /\ Sign(s) \in {0, 1} /\ First(s) = Blanks(s) + Sign(s) + 1
         /\ First(s) \in 1 .. Len(s) + 1 /\ Behind(s) \in First(s) .. Len(s) + 1
         /\ Behind(s) = First(s) + Width(s) /\ Width(s) \in Nat
         /\ \A n \in First(s) .. Behind(s) - 1 : s[n] \in DOMAIN Digits
         /\ Behind(s) <= Len(s) => s[Behind(s)] \notin DOMAIN Digits
<1>1. PICK l \in Nat : l = Len(s)
  BY LenProperties
<1>2. PICK b : b = Blanks(s)
  OBVIOUS
<1>3. /\ b \in 0 .. l /\ \A n \in 1 .. b : s[n] \in White
      /\ b + 1 <= l => s[b + 1] \notin White
  <2>1. 1 \in 1 .. Len(s) + 1
    BY <1>1
  <2>2. /\ b \in 0 .. Len(s) - 1 + 1
        /\ \A j \in 1 .. 1 + b - 1 : s[j] \in White
        /\ 1 + b <= Len(s) => s[1 + b] \notin White
    BY <1>2, <2>1, RunFacts DEF Blanks
  <2>3. b \in 0 .. l
    BY <1>1, <2>2
  <2>4. 1 + b - 1 = b /\ 1 + b = b + 1
    BY <2>3
  <2>5. QED
    BY <1>1, <2>2, <2>3, <2>4
<1>4. PICK g \in {0, 1} : g = Sign(s) /\ (g = 1 <=> b + 1 <= l /\ s[b + 1] \in {Minus, Plus})
  BY <1>1, <1>2, <1>3 DEF Sign
<1>5. PICK f \in 1 .. l + 1 : f = First(s) /\ f = b + g + 1
  BY <1>2, <1>3, <1>4 DEF First
<1>6. PICK w : w = Width(s)
  OBVIOUS
<1>7. /\ w \in 0 .. l - f + 1 /\ \A j \in f .. f + w - 1 : s[j] \in DOMAIN Digits
      /\ f + w <= l => s[f + w] \notin DOMAIN Digits
  BY <1>1, <1>5, <1>6, RunFacts DEF Width
<1>8. Behind(s) = f + w /\ f + w \in f .. l + 1 /\ w \in Nat
  BY <1>5, <1>6, <1>7 DEF Behind
<1>9. QED
  BY <1>1, <1>2, <1>3, <1>4, <1>5, <1>6, <1>7, <1>8

\* What looks like a number is one that the parsers accept, and its parts are
\* those that they take.
LEMMA NumeralIs ==
  ASSUME NEW s \in Seq(STRING), NEW i \in 1 .. Len(s) + 1, NEW j \in 1 .. Len(s) + 1,
         NEW k \in 1 .. Len(s) + 1
  PROVE  Numeral(s, i, j, k) <=>
           IsNumber(s) /\ i = Blanks(s) + 1 /\ j = First(s) /\ k = Behind(s)
<1>1. PICK l \in Nat : l = Len(s)
  BY PartsFacts
<1>2. PICK b \in 0 .. l : b = Blanks(s)
  BY <1>1, PartsFacts
<1>3. PICK f \in 1 .. l + 1 : f = First(s)
  BY <1>1, PartsFacts
<1>4. PICK h \in f .. l + 1 : h = Behind(s)
  BY <1>1, <1>3, PartsFacts
<1>5. PICK g \in {0, 1} : g = Sign(s) /\ f = b + g + 1 /\ (g = 1 <=> b + 1 <= l /\ s[b + 1] \in {Minus, Plus})
  BY <1>1, <1>2, <1>3, PartsFacts
<1>6. /\ \A n \in 1 .. b : s[n] \in White
      /\ b + 1 <= l => s[b + 1] \notin White
  BY <1>1, <1>2, PartsFacts
<1>7. /\ \A n \in f .. h - 1 : s[n] \in DOMAIN Digits
      /\ h <= l => s[h] \notin DOMAIN Digits
      /\ Width(s) = h - f
  <2>1. Width(s) \in Nat /\ h = f + Width(s)
    BY <1>3, <1>4, PartsFacts
  <2>2. Width(s) = h - f
    BY <2>1
  <2>3. QED
    BY <1>1, <1>3, <1>4, <2>2, PartsFacts
<1>8. PICK c : /\ c = Run(s, White, h) /\ c \in 0 .. l - h + 1
               /\ \A n \in h .. h + c - 1 : s[n] \in White
               /\ h + c <= l => s[h + c] \notin White
  <2>1. h \in 1 .. Len(s) + 1
    BY <1>1
  <2>2. PICK c : c = Run(s, White, h)
    OBVIOUS
  <2>3. /\ c \in 0 .. Len(s) - h + 1
        /\ \A n \in h .. h + c - 1 : s[n] \in White
        /\ h + c <= Len(s) => s[h + c] \notin White
    BY <2>1, <2>2, RunFacts
  <2>4. QED
    BY <1>1, <2>2, <2>3
<1>9. IsNumber(s) <=> h # f /\ h - 1 + c = l
  BY <1>1, <1>4, <1>7, <1>8 DEF IsNumber
<1>10. /\ White \cap DOMAIN Digits = {} /\ {Minus, Plus} \cap DOMAIN Digits = {}
       /\ White \cap {Minus, Plus} = {}
  BY TextAssumption
<1>11. ASSUME Numeral(s, i, j, k)
       PROVE  h # f /\ h - 1 + c = l /\ i = b + 1 /\ j = f /\ k = h
  <2>1. /\ \A n \in 1 .. i - 1 : s[n] \in White
        /\ j = i \/ (j = i + 1 /\ s[i] \in {Minus, Plus})
        /\ j < k /\ \A n \in j .. k - 1 : s[n] \in DOMAIN Digits
        /\ \A n \in k .. l : s[n] \in White
    BY <1>1, <1>11 DEF Numeral
  <2>2. i <= l /\ i \in 1 .. l /\ j \in j .. k - 1 /\ k \in 1 .. l + 1 /\ j \in 1 .. l + 1
    BY <1>1, <2>1
  <2>3. s[i] \notin White
    BY <1>10, <2>1, <2>2
  <2>4. i = b + 1
    <3>1. ASSUME i < b + 1 PROVE FALSE
      <4>1. i \in 1 .. b
        BY <2>2, <3>1
      <4>2. QED
        BY <1>6, <2>3, <4>1
    <3>2. ASSUME i > b + 1 PROVE FALSE
      <4>1. b + 1 \in 1 .. i - 1 /\ b + 1 <= l
        BY <2>2, <3>2
      <4>2. QED
        BY <1>6, <2>1, <4>1
    <3>3. QED
      BY <2>2, <3>1, <3>2
  <2>5. j = f
    <3>1. CASE j = i
      <4>1. s[b + 1] \notin {Minus, Plus}
        BY <1>10, <2>1, <2>2, <2>4, <3>1
      <4>2. g = 0
        BY <1>5, <4>1
      <4>3. QED
        BY <1>5, <2>4, <3>1, <4>2
    <3>2. CASE j = i + 1 /\ s[i] \in {Minus, Plus}
      <4>1. g = 1
        BY <1>5, <2>2, <2>4, <3>2
      <4>2. QED
        BY <1>5, <2>4, <3>2, <4>1
    <3>3. QED
      BY <2>1, <3>1, <3>2
  <2>6. k = h
    <3>1. ASSUME k < h PROVE FALSE
      <4>1. k \in f .. h - 1 /\ k \in k .. l
        BY <2>1, <2>2, <2>5, <3>1
      <4>2. QED
        BY <1>7, <1>10, <2>1, <4>1
    <3>2. ASSUME k > h PROVE FALSE
      <4>1. h \in j .. k - 1 /\ h <= l
        BY <2>2, <2>5, <3>2
      <4>2. QED
        BY <1>7, <2>1, <4>1
    <3>3. QED
      BY <2>2, <3>1, <3>2
  <2>7. h - 1 + c = l
    <3>1. ASSUME h - 1 + c # l PROVE FALSE
      <4>1. h + c <= l /\ h + c \in k .. l
        BY <1>8, <2>2, <2>6, <3>1
      <4>2. QED
        BY <1>8, <2>1, <4>1
    <3>2. QED
      BY <3>1
  <2>8. h # f
    BY <2>1, <2>2, <2>5, <2>6
  <2>9. QED
    BY <2>4, <2>5, <2>6, <2>7, <2>8
<1>12. ASSUME h # f, h - 1 + c = l, i = b + 1, j = f, k = h
       PROVE  Numeral(s, i, j, k)
  <2>1. \A n \in 1 .. i - 1 : s[n] \in White
    BY <1>6, <1>12
  <2>2. j = i \/ (j = i + 1 /\ s[i] \in {Minus, Plus})
    BY <1>5, <1>12
  <2>3. j < k /\ \A n \in j .. k - 1 : s[n] \in DOMAIN Digits
    BY <1>7, <1>12
  <2>4. \A n \in k .. l : s[n] \in White
    <3>1. h + c - 1 = l
      BY <1>8, <1>12
    <3>2. QED
      BY <1>8, <1>12, <3>1
  <2>5. QED
    BY <1>1, <2>1, <2>2, <2>3, <2>4 DEF Numeral
<1>13. QED
  BY <1>2, <1>3, <1>4, <1>9, <1>11, <1>12

\* The low bits of the low bits.
LEMMA LowBits ==
  ASSUME NEW v \in Int
  PROVE  (v % LongSize) % IntSize = v % IntSize
<1>1. PICK L \in Nat \ {0} : L = LongSize
  BY TextAssumption
<1>2. PICK I \in Nat \ {0} : I = IntSize /\ L % I = 0
  BY <1>1, TextAssumption
<1>3. PICK k \in Int : L = I * k
  BY <1>2, RemainderIs
<1>4. PICK q \in Int : v = L * q + (v % L) /\ v % L \in 0 .. L - 1
  BY RemainderIs
<1>5. PICK r \in Int : r = v % L
  BY <1>4
<1>6. PICK p \in Int : r = I * p + (r % I) /\ r % I \in 0 .. I - 1
  BY RemainderIs
<1>7. PICK u \in Int : v = I * u + (v % I) /\ v % I \in 0 .. I - 1
  BY RemainderIs
<1>8. PICK x \in 0 .. I - 1 : x = r % I
  BY <1>6
<1>9. PICK y \in 0 .. I - 1 : y = v % I
  BY <1>7
<1>10. (I * k) * q = I * (k * q) /\ k * q \in Int
  OBVIOUS
<1>11. PICK a \in Int : a = k * q
  BY <1>10
<1>12. I * (a + p) = I * a + I * p /\ I * a \in Int /\ I * p \in Int /\ I * u \in Int /\ a + p \in Int
  OBVIOUS
<1>13. I * (a + p) + x = I * u + y
  <2>1. v = I * a + r
    BY <1>3, <1>4, <1>5, <1>10, <1>11
  <2>2. r = I * p + x
    BY <1>6, <1>8
  <2>3. v = I * u + y
    BY <1>7, <1>9
  <2>4. QED
    BY <1>12, <2>1, <2>2, <2>3
<1>14. x = y
  BY <1>12, <1>13, RemainderUnique
<1>15. QED
  BY <1>1, <1>2, <1>5, <1>8, <1>9, <1>14

\* What the parsers make of a string, and what they are to make of it.
ParserSays(parser, s) ==
  CASE parser = "size" -> ParseSize(s)
    [] parser = "uint" -> ParseUint(s)
    [] parser = "lint" -> ParseLint(s)

Sought(parser, s) ==
  UNION {Meant(parser, Number(s, p[1], p[2], p[3])) :
           p \in {q \in (1 .. Len(s) + 1) \X (1 .. Len(s) + 1) \X (1 .. Len(s) + 1) :
                    Numeral(s, q[1], q[2], q[3])}}

\* A number in a string is unique.
LEMMA SoughtIs ==
  ASSUME NEW s \in Seq(STRING), NEW parser
  PROVE  Sought(parser, s) =
           IF IsNumber(s) THEN Meant(parser, Number(s, Blanks(s) + 1, First(s), Behind(s)))
           ELSE {}
<1> DEFINE B == (1 .. Len(s) + 1) \X (1 .. Len(s) + 1) \X (1 .. Len(s) + 1)
           P == {q \in B : Numeral(s, q[1], q[2], q[3])}
           z == <<Blanks(s) + 1, First(s), Behind(s)>>
           M(p) == Meant(parser, Number(s, p[1], p[2], p[3]))
<1>1. z \in B
  <2>1. PICK l \in Nat : l = Len(s)
    BY PartsFacts
  <2>2. Blanks(s) \in 0 .. l /\ First(s) \in 1 .. l + 1 /\ Behind(s) \in First(s) .. l + 1
    BY <2>1, PartsFacts
  <2>3. Blanks(s) + 1 \in 1 .. l + 1 /\ Behind(s) \in 1 .. l + 1
    BY <2>2
  <2>4. QED
    BY <2>1, <2>2, <2>3
<1>2. ASSUME NEW q \in B
      PROVE  Numeral(s, q[1], q[2], q[3]) <=> IsNumber(s) /\ q = z
  <2>1. PICK i \in 1 .. Len(s) + 1, j \in 1 .. Len(s) + 1, k \in 1 .. Len(s) + 1 : q = <<i, j, k>>
    OBVIOUS
  <2>2. Numeral(s, i, j, k) <=>
          IsNumber(s) /\ i = Blanks(s) + 1 /\ j = First(s) /\ k = Behind(s)
    BY NumeralIs
  <2>3. q[1] = i /\ q[2] = j /\ q[3] = k
    BY <2>1
  <2>4. q = z <=> i = Blanks(s) + 1 /\ j = First(s) /\ k = Behind(s)
    BY <2>1
  <2> HIDE DEF z
  <2>5. QED
    BY <2>2, <2>3, <2>4
<1>3. Sought(parser, s) = UNION {M(p) : p \in P}
  BY DEF Sought
<1>4. M(z) = Meant(parser, Number(s, Blanks(s) + 1, First(s), Behind(s)))
  OBVIOUS
<1> HIDE DEF B, z
<1>5. CASE IsNumber(s)
  <2>1. P = {z}
    BY <1>1, <1>2, <1>5
  <2> HIDE DEF P, M
  <2>2. UNION {M(p) : p \in {z}} = M(z)
    OBVIOUS
  <2>3. QED
    BY <1>3, <1>4, <1>5, <2>1, <2>2
<1>6. CASE ~IsNumber(s)
  <2>1. P = {}
    BY <1>2, <1>6
  <2> HIDE DEF P, M
  <2>2. UNION {M(p) : p \in {}} = {}
    OBVIOUS
  <2>3. QED
    BY <1>3, <1>6, <2>1, <2>2
<1>7. QED
  BY <1>5, <1>6

\* It is the number that strtoul scans.
LEMMA ScannedIs ==
  ASSUME NEW s \in Seq(STRING)
  PROVE  /\ Scan(s).end = IF Width(s) = 0 THEN 0 ELSE Behind(s) - 1
         /\ Scan(s).negative <=> Sign(s) = 1 /\ s[Blanks(s) + 1] = Minus
         /\ Scan(s).magnitude \in Nat
         /\ Number(s, Blanks(s) + 1, First(s), Behind(s)) = Signed(Scan(s))
         /\ Signed(Scan(s)) \in Int
<1> DEFINE f == First(s)
           h == Behind(s)
           m == Magnitude(SubSeq(s, f, h - 1))
<1>1. /\ Scan(s).end = IF Width(s) = 0 THEN 0 ELSE h - 1
      /\ Scan(s).negative = (Sign(s) = 1 /\ s[Blanks(s) + 1] = Minus)
      /\ Scan(s).magnitude = m
  <2> DEFINE e == IF Width(s) = 0 THEN 0 ELSE f + Width(s) - 1
             n == Sign(s) = 1 /\ s[Blanks(s) + 1] = Minus
             g == Magnitude(SubSeq(s, f, f + Width(s) - 1))
  <2>1. Scan(s) = [end |-> e, negative |-> n, magnitude |-> g]
    BY Zenon DEF Scan, Blanks, Sign, First, Width
  <2>2. h = f + Width(s)
    BY DEF Behind
  <2>3. e = (IF Width(s) = 0 THEN 0 ELSE h - 1) /\ g = m
    <3>1. f \in Int /\ Width(s) \in Int
      BY PartsFacts
    <3> HIDE DEF f, h
    <3>2. f + Width(s) - 1 = h - 1
      BY <2>2, <3>1
    <3>3. QED
      BY <3>2
  <2> HIDE DEF e, n, g, m
  <2>4. Scan(s).end = e /\ Scan(s).negative = n /\ Scan(s).magnitude = g
    BY <2>1
  <2>5. n = (Sign(s) = 1 /\ s[Blanks(s) + 1] = Minus)
    BY Zenon DEF n
  <2>6. QED
    BY <2>3, <2>4, <2>5, Zenon
<1>2. /\ f \in 1 .. Len(s) + 1 /\ h \in f .. Len(s) + 1 /\ Len(s) \in Nat
      /\ \A n \in f .. h - 1 : s[n] \in DOMAIN Digits
      /\ Sign(s) \in {0, 1} /\ f = Blanks(s) + Sign(s) + 1 /\ Blanks(s) \in Nat
  BY PartsFacts
<1>3. /\ m \in Nat
      /\ SumFunction([n \in f .. h - 1 |-> Digits[s[n]] * TenTo(h - 1 - n)]) = m
  <2>1. h \in 1 .. Len(s) + 1 /\ f <= h
    BY <1>2
  <2> HIDE DEF f, h
  <2>2. QED
    BY <1>2, <2>1, DigitsSum
<1>4. Number(s, Blanks(s) + 1, f, h)
        = IF Blanks(s) + 1 < f /\ s[Blanks(s) + 1] = Minus THEN -m ELSE m
  BY <1>3 DEF Number
<1> HIDE DEF f, h, m
<1>5. Blanks(s) + 1 < f <=> Sign(s) = 1
  BY <1>2
<1>6. Signed(Scan(s)) = IF Blanks(s) + 1 < f /\ s[Blanks(s) + 1] = Minus THEN -m ELSE m
  BY <1>1, <1>5 DEF Signed
<1>7. Signed(Scan(s)) \in Int
  BY <1>3, <1>6
<1>8. Scan(s).negative <=> Sign(s) = 1 /\ s[Blanks(s) + 1] = Minus
  BY <1>1, Zenon
<1>9. Scan(s).magnitude \in Nat
  BY <1>1, <1>3, Zenon
<1>10. Number(s, Blanks(s) + 1, f, h) = Signed(Scan(s))
  BY <1>4, <1>6
<1>11. Scan(s).end = IF Width(s) = 0 THEN 0 ELSE h - 1
  BY <1>1, Zenon
<1> USE DEF f, h
<1>12. QED
  BY <1>7, <1>8, <1>9, <1>10, <1>11, Zenon

\* The parsers take the numbers whose value they can return, and no other string.
LEMMA ParsersRight ==
  ASSUME NEW s \in Seq(STRING), NEW parser \in {"size", "uint", "lint"}
  PROVE  /\ ParserSays(parser, s).ok <=> Sought(parser, s) # {}
         /\ ParserSays(parser, s).ok => Sought(parser, s) = {ParserSays(parser, s).value}
<1> DEFINE v == Signed(Scan(s))
           m == Scan(s).magnitude
           N == IsNumber(s)
<1>1. v \in Int /\ m \in Nat /\ v = IF Scan(s).negative THEN -m ELSE m
  BY ScannedIs DEF Signed
<1>2. Sought(parser, s) = IF N THEN Meant(parser, v) ELSE {}
  BY SoughtIs, ScannedIs
<1>3. LongSize \in Nat \ {0} /\ LongSize \div 2 \in Int
  BY TextAssumption
<1>4. ASSUME NEW overflow \in BOOLEAN, NEW x
      PROVE  Accepted(s, Scan(s), overflow, x)
               = IF N /\ ~overflow THEN [ok |-> TRUE, value |-> x] ELSE Refused
  <2>1. PICK h \in Nat : h = Behind(s) /\ h >= 1
    BY PartsFacts
  <2>2. CASE Width(s) = 0
    BY <2>2, ScannedIs, Zenon DEF Accepted, IsNumber
  <2>3. CASE Width(s) # 0
    <3>1. Scan(s).end = h - 1 /\ (h - 1) + 1 = h /\ (h - 1 = 0 <=> h = 1)
      BY <2>1, <2>3, ScannedIs
    <3>2. h # 1
      <4>1. h = First(s) + Width(s) /\ First(s) >= 1 /\ Width(s) \in Nat /\ First(s) \in Nat
        BY <2>1, PartsFacts
      <4>2. QED
        BY <2>3, <4>1
    <3>3. N <=> h - 1 + Run(s, White, h) = Len(s)
      BY <2>1, <2>3 DEF IsNumber
    <3>4. Accepted(s, Scan(s), overflow, x)
            = IF overflow \/ h - 1 + Run(s, White, h) # Len(s) THEN Refused
              ELSE [ok |-> TRUE, value |-> x]
      BY <3>1, <3>2 DEF Accepted
    <3> HIDE DEF N
    <3>5. QED
      BY <3>3, <3>4
  <2>4. QED
    BY <2>2, <2>3
<1> HIDE DEF v, m, N
<1>5. v \in -LongSize + 1 .. LongSize - 1 <=> ~TooLong(Scan(s))
  BY <1>1, <1>3 DEF TooLong, m
<1>6. Unsigned(Scan(s)) = v % LongSize
  BY DEF Unsigned, v, Signed
<1>7. Refused.ok = FALSE
  BY DEF Refused
<1>8. CASE parser = "size"
  <2>1. ParserSays(parser, s) = IF N /\ ~TooLong(Scan(s))
                                THEN [ok |-> TRUE, value |-> v % LongSize] ELSE Refused
    <3>1. TooLong(Scan(s)) \in BOOLEAN
      BY DEF TooLong
    <3>2. QED
      BY <1>4, <1>6, <1>8, <3>1 DEF ParserSays, ParseSize
  <2>2. Meant(parser, v) = IF ~TooLong(Scan(s)) THEN {v % LongSize} ELSE {}
    BY <1>5, <1>8 DEF Meant
  <2>3. QED
    BY <1>2, <1>7, <2>1, <2>2
<1>9. CASE parser = "uint"
  <2>1. ParserSays(parser, s) = IF N /\ ~TooLong(Scan(s))
                                THEN [ok |-> TRUE, value |-> v % IntSize] ELSE Refused
    <3>1. TooLong(Scan(s)) \in BOOLEAN
      BY DEF TooLong
    <3>2. Unsigned(Scan(s)) % IntSize = v % IntSize
      BY <1>1, <1>6, LowBits
    <3>3. QED
      BY <1>4, <1>9, <3>1, <3>2 DEF ParserSays, ParseUint
  <2>2. Meant(parser, v) = IF ~TooLong(Scan(s)) THEN {v % IntSize} ELSE {}
    BY <1>5, <1>9 DEF Meant
  <2>3. QED
    BY <1>2, <1>7, <2>1, <2>2
<1>10. CASE parser = "lint"
  <2>1. ParserSays(parser, s) = IF N /\ ~TooFar(Scan(s))
                                THEN [ok |-> TRUE, value |-> v] ELSE Refused
    <3>1. TooFar(Scan(s)) \in BOOLEAN
      BY DEF TooFar
    <3>2. QED
      BY <1>4, <1>10, <3>1 DEF ParserSays, ParseLint, v
  <2>2. Meant(parser, v) = IF ~TooFar(Scan(s)) THEN {v} ELSE {}
    BY <1>10 DEF Meant, TooFar, v
  <2>3. QED
    BY <1>2, <1>7, <2>1, <2>2
<1>11. QED
  BY <1>8, <1>9, <1>10

\* The number is what a parser made of the line, until another line is read.
Parsed ==
  /\ number.parser \in {"none", "size", "uint", "lint"}
  /\ number.parser # "none" => number.result = ParserSays(number.parser, piece)

\* A line that is parsed is accepted exactly if it is a number whose value the
\* result can hold, and the result has that value.
THEOREM ParsesRight == Spec => []ParsedRight
<1>1. Init => Parsed
  BY DEF Init, ReaderInit, NoNumber, Parsed
<1>2. Parsed /\ [Next]_vars => Parsed'
  <2> SUFFICES ASSUME Parsed, [Next]_vars PROVE Parsed'
    OBVIOUS
  <2>1. UNCHANGED <<number, piece>> => Parsed'
    BY DEF Parsed, ParserSays
  <2>2. number' = NoNumber => Parsed'
    BY DEF Parsed, NoNumber
  <2>3. UNCHANGED reader => Parsed'
    BY <2>1 DEF reader
  <2>4. CASE UNCHANGED vars
    BY <2>3, <2>4 DEF vars
  <2>5. CASE HandlerRuns
    <3>1. CASE Parse
      <4>1. \/ UNCHANGED <<number, piece>>
            \/ /\ UNCHANGED piece
               /\ number' \in {[parser |-> "size", result |-> ParseSize(piece)],
                               [parser |-> "uint", result |-> ParseUint(piece)],
                               [parser |-> "lint", result |-> ParseLint(piece)]}
        BY <3>1 DEF Parse
      <4>2. ASSUME UNCHANGED piece, number' = [parser |-> "size", result |-> ParseSize(piece)]
            PROVE  Parsed'
        BY <4>2 DEF Parsed, ParserSays
      <4>3. ASSUME UNCHANGED piece, number' = [parser |-> "uint", result |-> ParseUint(piece)]
            PROVE  Parsed'
        BY <4>3 DEF Parsed, ParserSays
      <4>4. ASSUME UNCHANGED piece, number' = [parser |-> "lint", result |-> ParseLint(piece)]
            PROVE  Parsed'
        BY <4>4 DEF Parsed, ParserSays
      <4>5. QED
        BY <2>1, <4>1, <4>2, <4>3, <4>4
    <3>2. CASE ~Parse
      <4>1. UNCHANGED <<number, piece>> \/ number' = NoNumber
        BY <2>5, <3>2 DEF HandlerRuns, ReaderNext, LoadFails, Measure, Read, NextLine, FreeFile, Fresh
      <4>2. QED
        BY <2>1, <2>2, <4>1
    <3>3. QED
      BY <3>1, <3>2
  <2>6. CASE HandlerEnds
    BY <2>1, <2>6 DEF HandlerEnds
  <2>7. CASE Next /\ ~HandlerRuns /\ ~HandlerEnds
    BY <2>3, <2>7 DEF Next, Running, Others
  <2>8. QED
    BY <2>4, <2>5, <2>6, <2>7
<1>3. Typed /\ Parsed => ParsedRight
  <2> SUFFICES ASSUME Typed, Parsed, number.parser # "none"
               PROVE  /\ number.result.ok <=> Sought(number.parser, piece) # {}
                      /\ number.result.ok => Sought(number.parser, piece) = {number.result.value}
    BY DEF ParsedRight, Sought
  <2>1. piece \in Seq(STRING) /\ number.parser \in {"size", "uint", "lint"}
    BY DEF Typed, ReaderTyped, Parsed
  <2>2. number.result = ParserSays(number.parser, piece)
    BY DEF Parsed
  <2>3. QED
    BY <2>1, <2>2, ParsersRight
<1>4. QED
  BY <1>1, <1>2, <1>3, TypesHold, PTL DEF Spec

-----------------------------------------------------------------------------
\* The types of the variables on which the others do not depend.
Verdicts == [ok : BOOLEAN, value : Int]
PathsTyped ==
  /\ target \in Seq(Nodes) /\ handled \subseteq Seq(Nodes) /\ handlings \in Nat
  /\ path \in Seq(Nodes)
ResultsTyped ==
  /\ type \in {"UNKNOWN"} \cup {Types[x] : x \in DOMAIN Types}
  /\ number \in [parser : {"none", "size", "uint", "lint"}, result : Verdicts]

AllTyped == Typed /\ PathsTyped /\ ResultsTyped

\* What the parsers return.
LEMMA ParsersTyped ==
  ASSUME NEW s \in Seq(STRING)
  PROVE  ParseSize(s) \in Verdicts /\ ParseUint(s) \in Verdicts /\ ParseLint(s) \in Verdicts
<1>1. Refused \in Verdicts
  BY DEF Refused, Verdicts
<1>2. ASSUME NEW overflow, NEW value \in Int
      PROVE  Accepted(s, Scan(s), overflow, value) \in Verdicts
  <2>1. [ok |-> TRUE, value |-> value] \in Verdicts
    BY DEF Verdicts
  <2>2. Accepted(s, Scan(s), overflow, value) \in {Refused, [ok |-> TRUE, value |-> value]}
    BY DEF Accepted
  <2>3. QED
    BY <1>1, <2>1, <2>2
<1>3. Signed(Scan(s)) \in Int
  BY ScannedIs
<1>4. LongSize \in Nat \ {0} /\ IntSize \in Nat \ {0}
  BY TextAssumption
<1>5. Unsigned(Scan(s)) \in Int
  <2>1. Unsigned(Scan(s)) = Signed(Scan(s)) % LongSize
    BY DEF Unsigned, Signed
  <2>2. Signed(Scan(s)) % LongSize \in 0 .. LongSize - 1
    BY <1>3, <1>4, RemainderIs
  <2>3. QED
    BY <1>4, <2>1, <2>2
<1>6. Unsigned(Scan(s)) % IntSize \in Int
  <2>1. Unsigned(Scan(s)) % IntSize \in 0 .. IntSize - 1
    BY <1>4, <1>5, RemainderIs
  <2>2. QED
    BY <1>4, <2>1
<1>7. QED
  BY <1>2, <1>3, <1>5, <1>6 DEF ParseSize, ParseUint, ParseLint

\* What a step of the walk does to the paths.
LEMMA PathsStep ==
  ASSUME Typed, PathsTyped, [Next]_vars
  PROVE  PathsTyped'
<1>1. Here \in Seq(Nodes) /\ Root \in Nodes /\ <<>> \in Seq(Nodes)
  BY HereFacts, FileSystemAssumption, EmptySeq DEF Typed
<1>2. path' \in {path, target, <<>>} => path' \in Seq(Nodes)
  BY <1>1 DEF PathsTyped
<1>3. UNCHANGED <<target, handled, handlings>> /\ path' \in {path, target, <<>>} => PathsTyped'
  BY <1>2 DEF PathsTyped
<1>4. CASE UNCHANGED vars
  BY <1>3, <1>4 DEF vars, walk, reader
<1>5. ASSUME NEW m \in {"files", "directories"}, StartWalk(m), UNCHANGED reader
      PROVE  PathsTyped'
  <2>1. target' = <<Root>> /\ handled' = {} /\ handlings' = 0 /\ path' = path
    BY <1>5 DEF StartWalk, reader
  <2>2. <<Root>> \in Seq(Nodes)
    BY <1>1
  <2>3. QED
    BY <1>2, <2>1, <2>2 DEF PathsTyped
<1>6. ASSUME NEW c \in Nodes, Entry(c), UNCHANGED reader
      PROVE  PathsTyped'
  <2>1. PICK p \in Seq(Nodes) : p = Append(Here, c)
    BY <1>1, AppendProperties
  <2>2. /\ target' \in {target, p} /\ handled' \in {handled, handled \cup {p}}
        /\ handlings' \in {handlings, handlings + 1} /\ path' = path
    BY <1>6, <2>1 DEF Entry, Handle, reader
  <2>3. target \in Seq(Nodes) /\ handlings \in Nat /\ path \in Seq(Nodes)
    BY DEF PathsTyped
  <2>4. target' \in Seq(Nodes) /\ handlings' \in Nat /\ path' \in Seq(Nodes)
    BY <2>2, <2>3
  <2>5. handled' \subseteq Seq(Nodes)
    <3>1. ASSUME NEW S, S = Seq(Nodes) PROVE handled' \subseteq S
      <4>1. p \in S /\ handled \subseteq S
        BY <3>1, Zenon DEF PathsTyped
      <4>2. handled' = handled \/ handled' = handled \cup {p}
        BY <2>2
      <4>3. QED
        BY <4>1, <4>2, Zenon
    <3>2. QED
      BY <3>1, Zenon
  <2>6. QED
    BY <2>4, <2>5 DEF PathsTyped
<1>7. CASE HandlerRuns
  BY <1>3, <1>7
  DEF HandlerRuns, walk, ReaderNext, LoadFails, Measure, Read, NextLine, Parse, FreeFile, Fresh
<1>8. CASE HandlerEnds
  BY <1>3, <1>8 DEF HandlerEnds, HandlerReturns
<1>9. CASE Others
  BY <1>3, <1>9 DEF Others, walk, reader
<1>10. ASSUME NEW c \in Nodes, SkipEntry(c) \/ StatFails(c), UNCHANGED reader
       PROVE  PathsTyped'
  BY <1>3, <1>10 DEF SkipEntry, StatFails, reader
<1>11. CASE (OpenDir \/ OpenDirFails \/ EndOfDir) /\ UNCHANGED reader
  BY <1>3, <1>11 DEF OpenDir, OpenDirFails, EndOfDir, reader
<1>12. QED
  BY <1>4, <1>5, <1>6, <1>7, <1>8, <1>9, <1>10, <1>11, StepCases

\* What a step of the handler does to its results.
LEMMA ResultsStep ==
  ASSUME Typed, ResultsTyped, [Next]_vars
  PROVE  ResultsTyped'
<1>1. UNCHANGED <<type, number>> => ResultsTyped'
  BY DEF ResultsTyped
<1>2. NoNumber \in [parser : {"none", "size", "uint", "lint"}, result : Verdicts]
  BY DEF NoNumber, Refused, Verdicts
<1>3. Fresh("done") => ResultsTyped'
  BY <1>2 DEF Fresh, ResultsTyped
<1>4. CASE HandlerRuns
  <2>1. CASE LoadFails(target) \/ FreeFile
    BY <1>3, <2>1 DEF LoadFails, FreeFile
  <2>2. CASE Measure(target)
    <3>1. type' = FileType(Spelled(target)) /\ number' = number
      BY <2>2 DEF Measure
    <3>2. type' \in {"UNKNOWN"} \cup {Types[x] : x \in DOMAIN Types}
      BY <3>1 DEF FileType
    <3>3. QED
      BY <3>1, <3>2 DEF ResultsTyped
  <2>3. CASE Read
    BY <1>1, <1>3, <2>3 DEF Read
  <2>4. CASE NextLine
    BY <1>2, <2>4 DEF NextLine, ResultsTyped
  <2>5. CASE Parse
    <3>1. piece \in Seq(STRING)
      BY DEF Typed, ReaderTyped
    <3>2. /\ ParseSize(piece) \in Verdicts /\ ParseUint(piece) \in Verdicts
          /\ ParseLint(piece) \in Verdicts
      BY <3>1, ParsersTyped
    <3>3. \/ number' = number
          \/ number' \in [parser : {"none", "size", "uint", "lint"}, result : Verdicts]
      BY <2>5, <3>2 DEF Parse
    <3>4. QED
      BY <2>5, <3>3 DEF Parse, ResultsTyped
  <2>6. QED
    BY <1>4, <2>1, <2>2, <2>3, <2>4, <2>5 DEF HandlerRuns, ReaderNext
<1>5. CASE UNCHANGED reader
  BY <1>1, <1>5 DEF reader
<1>6. CASE HandlerEnds
  BY <1>1, <1>6 DEF HandlerEnds
<1>7. QED
  BY <1>4, <1>5, <1>6 DEF Next, Running, Others, vars

\* Every variable keeps its type: the paths are paths of nodes, the type of a
\* file is one of those that there are, and the parsers return integers.
THEOREM FilesTyped == Spec => []AllTyped
<1>1. Init => PathsTyped /\ ResultsTyped
  <2>1. NoNumber \in [parser : {"none", "size", "uint", "lint"}, result : Verdicts]
    BY DEF NoNumber, Refused, Verdicts
  <2>2. QED
    BY <2>1, EmptySeq DEF Init, WalkInit, ReaderInit, PathsTyped, ResultsTyped
<1>2. Typed /\ PathsTyped /\ ResultsTyped /\ [Next]_vars => PathsTyped' /\ ResultsTyped'
  BY PathsStep, ResultsStep
<1>3. QED
  BY <1>1, <1>2, TypesHold, PTL DEF Spec, AllTyped

=============================================================================
