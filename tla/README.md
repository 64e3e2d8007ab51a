# easyc in TLA+

`easyc` (`src/`) is a C library of everyday utilities: memory accounting,
containers, sorting, sockets, files, threads and small conversions. This directory
holds TLA+ models of the parts of it that have logic of their own, the TLC
configurations that check them, and theorems about every modelled component that
TLAPS proves for every instance. Paths below are relative to `src/`; line numbers are those of
the revision that is modelled.

## 1. The system

| Component | Source | State it keeps | Operations | What is hard about it |
|---|---|---|---|---|
| Memory wrapper | `include/easymemory.c` | one static byte counter; a `size_t` in front of each block | allocate, reallocate, free, `EZ_ALLOCATED()` | unsynchronised counter, wrap of `amount * size`, every leak of the others shows here |
| Array list | `include/easyobjects.h` 26-314 | block, size, capacity | add, insert, remove, get, zero, clear, wipe, remove a range | loops that shift, capacity 0, wrapping ranges |
| Hash map | `include/easyobjects.h` 316-429 | slots, size, tombstones, capacity | set, has, get, ref, remove, clear | probing with wrap-around, tombstones, growth by calling itself |
| Priority queue | `include/easyobjects.h` 431-554 | nodes, heap of references, size, capacity | build, insert, pop, top, update, clear | two arrays that refer to each other, handles kept by callers |
| Sorting | `include/easysort.h` | the list it is given, its temporary blocks | `EasySort` | gaps closed in place, binary search bounds, stability, NaN scores |
| Sockets | `include/easynet.c` | three registries, object fields, process descriptors | generate, open/connect, accept, close, clean, clean all | failure half-way, stale descriptor numbers, leaks |
| Buffers, transfer | `include/easynet.c` | bytes and `current_length` | record, translate, send, ask, receive, throw | pieces of a stream, datagrams, stale contents |
| Files | `include/easyfile.c` | a file's bytes, a cursor and a line number; recursion over directories | load, free, next line, walk | over-long lines, `int` offsets, one failure among several, links in a cycle, others changing the files |
| Threads | `include/easythreads.h` | none (macros) | create, join, mutex, condition | makes every static of the library shared |
| Profiler | `include/easyprofile.c` | a window of samples | begin, end, result | little |
| Parsing, hashing, time, math | `include/easyparse.c`, `easyhash.c`, `easytime.c`, `easymath.c` | none to speak of | pure functions | integer widths |
| Logger | `include/easylogger.h` | none | print; `EZ_FATAL` and `EZ_ASSERT` end the process | with `PROD_BUILD` both do nothing |

They interact by plain calls in one thread: the containers, the sorting and the
sockets call the memory wrapper; `EasySort` works in the block of an array list;
a hash function and a score function are passed in by the caller. The one callback that
runs in the middle of an operation is the handler of a directory walk, which typically
loads the file, reads its lines and parses them; there are no messages other than those
on sockets. Threads exist only if the program makes them, and no component locks anything.

`easybasics.[hc]` instantiates the containers for the basic types;
`test/testing.c` is where the promises come from that the runs of kind "violation"
quote.

## 2. The modules

Shared:

* **EzMemory** - the accounting of `easymemory.c` as three operators on the
  counter. A block of n elements weighs `n + Header`.

Abstract specifications, one variable or two each:

* **EzDict** (dictionary), **EzPriority** (items under handles, pop takes one of
  least cost), **EzList** (sequence), **EzStream** (byte stream, of which only a connection
  that ends may lose something), **EzPost** (messages that arrive never, once or often, in any
  order, each alone), **EzLines** (a text taken line by line, long lines in pieces).

Components, each with an `MC...` module that only names model values and small
constants:

* **EzHashMap** (`IMPL_HASHMAP`). `entries` is a function on slot numbers; a slot is
  unused, a tombstone or a pair. The hash function is a *constant function* from keys
  to naturals, so that every collision pattern is an instance. A call is a step,
  except a `set` that grows: `SetGrow` swaps the tables, `Reinsert` is one turn of the
  loop over the old table (with the recursive `HASHMAP_set` inside it), `SetGrown`
  frees the old table and stores the new pair. The probing loops are written as "the
  first slot of a stop set that the loop meets"; an empty stop set is an endless loop
  and becomes `pc = "spinning"`, a growth inside a growth becomes `pc = "nested"`, a
  probe without a table `pc = "null"`.
* **EzPQueue** (`IMPL_PQUEUE`). `list` (nodes) and `refs` (heap of references) are both
  kept, with the position each node stores. Each turn of `heapU` and `heapD` is a step,
  so that the half-sifted heap is visible to the invariants.
* **EzArrList** (`IMPL_ARRLIST`, its two copies and `ARRLIST_REMOVE_RANGE`). Each turn
  of the shifting loops is a step; `size_t` has a width where a sum can wrap, and
  `ARRLIST_REMOVE_RANGE` is called with any two of its values.
* **EzSort** (`EasySort`). Each turn of the three passes (`Flag`, `Copy`, `Close`) and
  each turn of the binary search is a step; `data` is the block of the list, so that an
  element overwritten while the gaps are closed would be lost. A score may be NaN, which
  compares false with everything. `allocated` counts the three temporary blocks.
* **EzNet** (`easynet.c`, one calling thread). `registry` holds the three linked lists;
  `socket` and `open` are object fields; `file` says what each descriptor of the process
  refers to; `heap` is the set of blocks that `EZ_ALLOCATED()` counts (an object and the
  node that tracks it). Every system call may fail. A new descriptor is the lowest free
  one, so that the numbers which closed and failed objects still hold are soon in use
  again. `close_connection`, `clean_server` and `clean_client` are the same search, and
  one operator, `Clean`. `ez_clean_network` is a loop with a step per object; the history variable
  `due` remembers from its beginning which blocks and which descriptors are nobody's, so that
  `CleanedAll` can say what it has to leave. The calls that move bytes leave this state alone,
  but for `ez_check_network` (`Transfer`), which those for datagrams do without
  (`TransferDatagram`). Only live objects are passed to the calls, except to the cleaning ones,
  which compare addresses.
* **EzBuffer** (the rest of `easynet.c`; its next-state relation is `BufferNext`, so that one
  module can hold the proofs about both halves of the file). A sender's buffer, a receiver's buffer, the
  bytes between them, and the datagrams thrown. Client and server run the same code for
  each direction, so that one direction is modelled. `recv` returns any positive number
  of the bytes under way; a connection that ends may lose the last of them; datagrams are lost,
  repeated and reordered at will. What the receiver gets out of a stream and out of datagrams is
  kept apart (`delivered`, `handed`), and each is compared with its abstract specification. The receiver
  is one that looks at results: it translates a buffer once after each call that
  returned TRUE, and before it receives again. A signal that cuts a blocking `send` short
  is left out.

* **EzAllocator** (`easymemory.c` in several threads, with the mutex, create and join of
  `easythreads.h`). Every `+=` and `-=` on `g_ezn_allocated_bytes` is a load and a store
  (`Load`, `Store`), and `calloc`, `realloc` and `free` are steps of their own between them,
  in the order of the code: `ez_allocate` counts before it allocates, `ez_free` before it
  frees, `ez_reallocate` after. `length` is the header of each block. Each thread either takes the
  program's mutex around every call or does not (`polite`, any subset of the threads).
  Lengths wrap at `WordSize`; a null pointer from the system ends the process. A block that wrapped
  to less than its header may end the process too; what it may overwrite instead is left out.
* **Files**, in five modules. **EzFileSystem** (external) is the file system with a
  program that removes, cuts or lengthens files at any moment (`Vanish`, `Rewrite`); "children"
  is a graph, so that links may make a cycle. **EzWalk** is the recursion of the two walks:
  `stack` holds their frames, and each `opendir`, each entry with its `stat`, and each return
  is a step. **EzText** holds the pure functions: the integer parsers of `easyparse.c` (`strtoul`
  is external) and the path functions. **EzReader** is a handler that calls `ez_load_file` (two
  steps: measure, read), `ez_next_line`, a parser on some of the lines, and `ez_free_file`.
  **EzFiles** composes them: the handler runs inside the walk, others in between.
  `ez_next_line` keeps the line end in an `int` and compares it as a `size_t`; `ToInt` and the
  subtraction modulo `WordSize` are these conversions. Behind a line end at `INT_MAX` the code adds
  1 to the greatest `int` (`:153`): `NextStart` is what builds make of that. A copy that leaves the caller's buffer
  or the file's data ends the behaviour in `at = "overrun"`.

### The discipline `Careful`

Some container calls do something other than their names say. Runs and theorems
that compare a container with its abstract specification therefore restrict
the *caller*, never the code; `Careful = TRUE` means:

* hash map: get and remove only keys that are there, and `set` a key that is already in
  the map only while no tombstone is left;
* priority queue: pop and update only what is queued, build a cleared queue from at
  least one pair, insert only while the node `list[size]` is free;
* array list (the variable `careful`, so that both kinds of client are in one run): ranges
  of `ARRLIST_REMOVE_RANGE` whose end does not wrap. Only the refinement asks for it.

With `Careful = FALSE` callers do anything. The violation runs of the hash map and the queue use it, and so does
`hashmap_any`.

### Mutants

Operators under a comment that starts with "Mutant" are plausible bugs (a dropped
guard, a wrong comparison, a missing reset) of the operator that follows them. No
action uses them; each property is known to fail when its operator is replaced by
its mutant.

## 3. What the runs check

| Run | Instance | Result |
|---|---|---|
| `hashmap_any` | 3 keys (two collide in the last slot of every table, so that probing wraps into the home of the third), 2 values, tables up to 16 slots, any caller | types; `Counted`; `ProbesStop`; `NoNestedGrowth`; `ChainsUnbroken`; `MemoryBalanced`; `GrowthKeepsKeys`; `SetIsVisible` |
| `hashmap_careful` | the same, careful caller | `OneSlotPerKey`; implements `EzDict`; `GrowthEnds` |
| `hashmap_remove` | any caller | violated: a removed key is found again |
| `pqueue_careful` | 2 values, 3 costs, up to 4 nodes | types, with `MemoryBalanced`; `HandlesMatch`; `HeapOrder`, also in the middle of a sift; implements `EzPriority` |
| `pqueue_reuse` | any caller | violated: an insert overwrites a queued node |
| `arrlist_any` | 2 elements, up to 6 slots, `size_t` modulo 8, any caller | types (no access outside the block until a wrapped range overruns it); `OnlyZeroLeaks`; implements `EzList` for a careful caller |
| `net_any` | 2 servers, 1 client, 2 connections, 3 descriptors besides standard input, ports 1023 and 1024 | types, with `UsedWhileInitialized`; `SocketsOwned`; `OnlyAcceptLeaks`; `OnlyMyIpLeaks`; `CleanedAll`; `CleaningEnds` |
| `net_leak` | 1 of each | violated: a failed accept leaves a block after `ez_clean_network` |
| `buffer_any` | 2 bytes, messages up to 4, buffers of 3 and 2, 2 bytes under way, 2 different datagrams | types; implements `EzStream`; implements `EzPost` |
| `sort_any` | lists up to 6 over 4 scores and NaN | types (stays in the block; `MemoryBalanced`: frees its own blocks); `NothingLost`; `KeptSorted` (stable, with `SearchBrackets` during a search); `SortingEnds` |
| `allocator_any` | 2 threads, 2 calls each, 2 blocks, lengths that fit and that wrap, any of them using the mutex | `OnlyLostUpdatesDrift`; `LockedIsExact`; `AllJoined` |
| `files_any` | 5 nodes: a directory with one file of any text up to 4 characters, of any name up to 3, of strings around the range of a `long`, or beyond the range of an `int`; trees, shared subtrees and a cycle, with a dangling link or a directory that cannot be read; buffers of 2 and 4; 1 change by others; 4 descriptors | `WalkCovers`; `OnlyStatLeaks`; `WalkEnds`; `LoadedRight`; implements `EzLines`; `ParsedRight` |

Why the bounds suffice. *Hash map*: 16 slots are four growths from nothing (2, 4, 8,
16), with tombstones carried up to the load factor; wrap-around, collision, and a tombstone
before a live slot of the same chain occur at 4 already. *Queue*: four nodes are the smallest heap with a grandchild and with a position
that has one child only; three costs are needed to tell the three-way comparison of
`heapD` from a wrong one. *List*: six slots include two doublings and shifts across them.
*Sort*: six elements are enough for two displaced ones among four kept, searches of
depth three, and ties on both sides. *Net*: three descriptors for five objects that may
want one make every number change owner and the table run full. *Buffer*: the
receiver's buffer is smaller than a message, so that pieces and cut datagrams occur, and two
datagrams, from nothing to three bytes long, may arrive in any order and between pieces of the
stream, the shorter one after the longer one included.
*Allocator*: a lost update needs two threads and one call each, a block that one thread
allocates and another frees or resizes needs two. *Files*: texts of four characters hold
lines shorter than, as long as and longer than both buffers, with and without a last
line end. The parsers get every line of up to three characters over three digits, two
kinds of blank, both signs and a letter; a `long` has 16 values and an `unsigned int` 8, so that
there are numbers on both sides of -8, 8 and 16, and numbers in the range of a `long` that the 8 values
cut (longer strings are the subject of `ParsesRight`). An `int` of the line search has 16 values, so that a file of 18 characters has line
ends on both sides of its range, and 18 characters wrap it. Paths of four
nodes let a walk go round the cycle and be stopped by the limit; four descriptors run
out after enough walks over a dangling link.
The theorems of section 4 hold for every choice of these constants.
`MaxBytes`, `MaxCapacity`, `MaxCalls` and `MaxChanges` only cut off what would go on for ever
(leaks, growth, callers, other programs).

`pqueue_careful` has a `VIEW`: two states are one when they differ only in nodes that are not
queued and in references beyond `size`. A careful client and the code read neither before
they are written, so that the properties cannot tell such states apart. Without the view the run
finds the same in ten times the time. Three runs use symmetry of interchangeable values; none of them
checks liveness.

`CHECK_DEADLOCK FALSE` is set where the program may really stop: a process that died in
`EZ_FATAL`, `EZ_ASSERT`, through a null pointer or in a hardened build, without memory, or after a
buffer overran; threads that are all joined; and `EasySort` when it has returned.

Fairness. Five properties are liveness properties. `GrowthEnds`, `CleaningEnds` and
`SortingEnds` assume weak fairness of the turns of one loop, and `WalkEnds` of the steps of
the walk and its handler together: all of these run in the thread that made the call, which does not wait for anyone in
it. Callers are never assumed to call. `AllJoined` assumes weak fairness of each thread and of the
main thread, as a scheduler gives; the mutex need not be fair, because a thread
makes finitely many calls.

### What the violation runs show

1. `hashmap_remove` - `HASHMAP_set` (`easyobjects.h:355`) stops at the first slot that is not
   in use, tombstones included, and does not look whether the key follows on the chain.
   When a third key had to be stored behind k1, as in TLC's trace, where set(k1), set(k2), set(k3)
   put k2 in slot 7, k1 in 0 and k3 in 1 of 8 slots, then remove(k1), set(k3) stores k3 twice, in the
   tombstone and where it was; remove(k3) takes the first and uncovers the older pair. (On an empty map of
   two slots two colliding keys do not suffice: the tombstone has to come before the live slot.)
2. `pqueue_reuse` - `PQUEUE_insert` (`:516`) writes to `list[size]`, but `PQUEUE_pop` frees a
   position of `refs`, not that node: the insert may overwrite a queued element. After a build of
   two and a pop of the first, the other one is in `list[1]`, which the insert takes.
3. `net_leak` - `ez_server_accept` (`easynet.c:240`) allocates first and never frees when it
   gives up.

Also in the models, without a run because a run would only restate one missing test:
`HASHMAP_get` and `HASHMAP_remove` on a map without a table probe through a null pointer
(`easyobjects.h:382`, `:411`; `pc = "null"`); closing or cleaning an object while its registry
is empty does the same (`easynet.c:285`, `:325`, `:526`; `pc = "null pointer"`);
`ez_server_accept_timed` and `ez_server_recieve_from_timed` on a server that was never opened
hand -1 to `FD_SET` (`:271`, `:408`); `PQUEUE_update` accepts the handle of an element that was popped
and reads the node before it compares the handle with the capacity (`easyobjects.h:540`).

### What the passing runs show besides

Some properties name the one place where something does go wrong, and exclude all others:

* `OnlyZeroLeaks` - `ARRLIST_zero(list, 0)` makes a block of capacity 0; `ARRLIST_add`
  (`easyobjects.h:61`) takes capacity 0 for "no block yet" and loses it.
* a wrapped range of `ARRLIST_REMOVE_RANGE` (`easyobjects.h:44`) passes the test and
  lengthens the list instead; as long as the result fits, nothing outside the block is touched.
* `OnlyLostUpdatesDrift` - without a mutex, `EZ_ALLOCATED()` goes wrong exactly when a thread
  stores over another one's update, and stays wrong by that amount.
* `OnlyStatLeaks` - both walks return from a failed `stat` without `closedir`
  (`easyfile.c:205`, `:254`). A dangling link costs a descriptor for each walk over it, and
  in each frame where an entry fails.
* `WalkCovers` - only for a walk that nothing disturbs is TRUE promised: `ret` is overwritten by
  the next subdirectory (`:209`, `:259`), so that TRUE does not mean that all directories opened.
  A directory reached by two paths is walked twice, a cycle until the path is too long.
* `ImplementsLines` - a line that is exactly as long as the buffer leaves no NUL in it
  (the handler of the model does not parse such a line), and a last line without a line end
  is copied whole, whatever the size (`:142`): its abstract counterpart is `Overrun`.
  For a file whose length an `int` cannot hold (`:136`) only `WalkEnds` is claimed.
* `CleanedAll` - what `ez_clean_network` leaves are the connections that accepts gave up
  (`OnlyAcceptLeaks`) and the sockets of `ez_get_my_ip` (`OnlyMyIpLeaks`), and these it leaves alone.
* `ImplementsStream` - what was sent last may be lost with the connection; `send` has returned TRUE.
* `ParsedRight` - `ez_parse_uint` accepts numbers beyond 32 bits and cuts them; a minus sign
  wraps, as `test/testing.c:535` says of `ez_parse_size`.

## 4. What is proved

All theorems hold for every value of the constants that satisfies the named assumptions,
which TLC evaluates in the runs. All but `Types` and `FilesTyped`, which say that
every variable keeps its type, state properties that the runs check.

| Module | Client | Assumptions | Theorems |
|---|---|---|---|
| `EzHashMapProofs` | any | `HashAssumption`, `HeaderAssumption` | the seven invariants of `hashmap_any` (`TypeCorrect`, `CountersRight`, `ProbingEnds`, `GrowthDoesNotNest`, `ChainsStayUnbroken`, `NothingLeaks`, `GrowthForgetsNothing`) and its action property (`SetsAreVisible`) |
| | careful | the same | `KeysHaveOneSlot`, `DictImplemented` |
| `EzPQueueProofs` | careful | `PQueueAssumption`, `HeaderAssumption` | `ReferencesInside`, `HandlesStayValid`, `HeapStaysOrdered`, `HeapImplementsPriority` |
| `EzArrListProofs` | any | `ArrListAssumption`, `HeaderAssumption` | `ListInsideItsBlock`, `OnlyZeroLosesMemory` |
| | careful | the same | `ListImplemented` |
| `EzSortProofs` | any score function | `SortAssumption`, `HeaderAssumption` | `StaysInside`, `LosesNothing`, `SortsStably` |
| `EzNetProofs` | any | `NetAssumption` | `RegistriesSound`, `DescriptorsOwned`, `OnlyFailedAcceptLeaks`, `OnlyGetMyIpLeaks`, `CleaningIsComplete` |
| | | `BufferAssumption` | `BuffersKeepTheirBounds`, `StreamImplemented`, `PostImplemented` (about EzBuffer) |
| `EzAllocatorProofs` | any, and one whose threads all lock | `AllocatorAssumption` | `Types`, `OnlyStaleStoresDrift`, `LockedCount` |
| `EzFilesProofs` | any, and others who change the files | `FileSystemAssumption`, `TextAssumption`, `ReaderAssumption`, `HeaderAssumption` | `FilesTyped`, `NothingElseLeaks`, `LoadsWholeFiles`, `LinesImplemented`, `WalksCover`, `ParsesRight` |

`EzLemmas` holds what several of them cite: sequences (a part, an insertion, a removal, an
append, element by element), the least natural of a set, sums over finite sets, and remainders.

What the assumptions ask beyond types: `TextAssumption` has the range of a `long` a multiple of
that of an `unsigned int` (both are powers of two), digits worth 0 to 9, and blanks, signs and
digits different characters; `FileSystemAssumption` gives entries to directories only. The bounds
`MaxCapacity`, `MaxSize`, `MaxBytes`, `MaxLength`, `MaxPipe`, `MaxAir`, `MaxCalls` and `MaxChanges` are arbitrary naturals there,
so that a theorem speaks of all behaviours that stay below some bound; for the array list
the bound is also below the width of `size_t` (`ArrListAssumption`).

Each proof has the same shape: an inductive invariant `IInv` (below), a lemma for each action
that it keeps `IInv` (`SetInv`, `PopInv`, ...), and `Invariance`, which puts them
together. A refinement follows from the same lemmas, which also say which step of the abstract
specification an action is.

*Hash map.* `ProbesStop` is not inductive: that a table keeps an unused slot follows
from the counters and the load factor, and during a growth from how much of the old
table has been carried over. `IInv` therefore adds

* between calls (`Light`): at most 70% of the slots are in use or tombstones;
* while growing (`Growing`): no tombstones yet, the new table twice the old one, the old
  one at most 70% full, `size` at most the number of old pairs passed, and each of their
  keys present in the new table.

Then `size + tombstones < capacity` whenever a slot is looked for, so that a stop slot
exists (`UnusedSlot`), the nested call is never crowded (`GrowthDoesNotNest`), and the slot
found for a key is the nearest of its stop set, hence before every unused slot of its chain
(`ChainsStayUnbroken`). "The first slot of a stop set" is shown to exist by well-foundedness
of strict inclusion of finite sets, since induction over an operator cannot be used. For the
careful caller `CInv` adds that keys are unique in the table and that, during a growth, the new
table holds exactly the pairs passed. Uniqueness makes `Lookup` independent of the table's
layout, which gives the refinement: `Set` and `SetGrown` are `Put`, `Remove` is `Delete`,
`Clear` is `Drop`, and growing stutters, the dictionary being the old table until `SetGrown`.

*Priority queue.* `HandlesMatch` says that `index` undoes `refs`; hence no node is queued
twice, and the two writes of a swap never hit the same node (`SwapFacts`). `HeapOrder` as
checked is not inductive: `heapU` needs to know of *every* position but its own that it
is in order, and of its children that they are no cheaper than its parent (`Rising`);
`heapD` the same of the positions that `PQUEUE_build` has reached (`Falling`). Four lemmas
about functions from positions to costs (`RisesOn`, `RisenUp`, `FallsOn`, `FallenDown`) carry
these through the turns. That the root is the cheapest, which is what pop promises, would be an
induction over the depth of the tree; `RootLeast` takes the first position that is cheaper
than the root instead, whose parent would come before it.

*Array list.* `IInv` is the type invariant, the bound on `maxsize`, which keeps every index
but the end of a range from wrapping, and that no byte is freed twice. For the refinement the
contents in the middle of a loop are given in two forms, with the gap of an insert closed
and with the copy of a remove left out, and `InsertSeq` and `RemoveSeq` join them to the
sequence of `EzList`.

*Sorting.* While the passes run, `displaced` and the closed part of the block each hold
the elements of a set of positions, in the order of the list (`Lists`): so no element is
twice in them, and the three sets are together all positions. In a list without NaN no
position that stands is below an earlier one, and a flagged one comes behind every standing
one of its score (`FlagsInOrder`), because each flagged one is below `prev_score`, the
greatest so far (`PrevGreatest`). When the gaps are closed that becomes: the displaced wait
in their original order, each behind every kept element of its score (`Waiting`). With
`SearchBrackets` it puts an element behind its equals and nowhere else.

*Sockets.* `IInv` ties the four views of an object together: it is tracked in the registry
of its kind, once, or not at all; a tracked object and its node are in the heap; an
object that is open is tracked, and its field names a descriptor of its kind that no other
open object's does. A new descriptor is a free one, and what an open object holds
is not free: so a new holder takes nothing from anybody (`NewHolder`), whatever
number the closed and failed objects still have. What `EZ_ALLOCATED()` counts beyond the
tracked objects can then only be connections that an `accept` gave up. For `CleaningIsComplete` the
invariant says that in the middle of the cleaning what belongs to no object (`Cleared`) is still what it was
when it began (`due`): each `Release` takes from the heap and the descriptors just what its
object adds to them, because no other object holds the same.

*Buffers.* The sender's buffer is always what the last successful `ez_record_buffer` made of its
argument (`out = Recorded(letter)`), so that everything sent or thrown is a prefix of it;
of the receiver's buffer the first `current_length` bytes are bytes of the program, whatever an
older, longer message has left behind them. `StreamImplemented` maps what was received and not
translated, followed by what is under way, to the queue of `EzStream`: `recv` moves bytes from
one to the other and is a stutter; only `ez_translate_buffer`, and a connection that ends, take
from the queue. `PostImplemented` rests on what the receiver's buffer claims after `recvfrom`:
whatever was in it, it is what fits of one datagram (`Fitting`).

*Allocator.* `IInv` says that a call between its steps knows its block and the block's header
(`CallsOK`), that no two calls work on one block (`Apart`), and who holds the mutex
(`MutexOK`). The argument is then an account (`StepAccounts`): every step of every thread either
changes neither the counter nor `Booked`, the sum of all headers and of what running calls have
still to count, or it is a store that adds to the loaded value exactly what `Booked` grows
by. A store of a value that is still in the counter hence keeps the error (`StoreInTime`), and
the difference modulo `WordSize` does not see whether either sum has wrapped
(`ShiftedRemainder`). When all threads lock, `Exact` is inductive: a thread that has loaded
holds the mutex, so that no loaded value is stale. The sums are folds over finite sets; that an
element may be taken out of one (`SumTakeOut`) is shown by a smallest counterexample instead
of an induction.

*Files.* `Typed` is the inductive type invariant; it includes that the stack is empty between
walks and that `target` lies in the directory being read. Upon it rest:

* `NothingElseLeaks`, step by step: each way into and out of a frame or a loaded file changes
  `descriptors`, the stack and `allocated` together, except the return from a failed `stat`.
* `LoadsWholeFiles`. `Untouched` (nobody changed anything yet) and `Loaded` (what is kept of the
  file between its two steps) are inductive. That the type is that of the name behind the last
  separator holds for any path, however the names of directories are spelled, because
  the separator cuts off every dot before it (`TypeOfName`).
* `LinesImplemented`, with `Inside`: in a file whose offsets an `int` can hold, the cursor never
  passes the end. The first line of the text from the cursor on is then where `ez_next_line`
  looks for it, and each turn is `ReadLine` or `Overrun` of `EzLines`.
* `WalksCover`, in two halves. No path is handed out twice in any graph: below an entry that
  is still to come, nothing was handed out (`NotYet`: `HandledOnce`, `ComesOnce`, `Entered`,
  `Ahead`), which needs that an entered directory is no longer to come in the frame above. And
  nothing is missed: in an ordinary tree that is left alone nothing fails, every open directory
  has a frame, the stack lies on a path of the world, and each path that is to be handed out was
  or is still below an entry to come (`Covers`: `NoneFailed`, `NoneAstray`, `OnPaths`,
  `NoneMissed`). At the end nothing is to come. The recursive function `PathsOf` is brought into
  closed form, paths being sequences from the root of which each node holds the next, by
  the least length at which they would differ (`PathsOfIs`).
* `FilesTyped` (`AllTyped`) says of the paths handed out (`PathsTyped`) and of the results of loading,
  parsing and handling (`ResultsTyped`) what `Typed`, on which the others rest, leaves out.
* `ParsesRight`. The three places that `Numeral` asks for are unique and are those where `strtoul`
  stops (`NumeralIs`), because a run of characters is as long as it can be. The value that
  `strtoul` accumulates from the left is the sum of the digits by their powers of ten
  (`DigitsSum`). The number theory left is that the low half of a remainder is the remainder of
  the low half (`LowBits`).

Only model-checked: `GrowthEnds`, `SortingEnds`, `CleaningEnds`, `AllJoined` and `WalkEnds`,
because liveness under fairness is out of the prover's reach; and what callers who do
not keep to the discipline find in the queue. All other properties of the passing runs are theorems.

## 5. Not modelled

* Out of memory outside `EzAllocator`: `calloc` and `realloc` results are used unchecked
  everywhere, and `EzAllocator` ends the process there.
* `PROD_BUILD`, which turns `EZ_FATAL` and `EZ_ASSERT` into nothing: the models are of the
  other build, where they end the process.
* Several threads inside a container or the socket registries. No component promises it;
  besides the memory counter the registries are where it would bite, and the
  `accept` after the `select` in `ez_server_accept_timed`.
* Condition variables of `easythreads.h`: macros without a user in the repository.
* NaN costs in the priority queue, addresses and name lookup of sockets, `getaddrinfo`'s own
  memory (lost on every failing path of a UDP open), Windows branches.
* Of the files: FIFOs and devices (`fopen` may wait, `ftell` fails), characters NUL in a file,
  `ez_file_exists` and `ez_directory_exists`, which are one `stat` each.
* `ez_parse_float` and `ez_parse_bool` (a library call, a table of spellings) and
  `ez_reconstruct_command` (a join of the arguments).
* Profiler and math: floating point throughout. Hash functions: bit mixing that the hash map's
  models replace by every function there is. Time: clock reads and a sleep. Logger: printing.

## 6. Plan

Written in this order; all but the last two exist.

1. EzMemory, EzHashMap with EzDict, their runs, `EzHashMapProofs`.
2. EzPQueue with EzPriority. 3. EzArrList with EzList. 4. EzSort. 5. EzNet. 6. EzBuffer with EzStream.
7. EzAllocator. 8. EzFileSystem, EzText, EzReader with EzLines, EzWalk, and EzFiles, which
   composes them.
9. Proofs about the containers, the sorting and the sockets, then about the buffers, the
   allocator (`EzAllocatorProofs`) and the files (`EzFilesProofs`).
10. The priority queue for callers that break the discipline: what still holds of its
    references when a queued node is overwritten.
11. EzNet with a second thread between `select` and `accept`.
