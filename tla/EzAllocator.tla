----------------------------- MODULE EzAllocator -----------------------------
(***************************************************************************)
(* include/easymemory.c called by several threads of a program, with the   *)
(* threads and the mutex of include/easythreads.h.                         *)
(*                                                                         *)
(* The library takes no lock: each "+=" and "-=" on g_ezn_allocated_bytes  *)
(* is a load and a store, between which other threads run.  The program    *)
(* may hold a mutex of its own around each call, as the thread test does   *)
(* around its sum; `polite' are the threads that do.  The main thread      *)
(* creates every thread and waits for each.  A block is used by one call   *)
(* at a time, but any thread may free or resize it.                        *)
(***************************************************************************)
EXTENDS Integers, FiniteSets, Functions

CONSTANTS
  Threads,
  Addresses,    \* what calloc and realloc may return
  Requests,     \* values of amount * size, before it wraps
  Header,       \* sizeof(size_t)
  WordSize,     \* size_t arithmetic is modulo this
  MaxCalls,     \* bound: calls per thread
  NoOne, None   \* no holder of the mutex; no loaded value

ASSUME AllocatorAssumption ==
  /\ WordSize \in Nat /\ Header \in 1 .. WordSize - 1
  /\ Requests \subseteq Nat /\ MaxCalls \in Nat
  /\ IsFiniteSet(Threads) /\ NoOne \notin Threads
  /\ None \notin Addresses /\ None \notin 0 .. WordSize - 1

VARIABLES
  counter,      \* g_ezn_allocated_bytes
  length,       \* the header of every live block
  mutex,        \* the thread that holds the program's mutex
  polite,       \* the threads that take it around each call
  at,           \* where each thread is
  call,         \* its call: the block, its old and its new length
  reg,          \* what it has loaded from the counter and not yet stored
  calls,        \* how many calls it has made
  dead          \* has the process ended?

vars == <<counter, length, mutex, polite, at, call, reg, calls, dead>>

Live == DOMAIN length
NoCall == [block |-> None, old |-> 0, new |-> 0]

\* amount * size + sizeof(size_t)
Bytes(request) == (request + Header) % WordSize

\* The blocks some running call works on.
InUse == {call[t].block : t \in Threads}

Init ==
  /\ counter = 0 /\ length = [b \in {} |-> 0]
  /\ mutex = NoOne /\ polite \in SUBSET Threads
  /\ at = [t \in Threads |-> "new"]
  /\ call = [t \in Threads |-> NoCall]
  /\ reg = [t \in Threads |-> None]
  /\ calls = [t \in Threads |-> 0]
  /\ dead = FALSE

-----------------------------------------------------------------------------
\* A step of thread t from one place to another, the process being alive.
Go(t, from, to) ==
  /\ ~dead /\ at[t] = from
  /\ at' = [at EXCEPT ![t] = to]

\* EZ_CREATE_THREAD and EZ_WAIT_THREAD, called by the main thread.
Create(t) ==
  /\ Go(t, "new", "outside")
  /\ UNCHANGED <<counter, length, mutex, polite, call, reg, calls, dead>>

Join(t) ==
  /\ \A u \in Threads : at[u] # "new"
  /\ Go(t, "finished", "joined")
  /\ UNCHANGED <<counter, length, mutex, polite, call, reg, calls, dead>>

\* The thread function returns.
Finish(t) ==
  /\ Go(t, "outside", "finished")
  /\ UNCHANGED <<counter, length, mutex, polite, call, reg, calls, dead>>

\* The thread decides on another call.
Enter(t) ==
  /\ Go(t, "outside", "locking")
  /\ calls[t] < MaxCalls /\ calls' = [calls EXCEPT ![t] = @ + 1]
  /\ UNCHANGED <<counter, length, mutex, polite, call, reg, dead>>

\* Mutant: the mutex is not waited for.
LockBlindly(t) ==
  /\ Go(t, "locking", "inside")
  /\ mutex' = IF t \in polite THEN t ELSE mutex
  /\ UNCHANGED <<counter, length, polite, call, reg, calls, dead>>

\* EZ_LOCK_MUTEX, for a thread that uses the mutex.
Lock(t) ==
  /\ Go(t, "locking", "inside")
  /\ IF t \in polite THEN mutex = NoOne /\ mutex' = t ELSE UNCHANGED mutex
  /\ UNCHANGED <<counter, length, polite, call, reg, calls, dead>>

\* Mutant: a way out that forgets the mutex.
ReleasedNot(t) == mutex

\* EZ_RELEASE_MUTEX
Released(t) == IF t \in polite THEN NoOne ELSE mutex

\* The call returns.
Leave(t) ==
  /\ Go(t, "returning", "outside")
  /\ mutex' = Released(t)
  /\ call' = [call EXCEPT ![t] = NoCall]
  /\ UNCHANGED <<counter, length, polite, reg, calls, dead>>

-----------------------------------------------------------------------------
\* The three calls.  ez_free and ez_reallocate first read the header; ez_free
\* of a null pointer returns at once.
Allocate(t, request) ==
  /\ Go(t, "inside", "count in")
  /\ call' = [call EXCEPT ![t].new = Bytes(request)]
  /\ UNCHANGED <<counter, length, mutex, polite, reg, calls, dead>>

Reallocate(t, b, request) ==
  /\ Go(t, "inside", "realloc") /\ b \in Live \ InUse
  /\ call' = [call EXCEPT ![t] = [block |-> b, old |-> length[b], new |-> Bytes(request)]]
  /\ UNCHANGED <<counter, length, mutex, polite, reg, calls, dead>>

Free(t, b) ==
  /\ Go(t, "inside", "count out") /\ b \in Live \ InUse
  /\ call' = [call EXCEPT ![t].block = b, ![t].old = length[b]]
  /\ UNCHANGED <<counter, length, mutex, polite, reg, calls, dead>>

FreeNull(t) ==
  /\ Go(t, "inside", "returning")
  /\ UNCHANGED <<counter, length, mutex, polite, call, reg, calls, dead>>

\* A "+=" or "-=" on the counter, the first half.
Load(t) ==
  /\ ~dead /\ at[t] \in {"count in", "count out", "count moved"}
  /\ reg[t] = None
  /\ reg' = [reg EXCEPT ![t] = counter]
  /\ UNCHANGED <<counter, length, mutex, polite, at, call, calls, dead>>

\* The second half.
Store(t, delta) ==
  /\ reg[t] # None
  /\ counter' = (reg[t] + delta) % WordSize
  /\ reg' = [reg EXCEPT ![t] = None]
  /\ UNCHANGED <<length, mutex, polite, call, calls, dead>>

\* A block is counted in: by ez_allocate before it is there, by
\* ez_reallocate at its end.
CountIn(t) ==
  /\ Go(t, "count in", IF call[t].block = None THEN "calloc" ELSE "returning")
  /\ Store(t, call[t].new)

\* Mutant: what is counted out is what the block is resized to.
CountOutNew(t) ==
  /\ Go(t, "count out", "free")
  /\ Store(t, - call[t].new)

\* ez_free counts the block out before it is gone.
CountOut(t) ==
  /\ Go(t, "count out", "free")
  /\ Store(t, - call[t].old)

\* ez_reallocate counts the old length out, then the new one in.
CountMoved(t) ==
  /\ Go(t, "count moved", "count in")
  /\ Store(t, - call[t].old)

\* No test of the result: a null pointer from calloc or realloc ends the
\* process, and so may a block whose length wrapped to less than its header.
OutOfMemory(t) ==
  /\ ~dead /\ at[t] \in {"calloc", "realloc"}
  /\ dead' = TRUE
  /\ UNCHANGED <<counter, length, mutex, polite, at, call, reg, calls>>

Calloc(t, b) ==
  /\ Go(t, "calloc", "returning") /\ b \in Addresses \ Live
  /\ length' = [c \in Live \cup {b} |-> IF c = b THEN call[t].new ELSE length[c]]
  /\ UNCHANGED <<counter, mutex, polite, call, reg, calls, dead>>

\* realloc may move the block.
Realloc(t, b) ==
  LET rest == Live \ {call[t].block}
  IN  /\ Go(t, "realloc", "count moved") /\ b \in Addresses \ rest
      /\ length' = [c \in rest \cup {b} |-> IF c = b THEN call[t].new ELSE length[c]]
      /\ call' = [call EXCEPT ![t].block = b]
      /\ UNCHANGED <<counter, mutex, polite, reg, calls, dead>>

Release(t) ==
  /\ Go(t, "free", "returning")
  /\ length' = [b \in Live \ {call[t].block} |-> length[b]]
  /\ UNCHANGED <<counter, mutex, polite, call, reg, calls, dead>>

-----------------------------------------------------------------------------
\* The steps a thread takes.
Step(t) ==
  \/ Enter(t) \/ Lock(t) \/ Leave(t) \/ Finish(t)
  \/ FreeNull(t)
  \/ \E request \in Requests : Allocate(t, request)
  \/ \E b \in Addresses : Free(t, b) \/ \E request \in Requests : Reallocate(t, b, request)
  \/ Load(t) \/ CountIn(t) \/ CountOut(t) \/ CountMoved(t)
  \/ Release(t)
  \/ \E b \in Addresses : Calloc(t, b) \/ Realloc(t, b)
  \/ OutOfMemory(t)

Next == \E t \in Threads : Create(t) \/ Join(t) \/ Step(t)

\* Every thread that can run runs, the main thread included.
Spec ==
  /\ Init /\ [][Next]_vars
  /\ \A t \in Threads : WF_vars(Step(t)) /\ WF_vars(Create(t) \/ Join(t))

-----------------------------------------------------------------------------
\* What a running call has counted that is not true of the blocks yet, or
\* done to the blocks and not counted yet.
Pending == [t \in Threads |->
  CASE at[t] = "calloc"      -> call[t].new
    [] at[t] = "free"        -> - call[t].old
    [] at[t] = "count moved" -> call[t].old - call[t].new
    [] at[t] = "count in" /\ call[t].block # None -> - call[t].new
    [] OTHER -> 0]

\* What the counter should be, and by how much it is off.
Booked == SumFunction(length) + SumFunction(Pending)

Error == (counter - Booked) % WordSize

\* A thread that is about to overwrite what another one has stored.
Stale(t) == reg[t] \notin {None, counter}

\* Whoever locks or does not: EZ_ALLOCATED() goes wrong only in the store of
\* a "+=" or "-=" that overwrites another thread's, never through the order
\* in which a call touches the counter and the heap, nor by a length that
\* wrapped, nor by a block that another thread frees or resizes.
OnlyLostUpdatesDrift ==
  [][Error' # Error => \E t \in Threads : Stale(t) /\ reg'[t] = None]_vars

\* A program in which every thread holds the mutex around its calls has the
\* right count at every moment.
LockedIsExact == polite = Threads => Error = 0

\* EZ_WAIT_THREAD returns for every thread, whoever locks, unless the process
\* ends: nothing in the library waits, and the mutex always comes back.
AllJoined == <>(dead \/ \A t \in Threads : at[t] = "joined")

=============================================================================
