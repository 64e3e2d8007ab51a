-------------------------- MODULE EzAllocatorProofs --------------------------
(***************************************************************************)
(* Proofs about EzAllocator: the inductive invariant, the account of every *)
(* step on the counter and on what it should be, and from it that only a   *)
(* store of a stale value makes the count wrong, and that a program whose  *)
(* threads all lock has the right count.                                   *)
(***************************************************************************)
EXTENDS EzAllocator, EzLemmas

\* Where a thread is between taking the mutex and giving it back, where it is
\* in the middle of a change of the counter, and where its call has a block.
Locked == {"inside", "count in", "count out", "count moved", "calloc", "realloc", "free", "returning"}
Counting == {"count in", "count out", "count moved"}
Working == {"count in", "count out", "count moved", "realloc", "free"}
Places == {"new", "outside", "locking", "finished", "joined"} \cup Locked

Words == 0 .. WordSize - 1
Calls == [block : Addresses \cup {None}, old : Words, new : Words]

\* The inductive invariant: the types,
TypesOK ==
  /\ counter \in Words
  /\ Live \subseteq Addresses /\ length \in [Live -> Words] /\ IsFiniteSet(Live)
  /\ mutex \in Threads \cup {NoOne} /\ polite \in SUBSET Threads
  /\ at \in [Threads -> Places]
  /\ call \in [Threads -> Calls]
  /\ reg \in [Threads -> Words \cup {None}]

\* where a thread has loaded the counter, and what its call knows of its block,
CallOK(t) ==
  /\ reg[t] # None => at[t] \in Counting
  /\ at[t] \notin Working \cup {"calloc", "returning"} => call[t] = NoCall
  /\ at[t] \in {"calloc"} => call[t].block = None
  /\ at[t] \in {"realloc", "count moved", "count out", "free"} => call[t].block # None
  /\ at[t] \in Working /\ call[t].block # None =>
       /\ call[t].block \in Live
       /\ length[call[t].block] =
            IF at[t] \in {"count in", "count moved"} THEN call[t].new ELSE call[t].old

CallsOK == \A t \in Threads : CallOK(t)

\* that no two calls work on one block,
Apart ==
  \A t, u \in Threads :
    at[t] \in Working /\ at[u] \in Working /\ call[t].block # None
      /\ call[t].block = call[u].block => t = u

\* and that the mutex belongs to the thread that has taken it.
MutexOK == \A t \in polite : at[t] \in Locked => mutex = t

IInv == TypesOK /\ CallsOK /\ Apart /\ MutexOK

\* When all threads take the mutex, no loaded value is stale.
Exact == polite = Threads => Error = 0 /\ \A t \in Threads : ~Stale(t)

-----------------------------------------------------------------------------
\* The sizes are words, and words are integers.
LEMMA WordFacts ==
  /\ WordSize \in Nat \ {0} /\ Words \subseteq Int /\ 0 \in Words /\ None \notin Words
  /\ \A x \in Int : x % WordSize \in Words
  /\ \A request \in Requests : Bytes(request) \in Words
<1>1. WordSize \in Nat \ {0} /\ Words \subseteq Int /\ 0 \in Words /\ None \notin Words
  BY AllocatorAssumption DEF Words
<1>2. \A x \in Int : x % WordSize \in Words
  BY <1>1, RemainderIs DEF Words
<1>3. \A request \in Requests : request + Header \in Int
  BY AllocatorAssumption
<1>4. QED
  BY <1>1, <1>2, <1>3 DEF Bytes

\* What a step of thread t leaves to the other threads.
Aside(t) ==
  \A u \in Threads \ {t} : at'[u] = at[u] /\ call'[u] = call[u] /\ reg'[u] = reg[u]

\* A step that leaves the others their blocks, takes none of theirs and keeps
\* the mutex in order keeps the invariant.
LEMMA Preserved ==
  ASSUME IInv, NEW t \in Threads, TypesOK', CallOK(t)', Aside(t), polite' = polite,
         \A b \in Live : \/ b \in Live' /\ length'[b] = length[b]
                         \/ at[t] \in Working /\ b = call[t].block,
         \/ at'[t] \notin Working
         \/ call'[t].block = None
         \/ at[t] \in Working /\ call'[t].block = call[t].block
         \/ \A u \in Threads \ {t} : call'[t].block # call[u].block \/ at[u] \notin Working,
         t \in polite /\ at'[t] \in Locked => mutex' = t,
         mutex' = mutex \/ \A u \in polite \ {t} : mutex # u
  PROVE  IInv'
<1>1. ASSUME NEW u \in Threads \ {t}
      PROVE  CallOK(u)'
  <2>1. CallOK(u) /\ call[u] \in Calls
    BY DEF IInv, CallsOK, TypesOK
  <2>2. at'[u] = at[u] /\ call'[u] = call[u] /\ reg'[u] = reg[u]
    BY DEF Aside
  <2>3. CASE at[u] \in Working /\ call[u].block # None
    <3>1. call[u].block \in Live
      BY <2>1, <2>3 DEF CallOK
    <3>2. ~(at[t] \in Working /\ call[u].block = call[t].block)
      BY <2>3 DEF IInv, Apart
    <3>3. call[u].block \in Live' /\ length'[call[u].block] = length[call[u].block]
      BY <3>1, <3>2
    <3>4. QED
      BY <2>1, <2>2, <3>3 DEF CallOK, Live
  <2>4. CASE ~(at[u] \in Working /\ call[u].block # None)
    BY <2>1, <2>2, <2>4 DEF CallOK
  <2>5. QED
    BY <2>3, <2>4
<1>2. CallsOK'
  BY <1>1 DEF CallsOK
<1>3. Apart'
  <2>1. SUFFICES ASSUME NEW v \in Threads, NEW u \in Threads, v # u,
                        at'[v] \in Working, at'[u] \in Working, call'[v].block # None,
                        call'[v].block = call'[u].block
                 PROVE  FALSE
    BY DEF Apart
  <2>2. CASE v # t /\ u # t
    BY <2>1, <2>2 DEF Aside, IInv, Apart
  <2>3. CASE v = t
    BY <2>1, <2>3 DEF Aside, IInv, Apart
  <2>4. CASE u = t
    BY <2>1, <2>4 DEF Aside, IInv, Apart
  <2>5. QED
    BY <2>2, <2>3, <2>4
<1>4. MutexOK'
  BY DEF MutexOK, IInv, Aside, TypesOK
<1>5. QED
  BY <1>2, <1>3, <1>4 DEF IInv

\* Initially nothing is allocated.
LEMMA InitIInv ==
  Init => IInv
<1> SUFFICES ASSUME Init PROVE IInv
  OBVIOUS
<1>2. TypesOK
  <2>1. Live = {} /\ IsFiniteSet(Live) /\ length \in [Live -> Words]
    BY FS_EmptySet DEF Init, Live
  <2>2. NoCall \in Calls
    BY WordFacts DEF NoCall, Calls
  <2>3. QED
    BY <2>1, <2>2, WordFacts DEF TypesOK, Init, Places
<1>3. CallsOK
  BY DEF Init, CallsOK, CallOK, Working, NoCall
<1>4. Apart /\ MutexOK
  BY DEF Init, Apart, MutexOK, Working, Locked
<1>5. QED
  BY <1>2, <1>3, <1>4 DEF IInv

\* The steps that neither move a block nor store, one by one.
LEMMA QuietStep ==
  ASSUME IInv, NEW t \in Threads,
         \/ Create(t) \/ Join(t) \/ Finish(t) \/ Enter(t) \/ Lock(t) \/ Leave(t)
         \/ FreeNull(t) \/ Load(t) \/ OutOfMemory(t)
         \/ \E request \in Requests : Allocate(t, request)
         \/ \E b \in Addresses : Free(t, b) \/ \E request \in Requests : Reallocate(t, b, request)
  PROVE  IInv'
<1>1. /\ TypesOK /\ CallOK(t) /\ call[t] \in Calls /\ at[t] \in Places
      /\ t \in polite /\ at[t] \in Locked => mutex = t
  BY DEF IInv, CallsOK, TypesOK, MutexOK
<1>2. /\ NoCall \in Calls /\ NoCall.block = None
      /\ \A c \in Calls : c.block \in Addresses \cup {None} /\ c.old \in Words /\ c.new \in Words
  BY WordFacts DEF NoCall, Calls
<1>3. CASE Create(t) \/ Join(t) \/ Finish(t) \/ Enter(t) \/ FreeNull(t)
  <2>1. /\ at' = [at EXCEPT ![t] = at'[t]] /\ at'[t] \in {"outside", "joined", "finished", "locking", "returning"}
        /\ UNCHANGED <<counter, length, mutex, polite, call, reg>>
        /\ at[t] \in {"new", "finished", "outside", "inside"}
        /\ at'[t] = "returning" => at[t] = "inside"
    BY <1>1, <1>3 DEF Create, Join, Finish, Enter, FreeNull, Go, TypesOK
  <2>2. TypesOK'
    BY <1>1, <2>1 DEF TypesOK, Places, Locked, Live
  <2>3. CallOK(t)'
    BY <1>1, <2>1 DEF CallOK, Counting, Working, Live
  <2>4. Aside(t)
    BY <1>1, <2>1 DEF Aside, TypesOK
  <2>5. QED
    BY <1>1, <2>1, <2>2, <2>3, <2>4, Preserved DEF Working, Locked, Live
<1>4. CASE Lock(t)
  <2>1. /\ at[t] = "locking" /\ at' = [at EXCEPT ![t] = "inside"]
        /\ UNCHANGED <<counter, length, polite, call, reg>>
        /\ t \in polite => mutex = NoOne /\ mutex' = t
        /\ t \notin polite => mutex' = mutex
    BY <1>4 DEF Lock, Go
  <2>2. TypesOK'
    BY <1>1, <2>1 DEF TypesOK, Places, Locked, Live
  <2>3. CallOK(t)'
    BY <1>1, <2>1 DEF CallOK, Counting, Working, Live, TypesOK
  <2>4. Aside(t) /\ at'[t] = "inside"
    BY <1>1, <2>1 DEF Aside, TypesOK
  <2>5. mutex' = mutex \/ \A u \in polite \ {t} : mutex # u
    BY <1>1, <2>1, AllocatorAssumption DEF TypesOK
  <2>6. QED
    BY <1>1, <2>1, <2>2, <2>3, <2>4, <2>5, Preserved DEF Working, Locked, Live
<1>5. CASE Leave(t)
  <2>1. /\ at[t] = "returning" /\ at' = [at EXCEPT ![t] = "outside"]
        /\ UNCHANGED <<counter, length, polite, reg>>
        /\ call' = [call EXCEPT ![t] = NoCall]
        /\ t \in polite => mutex' = NoOne
        /\ t \notin polite => mutex' = mutex
    BY <1>5 DEF Leave, Go, Released
  <2>2. TypesOK'
    BY <1>1, <1>2, <2>1 DEF TypesOK, Places, Locked, Live
  <2>3. CallOK(t)'
    BY <1>1, <2>1 DEF CallOK, Counting, Working, Live, TypesOK
  <2>4. Aside(t) /\ at'[t] = "outside"
    BY <1>1, <2>1 DEF Aside, TypesOK
  <2>5. mutex' = mutex \/ \A u \in polite \ {t} : mutex # u
    BY <1>1, <2>1 DEF TypesOK, Locked
  <2>6. QED
    BY <1>1, <2>1, <2>2, <2>3, <2>4, <2>5, Preserved DEF Working, Locked, Live
<1>6. CASE Load(t)
  <2>1. /\ at[t] \in Counting /\ reg' = [reg EXCEPT ![t] = counter]
        /\ UNCHANGED <<counter, length, polite, mutex, at, call>>
    BY <1>6 DEF Load, Counting
  <2>2. TypesOK'
    BY <1>1, <2>1 DEF TypesOK, Live
  <2>3. CallOK(t)'
    BY <1>1, <2>1 DEF CallOK, Live
  <2>4. Aside(t)
    BY <1>1, <2>1 DEF Aside, TypesOK
  <2>5. QED
    BY <1>1, <2>1, <2>2, <2>3, <2>4, Preserved DEF Live
<1>7. CASE OutOfMemory(t)
  <2>1. UNCHANGED <<counter, length, polite, mutex, at, call, reg>>
    BY <1>7 DEF OutOfMemory
  <2>2. QED
    BY <2>1 DEF IInv, TypesOK, CallsOK, CallOK, Apart, MutexOK, Live
<1>8. ASSUME NEW request \in Requests, Allocate(t, request)
      PROVE  IInv'
  <2>1. /\ at[t] = "inside" /\ at' = [at EXCEPT ![t] = "count in"]
        /\ call' = [call EXCEPT ![t].new = Bytes(request)]
        /\ UNCHANGED <<counter, length, mutex, polite, reg>>
    BY <1>8 DEF Allocate, Go
  <2>2. call'[t] \in Calls /\ call'[t].block = None /\ at'[t] = "count in"
    BY <1>1, <1>2, <2>1, WordFacts DEF CallOK, Working, NoCall, Calls, TypesOK
  <2>3. TypesOK'
    BY <1>1, <2>1, <2>2 DEF TypesOK, Places, Locked, Live
  <2>4. CallOK(t)'
    BY <1>1, <2>1, <2>2 DEF CallOK, Counting, Working, Live
  <2>5. Aside(t)
    BY <1>1, <2>1 DEF Aside, TypesOK
  <2>6. QED
    BY <1>1, <2>1, <2>2, <2>3, <2>4, <2>5, Preserved DEF Working, Locked, Live
<1>9. ASSUME NEW b \in Addresses, Free(t, b)
      PROVE  IInv'
  <2>1. /\ at[t] = "inside" /\ at' = [at EXCEPT ![t] = "count out"]
        /\ call' = [call EXCEPT ![t].block = b, ![t].old = length[b]]
        /\ b \in Live \ InUse
        /\ UNCHANGED <<counter, length, mutex, polite, reg>>
    BY <1>9 DEF Free, Go
  <2>2. /\ call'[t] \in Calls /\ call'[t].block = b /\ call'[t].old = length[b]
        /\ at'[t] = "count out"
    BY <1>1, <1>2, <2>1 DEF Calls, TypesOK
  <2>3. TypesOK'
    BY <1>1, <2>1, <2>2 DEF TypesOK, Places, Locked, Live
  <2>4. CallOK(t)'
    BY <1>1, <2>1, <2>2, AllocatorAssumption DEF CallOK, Counting, Working, Live
  <2>5. Aside(t)
    BY <1>1, <2>1 DEF Aside, TypesOK
  <2>6. \A u \in Threads : call[u].block # b
    BY <2>1 DEF InUse
  <2>7. QED
    BY <1>1, <2>1, <2>2, <2>3, <2>4, <2>5, <2>6, Preserved DEF Working, Locked, Live
<1>10. ASSUME NEW b \in Addresses, NEW request \in Requests, Reallocate(t, b, request)
       PROVE  IInv'
  <2>1. /\ at[t] = "inside" /\ at' = [at EXCEPT ![t] = "realloc"]
        /\ call' = [call EXCEPT ![t] = [block |-> b, old |-> length[b], new |-> Bytes(request)]]
        /\ b \in Live \ InUse
        /\ UNCHANGED <<counter, length, mutex, polite, reg>>
    BY <1>10 DEF Reallocate, Go
  <2>2. /\ call'[t] \in Calls /\ call'[t].block = b /\ call'[t].old = length[b]
        /\ at'[t] = "realloc"
    BY <1>1, <2>1, WordFacts DEF Calls, TypesOK
  <2>3. TypesOK'
    BY <1>1, <2>1, <2>2 DEF TypesOK, Places, Locked, Live
  <2>4. CallOK(t)'
    BY <1>1, <2>1, <2>2, AllocatorAssumption DEF CallOK, Counting, Working, Live
  <2>5. Aside(t)
    BY <1>1, <2>1 DEF Aside, TypesOK
  <2>6. \A u \in Threads : call[u].block # b
    BY <2>1 DEF InUse
  <2>7. QED
    BY <1>1, <2>1, <2>2, <2>3, <2>4, <2>5, <2>6, Preserved DEF Working, Locked, Live
<1>11. QED
  BY <1>3, <1>4, <1>5, <1>6, <1>7, <1>8, <1>9, <1>10

\* The stores.
LEMMA StoreStep ==
  ASSUME IInv, NEW t \in Threads, CountIn(t) \/ CountOut(t) \/ CountMoved(t)
  PROVE  IInv'
<1>1. /\ TypesOK /\ CallOK(t) /\ call[t] \in Calls /\ at[t] \in Places
      /\ t \in polite /\ at[t] \in Locked => mutex = t
  BY DEF IInv, CallsOK, TypesOK, MutexOK
<1>2. call[t].new \in Int /\ - call[t].old \in Int
  <2>1. call[t].new \in Words /\ call[t].old \in Words
    BY <1>1 DEF Calls
  <2>2. call[t].new \in Int /\ call[t].old \in Int
    BY <2>1, WordFacts, Zenon
  <2>3. QED
    BY <2>2
<1>3. PICK delta \in Int : Store(t, delta)
  BY <1>2 DEF CountIn, CountOut, CountMoved
<1>4. /\ reg[t] \in Int /\ counter' \in Words /\ reg' = [reg EXCEPT ![t] = None]
      /\ UNCHANGED <<length, mutex, polite, call>>
  <2>1. reg[t] \in Int
    BY <1>1, <1>3, WordFacts DEF Store, TypesOK
  <2>2. reg[t] + delta \in Int
    BY <2>1
  <2>3. QED
    BY <1>3, <2>1, <2>2, WordFacts DEF Store
<1>5. /\ at' = [at EXCEPT ![t] = at'[t]]
      /\ \/ at[t] = "count in" /\ at'[t] = IF call[t].block = None THEN "calloc" ELSE "returning"
         \/ at[t] = "count out" /\ at'[t] = "free"
         \/ at[t] = "count moved" /\ at'[t] = "count in"
  BY <1>1 DEF CountIn, CountOut, CountMoved, Go, TypesOK
<1>6. TypesOK'
  BY <1>1, <1>4, <1>5 DEF TypesOK, Places, Locked, Live
<1>7. CallOK(t)'
  BY <1>1, <1>4, <1>5 DEF CallOK, Counting, Working, Live, TypesOK
<1>8. Aside(t)
  BY <1>1, <1>4, <1>5 DEF Aside, TypesOK
<1>9. QED
  BY <1>1, <1>4, <1>5, <1>6, <1>7, <1>8, Preserved DEF Working, Locked, Live

\* The steps that change the blocks.
LEMMA BlockStep ==
  ASSUME IInv, NEW t \in Threads,
         Release(t) \/ \E b \in Addresses : Calloc(t, b) \/ Realloc(t, b)
  PROVE  IInv'
<1>1. /\ TypesOK /\ CallOK(t) /\ call[t] \in Calls /\ at[t] \in Places
      /\ t \in polite /\ at[t] \in Locked => mutex = t
      /\ call[t].new \in Words
  BY DEF IInv, CallsOK, TypesOK, MutexOK, Calls
<1>2. CASE Release(t)
  <2>1. /\ at[t] = "free" /\ at' = [at EXCEPT ![t] = "returning"]
        /\ length' = [b \in Live \ {call[t].block} |-> length[b]]
        /\ UNCHANGED <<counter, mutex, polite, call, reg>>
    BY <1>2 DEF Release, Go
  <2>2. Live' = Live \ {call[t].block} /\ IsFiniteSet(Live') /\ at'[t] = "returning"
    BY <1>1, <2>1, FS_Subset DEF Live, TypesOK
  <2>3. TypesOK'
    BY <1>1, <2>1, <2>2 DEF TypesOK, Places, Locked
  <2>4. CallOK(t)'
    BY <1>1, <2>1, <2>2 DEF CallOK, Counting, Working
  <2>5. Aside(t)
    BY <1>1, <2>1 DEF Aside, TypesOK
  <2>6. \A b \in Live : \/ b \in Live' /\ length'[b] = length[b]
                        \/ at[t] \in Working /\ b = call[t].block
    BY <2>1, <2>2 DEF Working
  <2>7. QED
    BY <1>1, <2>1, <2>2, <2>3, <2>4, <2>5, <2>6, Preserved DEF Working, Locked
<1>3. ASSUME NEW b \in Addresses, Calloc(t, b)
      PROVE  IInv'
  <2>1. /\ at[t] = "calloc" /\ at' = [at EXCEPT ![t] = "returning"] /\ b \notin Live
        /\ length' = [c \in Live \cup {b} |-> IF c = b THEN call[t].new ELSE length[c]]
        /\ UNCHANGED <<counter, mutex, polite, call, reg>>
    BY <1>3 DEF Calloc, Go
  <2>2. Live' = Live \cup {b} /\ IsFiniteSet(Live') /\ at'[t] = "returning"
    BY <1>1, <2>1, FS_AddElement DEF Live, TypesOK
  <2>3. TypesOK'
    BY <1>1, <2>1, <2>2 DEF TypesOK, Places, Locked
  <2>4. CallOK(t)'
    BY <1>1, <2>1, <2>2 DEF CallOK, Counting, Working
  <2>5. Aside(t)
    BY <1>1, <2>1 DEF Aside, TypesOK
  <2>6. \A c \in Live : c \in Live' /\ length'[c] = length[c]
    BY <2>1, <2>2
  <2>7. QED
    BY <1>1, <2>1, <2>2, <2>3, <2>4, <2>5, <2>6, Preserved DEF Working, Locked
<1>4. ASSUME NEW b \in Addresses, Realloc(t, b)
      PROVE  IInv'
  <2> DEFINE rest == Live \ {call[t].block}
  <2>1. /\ at[t] = "realloc" /\ at' = [at EXCEPT ![t] = "count moved"] /\ b \notin rest
        /\ length' = [c \in rest \cup {b} |-> IF c = b THEN call[t].new ELSE length[c]]
        /\ call' = [call EXCEPT ![t].block = b]
        /\ UNCHANGED <<counter, mutex, polite, reg>>
    BY <1>4 DEF Realloc, Go
  <2>2. Live' = rest \cup {b} /\ IsFiniteSet(Live') /\ at'[t] = "count moved"
    <3>1. IsFiniteSet(rest)
      BY <1>1, FS_Subset DEF TypesOK
    <3>2. QED
      BY <1>1, <2>1, <3>1, FS_AddElement DEF Live, TypesOK
  <2>3. call'[t] \in Calls /\ call'[t].block = b /\ call'[t].new = call[t].new
    BY <1>1, <2>1 DEF TypesOK, Calls
  <2>4. TypesOK'
    <3>1. at' \in [Threads -> Places] /\ call' \in [Threads -> Calls]
      BY <1>1, <2>1, <2>3 DEF TypesOK, Places, Locked
    <3>2. Live' \subseteq Addresses /\ length' \in [Live' -> Words]
      BY <1>1, <2>1, <2>2 DEF TypesOK
    <3>3. QED
      BY <1>1, <2>1, <2>2, <3>1, <3>2 DEF TypesOK
  <2>5. CallOK(t)'
    <3>1. reg'[t] = None /\ b # None /\ b \in Live' /\ length'[b] = call[t].new
      BY <1>1, <2>1, <2>2, AllocatorAssumption DEF CallOK, Counting
    <3>2. QED
      BY <2>2, <2>3, <3>1 DEF CallOK, Working
  <2>6. Aside(t)
    BY <1>1, <2>1 DEF Aside, TypesOK
  <2>7. \A c \in Live : \/ c \in Live' /\ length'[c] = length[c]
                        \/ at[t] \in Working /\ c = call[t].block
    BY <2>1, <2>2 DEF Working
  <2>8. ASSUME NEW u \in Threads \ {t}, at[u] \in Working, call[u].block = b
        PROVE  FALSE
    <3>1. b \in Live
      BY <2>8, AllocatorAssumption DEF IInv, CallsOK, CallOK
    <3>2. b = call[t].block /\ b # None
      BY <2>1, <3>1, AllocatorAssumption
    <3>3. QED
      BY <2>1, <2>8, <3>2 DEF IInv, Apart, Working
  <2>9. QED
    BY <1>1, <2>1, <2>2, <2>3, <2>4, <2>5, <2>6, <2>7, <2>8, Preserved DEF Working, Locked
<1>5. QED
  BY <1>2, <1>3, <1>4

\* Every step of every thread.
LEMMA StepIInv ==
  ASSUME IInv, NEW t \in Threads, Create(t) \/ Join(t) \/ Step(t)
  PROVE  IInv'
BY QuietStep, StoreStep, BlockStep DEF Step

\* The types of the model hold in every state, a call in progress knows its
\* block and no two share one, and the mutex is held by who took it.
THEOREM Types ==
  Spec => []IInv
<1>1. IInv /\ [Next]_vars => IInv'
  <2>1. ASSUME IInv, Next PROVE IInv'
    BY <2>1, StepIInv DEF Next
  <2>2. ASSUME IInv, UNCHANGED vars PROVE IInv'
    BY <2>2 DEF vars, IInv, TypesOK, CallsOK, CallOK, Apart, MutexOK, Live
  <2>3. QED
    BY <2>1, <2>2
<1>2. QED
  BY <1>1, InitIInv, PTL DEF Spec

-----------------------------------------------------------------------------
\* What is pending is a number for every thread, in this state and the next.
LEMMA PendingIs ==
  /\ TypesOK => \A t \in Threads : Pending[t] \in Int /\ call[t].old \in Int /\ call[t].new \in Int
  /\ TypesOK' => \A t \in Threads : Pending'[t] \in Int /\ call'[t].old \in Int /\ call'[t].new \in Int
<1>1. \A c \in Calls : c.old \in Int /\ c.new \in Int /\ - c.old \in Int /\ - c.new \in Int
                      /\ c.old - c.new \in Int
  <2> TAKE c \in Calls
  <2>1. c.old \in Words /\ c.new \in Words
    BY DEF Calls
  <2>2. c.old \in Int /\ c.new \in Int
    BY <2>1, WordFacts, Zenon
  <2>3. QED
    BY <2>2
<1>2. TypesOK => \A t \in Threads : Pending[t] \in Int /\ call[t].old \in Int /\ call[t].new \in Int
  <2> SUFFICES ASSUME TypesOK, NEW t \in Threads
               PROVE  Pending[t] \in Int /\ call[t].old \in Int /\ call[t].new \in Int
    OBVIOUS
  <2>1. call[t] \in Calls
    BY DEF TypesOK
  <2>2. /\ call[t].old \in Int /\ call[t].new \in Int /\ - call[t].old \in Int
        /\ - call[t].new \in Int /\ call[t].old - call[t].new \in Int
    BY <1>1, <2>1, Zenon
  <2>3. Pending[t] \in {call[t].new, - call[t].old, call[t].old - call[t].new, - call[t].new, 0}
    BY DEF Pending
  <2>4. QED
    BY <2>2, <2>3
<1>3. TypesOK' => \A t \in Threads : Pending'[t] \in Int /\ call'[t].old \in Int /\ call'[t].new \in Int
  <2> SUFFICES ASSUME TypesOK', NEW t \in Threads
               PROVE  Pending'[t] \in Int /\ call'[t].old \in Int /\ call'[t].new \in Int
    OBVIOUS
  <2>1. call'[t] \in Calls
    BY DEF TypesOK
  <2>2. /\ call'[t].old \in Int /\ call'[t].new \in Int /\ - call'[t].old \in Int
        /\ - call'[t].new \in Int /\ call'[t].old - call'[t].new \in Int
    BY <1>1, <2>1, Zenon
  <2>3. Pending'[t] \in {call'[t].new, - call'[t].old, call'[t].old - call'[t].new, - call'[t].new, 0}
    BY DEF Pending
  <2>4. QED
    BY <2>2, <2>3
<1>4. QED
  BY <1>2, <1>3

\* A step of one thread changes the sum of what is pending by what it changes
\* there.
LEMMA PendingChanges ==
  ASSUME TypesOK, TypesOK', NEW t \in Threads, Aside(t)
  PROVE  /\ SumFunction(Pending) \in Int
         /\ SumFunction(Pending)' = SumFunction(Pending) + (Pending'[t] - Pending[t])
<1> DEFINE f == Pending
           e == Pending'
<1>1. \A u \in Threads : f[u] \in Int /\ e[u] \in Int
  BY PendingIs
<1>2. \A u \in Threads \ {t} : f[u] = e[u]
  BY DEF Aside, Pending
<1>3. DOMAIN f = Threads /\ DOMAIN e = Threads
  BY DEF Pending
<1>4. IsFiniteSet(Threads)
  BY AllocatorAssumption
<1> HIDE DEF f, e
<1>5. SumFunctionOnSet(e, Threads) = SumFunctionOnSet(f, Threads) + (e[t] - f[t])
  BY <1>1, <1>2, <1>4, SumChanges
<1>6. SumFunctionOnSet(f, Threads) \in Int
  BY <1>1, <1>4, SumInt
<1>7. SumFunction(f) = SumFunctionOnSet(f, Threads) /\ SumFunction(e) = SumFunctionOnSet(e, Threads)
  BY <1>3 DEF SumFunction
<1>8. QED
  BY <1>5, <1>6, <1>7 DEF f, e

\* The lengths of the blocks add up to a number.
LEMMA LengthsAdd ==
  ASSUME TypesOK
  PROVE  /\ SumFunction(length) = SumFunctionOnSet(length, Live)
         /\ SumFunction(length) \in Int
         /\ \A b \in Live : length[b] \in Int
         /\ \A b \in Live :
              /\ SumFunctionOnSet(length, Live \ {b}) \in Int
              /\ SumFunctionOnSet(length, Live) = length[b] + SumFunctionOnSet(length, Live \ {b})
<1>1. IsFiniteSet(Live) /\ \A b \in Live : length[b] \in Int
  BY WordFacts DEF TypesOK
<1>2. SumFunctionOnSet(length, Live) \in Int
  BY <1>1, SumInt
<1>3. ASSUME NEW b \in Live
      PROVE  /\ SumFunctionOnSet(length, Live \ {b}) \in Int
             /\ SumFunctionOnSet(length, Live) = length[b] + SumFunctionOnSet(length, Live \ {b})
  <2>1. IsFiniteSet(Live \ {b})
    BY <1>1, FS_Subset
  <2>2. SumFunctionOnSet(length, Live \ {b}) \in Int
    BY <1>1, <2>1, SumInt
  <2>3. QED
    BY <1>1, <2>2, SumTakeOut
<1>4. SumFunction(length) = SumFunctionOnSet(length, Live)
  BY DEF SumFunction, Live
<1>5. QED
  BY <1>1, <1>2, <1>3, <1>4

\* e is f on S and the number n at b: its sum is n more.
Extended(e, f, S, b, n) ==
  /\ IsFiniteSet(S) /\ b \notin S /\ n \in Int
  /\ DOMAIN e = S \cup {b} /\ e[b] = n
  /\ \A c \in S : e[c] = f[c] /\ f[c] \in Int

\* What counts the block b too is n more.
LEMMA BlockAdded ==
  ASSUME NEW S, NEW f, NEW b, NEW n, NEW e, Extended(e, f, S, b, n)
  PROVE  SumFunction(e) = SumFunctionOnSet(f, S) + n
<1> USE DEF Extended
<1> DEFINE T == S \cup {b}
<1>1. IsFiniteSet(T) /\ T \ {b} = S /\ b \in T
  BY FS_AddElement
<1>2. \A c \in T : e[c] \in Int
  OBVIOUS
<1>3. SumFunction(e) = SumFunctionOnSet(e, T)
  BY DEF SumFunction
<1>4. SumFunctionOnSet(e, T) = e[b] + SumFunctionOnSet(e, T \ {b})
  <2> HIDE DEF T
  <2> QED
    BY <1>1, <1>2, SumTakeOut
<1>5. SumFunctionOnSet(e, S) = SumFunctionOnSet(f, S)
  <2>1. \A c \in S : e[c] = f[c]
    OBVIOUS
  <2>2. QED
    BY <2>1, SumsAgree
<1>6. SumFunctionOnSet(f, S) \in Int
  BY SumInt
<1> HIDE DEF T
<1>7. SumFunctionOnSet(e, T) = e[b] + SumFunctionOnSet(e, S)
  BY <1>1, <1>4
<1>8. QED
  BY <1>3, <1>5, <1>6, <1>7

\* A step keeps the counter and what it should be, or is a store that adds to
\* what thread t has loaded what its step adds to what the counter should be.
Unmoved == counter' = counter /\ Booked' = Booked
Stored(t) ==
  \E delta \in Int : /\ reg[t] # None /\ reg'[t] = None
                    /\ counter' = (reg[t] + delta) % WordSize
                    /\ Booked' = Booked + delta

\* What is pending of the thread does not change, nor do the lengths.
LEMMA QuietAccounts ==
  ASSUME IInv, TypesOK', NEW t \in Threads, Aside(t), length' = length, counter' = counter,
         Pending'[t] = Pending[t]
  PROVE  Unmoved
<1>1. TypesOK
  BY DEF IInv
<1>2. Pending[t] \in Int
  BY <1>1, PendingIs
<1>3. SumFunction(Pending) \in Int /\ SumFunction(Pending)' = SumFunction(Pending) + (Pending'[t] - Pending[t])
  BY <1>1, PendingChanges
<1>4. SumFunction(Pending)' = SumFunction(Pending)
  BY <1>2, <1>3
<1>5. QED
  BY <1>4 DEF Unmoved, Booked

\* The steps that neither move a block nor store.
LEMMA QuietUnmoved ==
  ASSUME IInv, TypesOK', NEW t \in Threads,
         \/ Create(t) \/ Join(t) \/ Finish(t) \/ Enter(t) \/ Lock(t) \/ Leave(t)
         \/ FreeNull(t) \/ Load(t) \/ OutOfMemory(t)
         \/ \E request \in Requests : Allocate(t, request)
         \/ \E b \in Addresses : Free(t, b) \/ \E request \in Requests : Reallocate(t, b, request)
  PROVE  Unmoved
<1>1. CallOK(t)
  BY DEF IInv, CallsOK
<1>2. at \in [Threads -> Places] /\ call \in [Threads -> Calls] /\ reg \in [Threads -> Words \cup {None}]
  BY DEF IInv, TypesOK
<1>3. CASE Load(t) \/ OutOfMemory(t)
  <2>1. UNCHANGED <<at, call, length, counter>>
    BY <1>3 DEF Load, OutOfMemory
  <2>2. Aside(t)
    BY <1>2, <1>3 DEF Aside, Load, OutOfMemory
  <2>3. Pending'[t] = Pending[t]
    BY <2>1 DEF Pending
  <2>4. QED
    BY <2>1, <2>2, <2>3, QuietAccounts
<1>4. CASE Create(t) \/ Join(t) \/ Finish(t) \/ Enter(t) \/ Lock(t) \/ FreeNull(t) \/ Leave(t)
  <2>1. /\ at[t] \notin {"calloc", "free", "count moved", "count in"}
        /\ at'[t] \notin {"calloc", "free", "count moved", "count in"}
        /\ at' = [at EXCEPT ![t] = at'[t]] /\ length' = length /\ counter' = counter /\ reg' = reg
        /\ call' = [call EXCEPT ![t] = call'[t]]
    BY <1>2, <1>4 DEF Create, Join, Finish, Enter, Lock, FreeNull, Leave, Go
  <2>2. Aside(t)
    BY <1>2, <2>1 DEF Aside
  <2>3. Pending'[t] = 0 /\ Pending[t] = 0
    BY <2>1 DEF Pending
  <2>4. QED
    BY <2>1, <2>2, <2>3, QuietAccounts
<1>5. ASSUME \/ \E request \in Requests : Allocate(t, request)
             \/ \E b \in Addresses : Free(t, b) \/ \E request \in Requests : Reallocate(t, b, request)
      PROVE  Unmoved
  <2>1. /\ at[t] = "inside" /\ at'[t] \in {"count in", "count out", "realloc"}
        /\ at' = [at EXCEPT ![t] = at'[t]] /\ length' = length /\ counter' = counter /\ reg' = reg
        /\ call' = [call EXCEPT ![t] = call'[t]]
        /\ at'[t] = "count in" => call'[t].block = call[t].block
    BY <1>2, <1>5 DEF Allocate, Free, Reallocate, Go, Calls
  <2>2. Aside(t)
    BY <1>2, <2>1 DEF Aside
  <2>3. call[t].block = None
    <3>1. call[t] = NoCall
      BY <1>1, <2>1 DEF CallOK, Working
    <3>2. QED
      BY <3>1 DEF NoCall
  <2>4. Pending'[t] = 0 /\ Pending[t] = 0
    BY <2>1, <2>3 DEF Pending
  <2>5. QED
    BY <2>1, <2>2, <2>4, QuietAccounts
<1>6. QED
  BY <1>3, <1>4, <1>5

\* The stores: "+=" adds the new length, and a "-=" takes the old one away,
\* which is what each changes of what is pending.
LEMMA StoreStored ==
  ASSUME IInv, TypesOK', NEW t \in Threads, CountIn(t) \/ CountOut(t) \/ CountMoved(t)
  PROVE  Stored(t)
<1>1. TypesOK /\ CallOK(t)
  BY DEF IInv, CallsOK
<1>2. /\ at \in [Threads -> Places] /\ reg \in [Threads -> Words \cup {None}]
      /\ call' = call /\ length' = length
  BY <1>1 DEF TypesOK, CountIn, CountOut, CountMoved, Store
<1>3. call[t].old \in Int /\ call[t].new \in Int /\ Pending[t] \in Int /\ Pending'[t] \in Int
  BY <1>1, PendingIs
<1>4. PICK delta \in Int : Store(t, delta) /\ Pending'[t] = Pending[t] + delta
  <2>1. CASE CountIn(t)
    <3>1. /\ at[t] = "count in" /\ at'[t] = IF call[t].block = None THEN "calloc" ELSE "returning"
          /\ Store(t, call[t].new)
      BY <1>2, <2>1 DEF CountIn, Go
    <3>2. CASE call[t].block = None
      <4>1. Pending[t] = 0 /\ Pending'[t] = call[t].new
        BY <1>2, <3>1, <3>2 DEF Pending
      <4>2. Pending'[t] = Pending[t] + call[t].new
        BY <1>3, <4>1
      <4>3. QED
        BY <1>3, <3>1, <4>2, Zenon
    <3>3. CASE call[t].block # None
      <4>1. Pending[t] = - call[t].new /\ Pending'[t] = 0
        BY <1>2, <3>1, <3>3 DEF Pending
      <4>2. Pending'[t] = Pending[t] + call[t].new
        BY <1>3, <4>1
      <4>3. QED
        BY <1>3, <3>1, <4>2, Zenon
    <3>4. QED
      BY <3>2, <3>3
  <2>2. CASE CountOut(t)
    <3>1. at[t] = "count out" /\ at'[t] = "free" /\ Store(t, - call[t].old)
      BY <1>2, <2>2 DEF CountOut, Go
    <3>2. Pending[t] = 0 /\ Pending'[t] = - call[t].old
      BY <1>2, <3>1 DEF Pending
    <3>3. - call[t].old \in Int /\ Pending'[t] = Pending[t] + (- call[t].old)
      BY <1>3, <3>2
    <3>4. QED
      BY <3>1, <3>3, Zenon
  <2>3. CASE CountMoved(t)
    <3>1. at[t] = "count moved" /\ at'[t] = "count in" /\ Store(t, - call[t].old)
      BY <1>2, <2>3 DEF CountMoved, Go
    <3>2. call[t].block # None
      BY <1>1, <3>1 DEF CallOK
    <3>3. Pending[t] = call[t].old - call[t].new /\ Pending'[t] = - call[t].new
      BY <1>2, <3>1, <3>2 DEF Pending
    <3>4. - call[t].old \in Int /\ Pending'[t] = Pending[t] + (- call[t].old)
      BY <1>3, <3>3
    <3>5. QED
      BY <3>1, <3>4, Zenon
  <2>4. QED
    BY <2>1, <2>2, <2>3
<1>5. Aside(t)
  <2>1. at' = [at EXCEPT ![t] = at'[t]]
    BY <1>2 DEF CountIn, CountOut, CountMoved, Go
  <2>2. reg' = [reg EXCEPT ![t] = None]
    BY <1>4 DEF Store
  <2>3. QED
    BY <1>2, <2>1, <2>2 DEF Aside
<1>6. /\ SumFunction(Pending) \in Int
      /\ SumFunction(Pending)' = SumFunction(Pending) + (Pending'[t] - Pending[t])
  BY <1>1, <1>5, PendingChanges
<1>7. SumFunction(length) \in Int
  BY <1>1, LengthsAdd
<1>8. Booked' = Booked + delta
  <2>1. Pending'[t] - Pending[t] = delta
    BY <1>3, <1>4
  <2>2. SumFunction(length)' = SumFunction(length)
    BY <1>2
  <2>3. QED
    BY <1>6, <1>7, <2>1, <2>2 DEF Booked
<1>9. reg[t] # None /\ reg'[t] = None /\ counter' = (reg[t] + delta) % WordSize
  BY <1>2, <1>4 DEF Store
<1>10. QED
  BY <1>8, <1>9 DEF Stored

\* The steps that change the blocks change what is pending by as much.
LEMMA BlockUnmoved ==
  ASSUME IInv, TypesOK', NEW t \in Threads,
         Release(t) \/ \E b \in Addresses : Calloc(t, b) \/ Realloc(t, b)
  PROVE  Unmoved
<1>1. TypesOK /\ CallOK(t)
  BY DEF IInv, CallsOK
<1>2. at \in [Threads -> Places] /\ call \in [Threads -> Calls]
  BY <1>1 DEF TypesOK
<1>3. call[t].old \in Int /\ call[t].new \in Int
  BY <1>1, PendingIs
<1>4. /\ IsFiniteSet(Live) /\ \A b \in Live : length[b] \in Int
      /\ SumFunction(length) = SumFunctionOnSet(length, Live)
      /\ SumFunction(length) \in Int
  BY <1>1, LengthsAdd DEF TypesOK
<1>5. ASSUME Aside(t), NEW more \in Int, counter' = counter,
             Pending'[t] = Pending[t] - more, SumFunction(length)' = SumFunction(length) + more
      PROVE  Unmoved
  <2>1. /\ SumFunction(Pending) \in Int
        /\ SumFunction(Pending)' = SumFunction(Pending) + (Pending'[t] - Pending[t])
    BY <1>1, <1>5, PendingChanges
  <2>2. Pending[t] \in Int
    BY <1>1, PendingIs
  <2>3. SumFunction(Pending)' = SumFunction(Pending) - more
    BY <1>5, <2>1, <2>2
  <2>4. QED
    BY <1>4, <1>5, <2>1, <2>3 DEF Unmoved, Booked
<1>6. CASE Release(t)
  <2>1. /\ at[t] = "free" /\ at' = [at EXCEPT ![t] = "returning"]
        /\ length' = [b \in Live \ {call[t].block} |-> length[b]]
        /\ UNCHANGED <<counter, call, reg>>
    BY <1>6 DEF Release, Go
  <2>2. Aside(t) /\ Pending[t] = - call[t].old /\ Pending'[t] = 0
    BY <1>2, <2>1 DEF Aside, Pending
  <2>3. call[t].block \in Live /\ length[call[t].block] = call[t].old
    BY <1>1, <2>1 DEF CallOK, Working
  <2>4. SumFunction(length)' = SumFunctionOnSet(length, Live \ {call[t].block})
    <3> DEFINE rest == Live \ {call[t].block}
    <3>1. IsFiniteSet(rest)
      BY <1>4, FS_Subset
    <3>2. SumFunction(length)' = SumFunctionOnSet(length', rest) /\ \A c \in rest : length'[c] = length[c]
      BY <2>1 DEF SumFunction
    <3> HIDE DEF rest
    <3>3. SumFunctionOnSet(length', rest) = SumFunctionOnSet(length, rest)
      BY <3>1, <3>2, SumsAgree
    <3>4. QED
      BY <3>2, <3>3 DEF rest
  <2>5. /\ SumFunctionOnSet(length, Live \ {call[t].block}) \in Int
        /\ SumFunctionOnSet(length, Live) = call[t].old + SumFunctionOnSet(length, Live \ {call[t].block})
    BY <1>1, <2>3, LengthsAdd
  <2>6. SumFunction(length)' = SumFunction(length) + (- call[t].old)
    BY <1>3, <1>4, <2>4, <2>5
  <2>7. - call[t].old \in Int /\ Pending'[t] = Pending[t] - (- call[t].old)
    BY <1>3, <2>2
  <2>8. QED
    BY <1>5, <2>1, <2>2, <2>6, <2>7
<1>7. ASSUME NEW b \in Addresses, Calloc(t, b)
      PROVE  Unmoved
  <2>1. /\ at[t] = "calloc" /\ at' = [at EXCEPT ![t] = "returning"] /\ b \notin Live
        /\ length' = [c \in Live \cup {b} |-> IF c = b THEN call[t].new ELSE length[c]]
        /\ UNCHANGED <<counter, call, reg>>
    BY <1>7 DEF Calloc, Go
  <2>2. Aside(t) /\ Pending[t] = call[t].new /\ Pending'[t] = 0
    BY <1>2, <2>1 DEF Aside, Pending
  <2>3. SumFunction(length') = SumFunctionOnSet(length, Live) + call[t].new
    <3>1. PICK e : e = length'
      OBVIOUS
    <3>2. Extended(e, length, Live, b, call[t].new)
      BY <1>3, <1>4, <2>1, <3>1 DEF Extended
    <3>3. QED
      BY <3>1, <3>2, BlockAdded, Zenon
  <2>4. SumFunction(length)' = SumFunction(length) + call[t].new
    BY <1>4, <2>3
  <2>5. Pending'[t] = Pending[t] - call[t].new
    BY <1>3, <2>2
  <2>6. QED
    BY <1>3, <1>5, <2>1, <2>2, <2>4, <2>5
<1>8. ASSUME NEW b \in Addresses, Realloc(t, b)
      PROVE  Unmoved
  <2> DEFINE rest == Live \ {call[t].block}
  <2>1. /\ at[t] = "realloc" /\ at' = [at EXCEPT ![t] = "count moved"] /\ b \notin rest
        /\ length' = [c \in rest \cup {b} |-> IF c = b THEN call[t].new ELSE length[c]]
        /\ call' = [call EXCEPT ![t].block = b]
        /\ UNCHANGED <<counter, reg>>
    BY <1>8 DEF Realloc, Go
  <2>2. call'[t].old = call[t].old /\ call'[t].new = call[t].new
    BY <1>2, <2>1 DEF Calls
  <2>3. Aside(t) /\ Pending[t] = 0 /\ Pending'[t] = call[t].old - call[t].new
    BY <1>2, <2>1, <2>2 DEF Aside, Pending
  <2>4. call[t].block \in Live /\ length[call[t].block] = call[t].old
    BY <1>1, <2>1 DEF CallOK, Working
  <2>5. IsFiniteSet(rest) /\ \A c \in rest : length[c] \in Int
    BY <1>4, FS_Subset
  <2>6. /\ SumFunctionOnSet(length, rest) \in Int
        /\ SumFunctionOnSet(length, Live) = call[t].old + SumFunctionOnSet(length, rest)
    BY <1>1, <2>4, LengthsAdd
  <2> HIDE DEF rest
  <2>7. SumFunction(length') = SumFunctionOnSet(length, rest) + call[t].new
    <3>1. PICK e : e = length'
      OBVIOUS
    <3>2. Extended(e, length, rest, b, call[t].new)
      BY <1>3, <2>1, <2>5, <3>1 DEF Extended
    <3>3. QED
      BY <3>1, <3>2, BlockAdded, Zenon
  <2>8. call[t].new - call[t].old \in Int
    BY <1>3
  <2>9. SumFunction(length)' = SumFunction(length) + (call[t].new - call[t].old)
    BY <1>3, <1>4, <2>6, <2>7
  <2>10. Pending'[t] = Pending[t] - (call[t].new - call[t].old)
    BY <1>3, <2>3
  <2>11. QED
    BY <1>5, <2>1, <2>3, <2>8, <2>9, <2>10
<1>9. QED
  BY <1>6, <1>7, <1>8

\* Every step of thread t keeps the invariant and either moves neither the
\* counter nor what it should be, or is a store.
LEMMA StepAccounts ==
  ASSUME IInv, NEW t \in Threads, Create(t) \/ Join(t) \/ Step(t)
  PROVE  IInv' /\ (Unmoved \/ Stored(t))
<1>1. IInv'
  BY StepIInv
<1>2. TypesOK'
  BY <1>1 DEF IInv
<1>3. CASE CountIn(t) \/ CountOut(t) \/ CountMoved(t)
  BY <1>1, <1>2, <1>3, StoreStored
<1>4. CASE Release(t) \/ \E b \in Addresses : Calloc(t, b) \/ Realloc(t, b)
  BY <1>1, <1>2, <1>4, BlockUnmoved
<1>5. CASE ~(CountIn(t) \/ CountOut(t) \/ CountMoved(t))
           /\ ~(Release(t) \/ \E b \in Addresses : Calloc(t, b) \/ Realloc(t, b))
  BY <1>1, <1>2, <1>5, QuietUnmoved DEF Step
<1>6. QED
  BY <1>3, <1>4, <1>5

\* What the counter should be is a number.
LEMMA BookedIs ==
  IInv => Booked \in Int /\ counter \in Int
<1>1. SUFFICES ASSUME IInv PROVE Booked \in Int /\ counter \in Int
  OBVIOUS
<1>2. TypesOK
  BY <1>1 DEF IInv
<1>3. SumFunction(length) \in Int
  BY <1>2, LengthsAdd
<1>4. SumFunction(Pending) \in Int
  <2>1. IsFiniteSet(Threads)
    BY AllocatorAssumption
  <2>2. \A t \in Threads : Pending[t] \in Int
    BY <1>2, PendingIs
  <2>3. SumFunction(Pending) = SumFunctionOnSet(Pending, Threads)
    BY DEF SumFunction, Pending
  <2>4. QED
    BY <2>1, <2>2, <2>3, SumInt
<1>5. counter \in Int
  BY <1>2, WordFacts DEF TypesOK
<1>6. QED
  BY <1>3, <1>4, <1>5 DEF Booked

\* A store that adds to a loaded value that is still there keeps the error,
\* though the sum may wrap.
LEMMA StoreInTime ==
  ASSUME IInv, NEW t \in Threads, Stored(t), ~Stale(t)
  PROVE  Error' = Error
<1>1. PICK delta \in Int : /\ counter' = (reg[t] + delta) % WordSize
                         /\ Booked' = Booked + delta /\ reg[t] # None
  BY DEF Stored
<1>2. reg[t] = counter
  BY <1>1 DEF Stale
<1>3. Booked \in Int /\ counter \in Int /\ WordSize \in Nat \ {0}
  BY BookedIs, WordFacts
<1>4. (((counter + delta) % WordSize) - (Booked + delta)) % WordSize = (counter - Booked) % WordSize
  BY <1>3, ShiftedRemainder
<1>5. QED
  BY <1>1, <1>2, <1>4 DEF Error

\* Whoever locks or does not: EZ_ALLOCATED() goes wrong only in the store of
\* a "+=" or "-=" that overwrites what another thread has stored, for any
\* threads, blocks and lengths.
THEOREM OnlyStaleStoresDrift ==
  Spec => OnlyLostUpdatesDrift
<1>1. IInv /\ [Next]_vars => [Error' # Error => \E t \in Threads : Stale(t) /\ reg'[t] = None]_vars
  <2>1. ASSUME IInv, Next, Error' # Error
        PROVE  \E t \in Threads : Stale(t) /\ reg'[t] = None
    <3>1. PICK t \in Threads : Create(t) \/ Join(t) \/ Step(t)
      BY <2>1 DEF Next
    <3>2. Unmoved \/ Stored(t)
      BY <2>1, <3>1, StepAccounts
    <3>3. CASE Unmoved
      BY <2>1, <3>3 DEF Unmoved, Error
    <3>4. CASE Stored(t)
      BY <2>1, <3>4, StoreInTime DEF Stored
    <3>5. QED
      BY <3>2, <3>3, <3>4
  <2>2. QED
    BY <2>1
<1>2. QED
  BY <1>1, Types, PTL DEF Spec, OnlyLostUpdatesDrift

-----------------------------------------------------------------------------
\* The number zero leaves no remainder.
LEMMA ZeroRemainder ==
  0 % WordSize = 0
<1>1. PICK k \in Int : 0 % WordSize \in 0 .. WordSize - 1 /\ 0 = WordSize * k + (0 % WordSize)
  BY WordFacts, RemainderIs
<1>2. WordSize * 0 + 0 = WordSize * k + (0 % WordSize) /\ 0 \in 0 .. WordSize - 1
  BY <1>1, WordFacts
<1>3. QED
  BY <1>1, <1>2, WordFacts, RemainderUnique

\* Initially the count is exact.
LEMMA InitExact ==
  Init => Exact
<1> SUFFICES ASSUME Init PROVE Exact
  OBVIOUS
<1>1. SumFunction(length) = 0
  <2>1. SumFunction(length) = SumFunctionOnSet(length, {})
    BY DEF Init, SumFunction
  <2>2. QED
    BY <2>1, SumOfNone
<1>2. SumFunction(Pending) = 0
  <2>1. IsFiniteSet(Threads)
    BY AllocatorAssumption
  <2>2. \A t \in Threads : Pending[t] = 0
    BY DEF Init, Pending
  <2>3. SumFunction(Pending) = SumFunctionOnSet(Pending, Threads)
    BY DEF SumFunction, Pending
  <2>4. QED
    BY <2>1, <2>2, <2>3, SumOfZeros
<1>3. Error = 0
  BY <1>1, <1>2, ZeroRemainder DEF Init, Error, Booked
<1>4. \A t \in Threads : ~Stale(t)
  BY DEF Init, Stale
<1>5. QED
  BY <1>3, <1>4 DEF Exact

\* What a step does to what the thread has loaded.
LEMMA Loaded ==
  ASSUME IInv, NEW t \in Threads, Create(t) \/ Join(t) \/ Step(t)
  PROVE  /\ \A u \in Threads \ {t} : reg'[u] = reg[u]
         /\ reg'[t] \in {reg[t], None, counter}
         /\ polite' = polite
<1>1. reg \in [Threads -> Words \cup {None}]
  BY DEF IInv, TypesOK
<1>2. polite' = polite /\ (reg' = reg \/ reg' = [reg EXCEPT ![t] = counter] \/ reg' = [reg EXCEPT ![t] = None])
  BY DEF Create, Join, Step, Enter, Lock, Leave, Finish, FreeNull, Allocate, Free, Reallocate,
         Load, CountIn, CountOut, CountMoved, Store, Release, Calloc, Realloc, OutOfMemory
<1>3. QED
  BY <1>1, <1>2

\* A step of a thread keeps the count exact: a thread that has loaded holds
\* the mutex, and no other one has loaded meanwhile.
LEMMA StepExact ==
  ASSUME IInv, Exact, NEW t \in Threads, Create(t) \/ Join(t) \/ Step(t)
  PROVE  Exact'
<1>1. Unmoved \/ Stored(t)
  BY StepAccounts
<1>2. /\ \A u \in Threads \ {t} : reg'[u] = reg[u]
      /\ reg'[t] \in {reg[t], None, counter}
      /\ polite' = polite
  BY Loaded
<1>3. SUFFICES ASSUME polite = Threads
               PROVE  Error' = 0 /\ \A u \in Threads : ~Stale(u)'
  BY <1>2 DEF Exact
<1>4. Error = 0 /\ \A u \in Threads : ~Stale(u)
  BY <1>3 DEF Exact
<1>5. CASE Unmoved
  <2>1. Error' = 0
    BY <1>4, <1>5 DEF Unmoved, Error
  <2>2. \A u \in Threads : ~Stale(u)'
    BY <1>2, <1>4, <1>5 DEF Unmoved, Stale
  <2>3. QED
    BY <2>1, <2>2
<1>6. CASE Stored(t)
  <2>1. Error' = 0
    BY <1>4, <1>6, StoreInTime
  <2>2. ASSUME NEW u \in Threads \ {t}
        PROVE  reg[u] = None
    <3>1. reg[t] # None
      BY <1>6 DEF Stored
    <3>2. at[t] \in Counting /\ (reg[u] # None => at[u] \in Counting)
      BY <3>1 DEF IInv, CallsOK, CallOK
    <3>3. QED
      BY <1>3, <3>2 DEF IInv, MutexOK, Counting, Locked
  <2>3. \A u \in Threads : ~Stale(u)'
    BY <1>2, <1>6, <2>2 DEF Stored, Stale
  <2>4. QED
    BY <2>1, <2>3
<1>7. QED
  BY <1>1, <1>5, <1>6

\* A program in which every thread holds the mutex around its calls has the
\* right count at every moment, although the sum wraps.
THEOREM LockedCount ==
  Spec => []LockedIsExact
<1>1. IInv /\ Exact /\ [Next]_vars => Exact'
  <2>1. ASSUME IInv, Exact, Next PROVE Exact'
    BY <2>1, StepExact DEF Next
  <2>2. ASSUME Exact, UNCHANGED vars PROVE Exact'
    BY <2>2 DEF vars, Exact, Error, Booked, Pending, Stale
  <2>3. QED
    BY <2>1, <2>2
<1>2. Exact => LockedIsExact
  BY DEF Exact, LockedIsExact
<1>3. QED
  BY <1>1, <1>2, InitExact, Types, PTL DEF Spec
=============================================================================
