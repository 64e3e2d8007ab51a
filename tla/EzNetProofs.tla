----------------------------- MODULE EzNetProofs -----------------------------
(***************************************************************************)
(* What EzNet guarantees for any number of objects, ports and descriptors, *)
(* and EzBuffer for buffers of any two sizes and any number of transfers.  *)
(***************************************************************************)
EXTENDS EzNet, EzBuffer, EzLemmas

-----------------------------------------------------------------------------
\* Prepending an element that is not in the list yet.
LEMMA ConsFacts ==
  ASSUME NEW S, NEW s \in Seq(S), NEW x \in S, IsInjective(s), x \notin Range(s)
  PROVE  /\ Cons(x, s) \in Seq(S)
         /\ Range(Cons(x, s)) = Range(s) \cup {x}
         /\ IsInjective(Cons(x, s))
<1> DEFINE t == <<x>> \o s
<1>1. Len(s) \in Nat /\ DOMAIN s = 1 .. Len(s)
  BY LenProperties
<1>2. <<x>> \in Seq(S) /\ Len(<<x>>) = 1 /\ <<x>>[1] = x
  OBVIOUS
<1>3. /\ t \in Seq(S) /\ Len(t) = 1 + Len(s)
      /\ \A i \in 1 .. 1 + Len(s) : t[i] = IF i <= 1 THEN <<x>>[i] ELSE s[i - 1]
  BY <1>2, ConcatProperties
<1> HIDE DEF t
<1>4. DOMAIN t = 1 .. 1 + Len(s)
  BY <1>1, <1>3, LenProperties
<1>5. t[1] = x
  BY <1>1, <1>2, <1>3
<1>6. ASSUME NEW i \in 2 .. 1 + Len(s)
      PROVE  t[i] = s[i - 1] /\ i - 1 \in 1 .. Len(s)
  BY <1>1, <1>3
<1>7. ASSUME NEW i \in 1 .. Len(s)
      PROVE  t[i + 1] = s[i] /\ i + 1 \in 1 .. 1 + Len(s)
  <2>1. i + 1 \in 2 .. 1 + Len(s) /\ i + 1 - 1 = i
    BY <1>1
  <2>2. QED
    BY <1>1, <1>6, <2>1
<1>8. \A i \in 1 .. 1 + Len(s) : i = 1 \/ i \in 2 .. 1 + Len(s)
  BY <1>1
<1>9. Range(t) = Range(s) \cup {x}
  <2>1. ASSUME NEW y \in Range(t) PROVE y \in Range(s) \cup {x}
    BY <1>1, <1>4, <1>5, <1>6, <1>8 DEF Range
  <2>2. x \in Range(t)
    BY <1>1, <1>4, <1>5 DEF Range
  <2>3. ASSUME NEW y \in Range(s) PROVE y \in Range(t)
    BY <1>1, <1>4, <1>7 DEF Range
  <2>4. QED
    BY <2>1, <2>2, <2>3
<1>10. ASSUME NEW i \in 1 .. 1 + Len(s), NEW j \in 1 .. 1 + Len(s), t[i] = t[j]
       PROVE  i = j
  <2>1. \A k \in 2 .. 1 + Len(s) : t[k] # x
    BY <1>1, <1>6 DEF Range
  <2>2. CASE i = 1 \/ j = 1
    BY <1>5, <1>8, <1>10, <2>1, <2>2
  <2>3. CASE i \in 2 .. 1 + Len(s) /\ j \in 2 .. 1 + Len(s)
    <3>1. i - 1 = j - 1
      BY <1>1, <1>6, <1>10, <2>3 DEF IsInjective
    <3>2. QED
      BY <1>1, <3>1
  <2>4. QED
    BY <1>8, <2>2, <2>3
<1>11. IsInjective(t)
  BY <1>4, <1>10 DEF IsInjective
<1>12. QED
  BY <1>3, <1>9, <1>11 DEF Cons, t

\* Removing an element that is in the list.
LEMMA RemoveFirstFacts ==
  ASSUME NEW S, NEW s \in Seq(S), NEW x, IsInjective(s), x \in Range(s)
  PROVE  /\ RemoveFirst(s, x) \in Seq(S)
         /\ Range(RemoveFirst(s, x)) = Range(s) \ {x}
         /\ IsInjective(RemoveFirst(s, x))
<1>1. /\ Len(s) \in Nat /\ DOMAIN s = 1 .. Len(s)
      /\ \A i \in 1 .. Len(s) : s[i] \in S
  BY LenProperties
<1>2. PICK k \in 1 .. Len(s) : s[k] = x
  BY <1>1 DEF Range
<1>3. \A i \in 1 .. Len(s) : s[i] = x <=> i = k
  BY <1>1, <1>2 DEF IsInjective
<1>4. SelectInSeq(s, LAMBDA v : v = x) = k
  <2>1. {i \in 1 .. Len(s) : s[i] = x} = {k}
    BY <1>3
  <2>2. Min({k}) = k
    BY <1>1 DEF Min
  <2>3. QED
    BY <2>1, <2>2 DEF SelectInSeq
<1> DEFINE a == SubSeq(s, 1, k - 1)
           b == SubSeq(s, k + 1, Len(s))
           t == a \o b
<1>5. RemoveFirst(s, x) = t
  BY <1>2, <1>4 DEF RemoveFirst, RemoveAt
<1>6. a \in Seq(S) /\ Len(a) = k - 1 /\ \A i \in 1 .. k - 1 : a[i] = s[i]
  <2>1. \A i \in 1 .. k - 1 : s[i] \in S
    BY <1>1
  <2>2. QED
    BY <1>1, <2>1, SubSeqProperties
<1>7. /\ b \in Seq(S) /\ Len(b) = Len(s) - k
      /\ \A i \in 1 .. Len(s) - k : b[i] = s[k + i]
  <2>1. k \in 0 .. Len(s) /\ Len(s) \in 0 .. Len(s)
    BY <1>1
  <2>2. /\ b \in Seq(S) /\ Len(b) = IF k < Len(s) THEN Len(s) - k ELSE 0
        /\ \A i \in 1 .. Len(s) - k : b[i] = s[k + i]
    BY <2>1, Part
  <2>3. (IF k < Len(s) THEN Len(s) - k ELSE 0) = Len(s) - k
    <3>1. Len(s) \in Nat
      BY <1>1
    <3>2. QED
      BY <3>1
  <2>4. QED
    BY <2>2, <2>3, Zenon
<1> HIDE DEF a, b
<1>8. /\ t \in Seq(S) /\ Len(t) = Len(s) - 1
      /\ \A i \in 1 .. Len(s) - 1 : t[i] = IF i <= k - 1 THEN a[i] ELSE b[i - (k - 1)]
  <2>1. /\ t \in Seq(S) /\ Len(t) = Len(a) + Len(b)
        /\ \A i \in 1 .. Len(a) + Len(b) : t[i] = IF i <= Len(a) THEN a[i] ELSE b[i - Len(a)]
    BY <1>6, <1>7, ConcatProperties
  <2>2. Len(a) + Len(b) = Len(s) - 1
    BY <1>1, <1>6, <1>7
  <2> HIDE DEF t
  <2>3. QED
    BY <1>6, <2>1, <2>2
<1> HIDE DEF t
<1>9. DOMAIN t = 1 .. Len(s) - 1
  BY <1>8, LenProperties
<1>10. ASSUME NEW i \in 1 .. Len(s) - 1
       PROVE  t[i] = IF i < k THEN s[i] ELSE s[i + 1]
  <2>1. CASE i < k
    BY <1>1, <1>6, <1>8, <2>1
  <2>2. CASE i >= k
    <3>1. t[i] = b[i - (k - 1)] /\ i - (k - 1) \in 1 .. Len(s) - k
      <4>1. ~(i <= k - 1) /\ i - (k - 1) \in 1 .. Len(s) - k
        BY <1>1, <2>2
      <4>2. QED
        BY <1>8, <4>1
    <3>2. k + (i - (k - 1)) = i + 1
      BY <1>1
    <3>3. QED
      BY <1>1, <1>7, <2>2, <3>1, <3>2
  <2>3. QED
    BY <1>1, <2>1, <2>2
<1>11. ASSUME NEW i \in 1 .. Len(s) - 1
       PROVE  t[i] \in Range(s) \ {x}
  <2>1. CASE i < k
    BY <1>1, <1>3, <1>10, <2>1 DEF Range
  <2>2. CASE ~(i < k)
    <3>1. t[i] = s[i + 1] /\ i + 1 \in 1 .. Len(s) /\ i + 1 # k
      BY <1>1, <1>10, <2>2
    <3>2. QED
      BY <1>1, <1>3, <3>1 DEF Range
  <2>3. QED
    BY <2>1, <2>2
<1>12. ASSUME NEW y \in Range(s) \ {x}
       PROVE  \E i \in 1 .. Len(s) - 1 : t[i] = y
  <2>1. PICK j \in 1 .. Len(s) : s[j] = y
    BY <1>1 DEF Range
  <2>2. j # k
    BY <1>3, <2>1
  <2>3. CASE j < k
    <3>1. j \in 1 .. Len(s) - 1 /\ t[j] = s[j]
      BY <1>1, <1>10, <2>3
    <3>2. QED
      BY <2>1, <3>1
  <2>4. CASE j > k
    <3>1. j - 1 \in 1 .. Len(s) - 1 /\ ~(j - 1 < k) /\ j - 1 + 1 = j
      BY <1>1, <2>4
    <3>2. t[j - 1] = s[j]
      BY <1>10, <3>1
    <3>3. QED
      BY <2>1, <3>1, <3>2
  <2>5. QED
    BY <1>1, <2>2, <2>3, <2>4
<1>13. Range(t) = Range(s) \ {x}
  BY <1>9, <1>11, <1>12 DEF Range
<1>14. ASSUME NEW i \in 1 .. Len(s) - 1, NEW j \in 1 .. Len(s) - 1, t[i] = t[j]
       PROVE  i = j
  <2> DEFINE from(n) == IF n < k THEN n ELSE n + 1
  <2>1. /\ t[i] = s[from(i)] /\ from(i) \in 1 .. Len(s)
        /\ t[j] = s[from(j)] /\ from(j) \in 1 .. Len(s)
    BY <1>1, <1>10
  <2> HIDE DEF from
  <2>2. from(i) = from(j)
    BY <1>1, <1>14, <2>1 DEF IsInjective
  <2>3. QED
    BY <1>1, <2>2 DEF from
<1>15. IsInjective(t)
  BY <1>9, <1>14 DEF IsInjective
<1>16. QED
  BY <1>5, <1>8, <1>13, <1>15

-----------------------------------------------------------------------------
\* The inductive invariant: the type invariant in parts, that descriptors have
\* one owner, and that only connections are ever lost.
ObjectsOf == [server |-> Servers, client |-> Clients, connection |-> Connections]

RegistryOK ==
  /\ registry \in [Kinds -> Seq(Objects)]
  /\ \A kind \in Kinds : Tracked(kind) \subseteq ObjectsOf[kind] /\ IsInjective(registry[kind])

HeapOK ==
  /\ heap \subseteq Objects \cup {Node(x) : x \in Objects}
  /\ UNION {Blocks(x) : x \in AllTracked} \subseteq heap
  /\ Garbage \subseteq Connections

FieldsOK ==
  /\ socket \in [Objects -> Fds \cup {Invalid}]
  /\ open \in [Servers \cup Clients -> BOOLEAN]
  /\ file \in [Fds -> {"free", "stdin", "listen", "datagram", "stream"}]

FlagsOK ==
  /\ initialized \in BOOLEAN
  /\ pc \in {"idle", "cleaning", "null pointer", "abort"}
  /\ UsedWhileInitialized

IInv == RegistryOK /\ HeapOK /\ FieldsOK /\ FlagsOK /\ SocketsOwned

\* What ez_clean_network has to leave, and that it comes to that: the memory
\* and the descriptors without the objects that are left stay the same.
DueOK ==
  /\ due.heap \subseteq Connections
  /\ due.file \in [Fds -> {"free", "stdin", "listen", "datagram", "stream"}]
  /\ pc = "cleaning" => due = Cleared

\* The type invariant is a part of it.
LEMMA InvIsType == IInv /\ DueOK => TypeOK
<1>1. ASSUME IInv, DueOK
      PROVE  {file, due.file} \subseteq [Fds -> {"free", "stdin", "listen", "datagram", "stream"}]
  BY <1>1 DEF IInv, FieldsOK, DueOK
<1>2. QED
  BY <1>1 DEF IInv, RegistryOK, HeapOK, FieldsOK, FlagsOK, DueOK, TypeOK, Kinds, ObjectsOf

\* An object is tracked in the registry of its kind.
LEMMA Homes ==
  ASSUME RegistryOK
  PROVE  /\ AllTracked \subseteq Objects
         /\ \A kind \in Kinds : \A x \in ObjectsOf[kind] :
              x \in AllTracked => x \in Tracked(kind)
         /\ \A kind \in Kinds : Tracked(kind) \subseteq AllTracked
         /\ \A kind \in Kinds : ObjectsOf[kind] \subseteq Objects
BY NetAssumption DEF RegistryOK, AllTracked, Kinds, ObjectsOf, Objects

\* The sets of blocks of two objects have none in common.
LEMMA BlocksApart ==
  ASSUME NEW x \in Objects, NEW y \in Objects, x # y
  PROVE  Blocks(x) \cap Blocks(y) = {}
BY NetAssumption DEF Blocks, Node

\* A new object in a registry.
LEMMA TrackInv ==
  ASSUME RegistryOK, HeapOK, NEW kind \in Kinds, NEW x \in ObjectsOf[kind], x \notin heap,
         Track(kind, x)
  PROVE  /\ RegistryOK' /\ HeapOK' /\ Garbage' = Garbage
         /\ x \notin AllTracked /\ AllTracked' = AllTracked \cup {x}
<1>1. x \in Objects /\ AllTracked \subseteq Objects
  BY Homes
<1>2. x \notin AllTracked
  BY DEF HeapOK, Blocks
<1>3. x \notin Tracked(kind)
  BY <1>2 DEF AllTracked
<1>4. registry[kind] \in Seq(Objects) /\ IsInjective(registry[kind])
  BY DEF RegistryOK
<1>5. /\ Cons(x, registry[kind]) \in Seq(Objects)
      /\ Range(Cons(x, registry[kind])) = Tracked(kind) \cup {x}
      /\ IsInjective(Cons(x, registry[kind]))
  BY <1>1, <1>3, <1>4, ConsFacts DEF Tracked
<1>6. registry' = [registry EXCEPT ![kind] = Cons(x, registry[kind])]
  BY DEF Track
<1>7. /\ registry' \in [Kinds -> Seq(Objects)]
      /\ Tracked(kind)' = Tracked(kind) \cup {x} /\ IsInjective(registry'[kind])
      /\ \A other \in Kinds : other # kind =>
           Tracked(other)' = Tracked(other) /\ registry'[other] = registry[other]
  BY <1>5, <1>6 DEF RegistryOK, Tracked
<1>8. RegistryOK'
  BY <1>7 DEF RegistryOK
<1>9. AllTracked' = AllTracked \cup {x}
  BY <1>7 DEF AllTracked
<1>10. heap' = heap \cup Blocks(x)
  BY DEF Track
<1>11. UNION {Blocks(y) : y \in AllTracked'} =
         (UNION {Blocks(y) : y \in AllTracked}) \cup Blocks(x)
  BY <1>9
<1>12. Blocks(x) \cap Garbage = {}
  BY <1>1, NetAssumption DEF HeapOK, Blocks, Garbage, Objects
<1>13. Garbage' = Garbage
  BY <1>10, <1>11, <1>12 DEF Garbage
<1>14. HeapOK'
  BY <1>1, <1>10, <1>11, <1>13 DEF HeapOK, Blocks
<1>15. QED
  BY <1>2, <1>8, <1>9, <1>13, <1>14

\* An object that leaves its registry.
LEMMA UntrackInv ==
  ASSUME RegistryOK, HeapOK, NEW kind \in Kinds, NEW x \in Tracked(kind),
         Untrack(kind, x)
  PROVE  /\ RegistryOK' /\ HeapOK' /\ Garbage' = Garbage
         /\ x \in AllTracked /\ AllTracked' = AllTracked \ {x}
<1>1. /\ x \in Objects /\ AllTracked \subseteq Objects /\ x \in AllTracked
      /\ x \in ObjectsOf[kind]
  BY Homes DEF RegistryOK
<1>2. registry[kind] \in Seq(Objects) /\ IsInjective(registry[kind])
  BY DEF RegistryOK
<1>3. /\ RemoveFirst(registry[kind], x) \in Seq(Objects)
      /\ Range(RemoveFirst(registry[kind], x)) = Tracked(kind) \ {x}
      /\ IsInjective(RemoveFirst(registry[kind], x))
  BY <1>1, <1>2, RemoveFirstFacts DEF Tracked
<1>4. registry' = [registry EXCEPT ![kind] = RemoveFirst(registry[kind], x)]
  BY DEF Untrack
<1>5. /\ registry' \in [Kinds -> Seq(Objects)]
      /\ Tracked(kind)' = Tracked(kind) \ {x} /\ IsInjective(registry'[kind])
      /\ \A other \in Kinds : other # kind =>
           Tracked(other)' = Tracked(other) /\ registry'[other] = registry[other]
  BY <1>3, <1>4 DEF RegistryOK, Tracked
<1>6. RegistryOK'
  BY <1>5 DEF RegistryOK
<1>7. \A other \in Kinds : other # kind => x \notin Tracked(other)
  BY <1>1, NetAssumption DEF RegistryOK, ObjectsOf, Kinds
<1>8. AllTracked' = AllTracked \ {x}
  BY <1>5, <1>7 DEF AllTracked
<1>9. heap' = heap \ Blocks(x)
  BY DEF Untrack
<1>10. UNION {Blocks(y) : y \in AllTracked'} =
         (UNION {Blocks(y) : y \in AllTracked}) \ Blocks(x)
  <2>1. \A y \in AllTracked' : Blocks(y) \cap Blocks(x) = {}
    BY <1>1, <1>8, BlocksApart
  <2>2. QED
    BY <1>1, <1>8, <2>1
<1>11. Garbage' = Garbage
  BY <1>1, <1>9, <1>10 DEF Garbage
<1>12. HeapOK'
  BY <1>9, <1>10, <1>11 DEF HeapOK
<1>13. QED
  BY <1>1, <1>6, <1>8, <1>11, <1>12

-----------------------------------------------------------------------------
\* Descriptors.  The sockets an object may hold.
Proper(x) == IF x \in Servers THEN {"listen", "datagram"} ELSE {"stream"}

\* As long as the holders and their sockets stay, nobody loses one.
LEMMA SameHolders ==
  ASSUME SocketsOwned, Holders' = Holders, file' = file,
         \A y \in Holders : socket'[y] = socket[y]
  PROVE  /\ SocketsOwned' /\ Orphans' = Orphans
         /\ Garbage' = Garbage => Cleared' = Cleared
<1>1. Held' = Held
  BY DEF Held
<1>2. SocketsOwned' /\ Orphans' = Orphans
  BY <1>1 DEF SocketsOwned, Orphans, Sockets
<1>3. Garbage' = Garbage => Cleared' = Cleared
  BY <1>1, Zenon DEF Cleared
<1>4. QED
  BY <1>2, <1>3

\* A new holder of a descriptor that was free.
LEMMA NewHolder ==
  ASSUME SocketsOwned, FieldsOK, NEW x \in Objects, NEW f \in Fds, NEW use \in Proper(x),
         x \notin Holders, Holders' = Holders \cup {x},
         file[f] = "free", file' = [file EXCEPT ![f] = use],
         socket'[x] = f,
         \A y \in Holders : socket'[y] = socket[y]
  PROVE  SocketsOwned' /\ Orphans' = Orphans
<1>1. \A y \in Holders : socket[y] \in Fds /\ socket[y] # f /\ file'[socket[y]] = file[socket[y]]
  BY DEF SocketsOwned, FieldsOK
<1>2. file'[f] = use /\ use \in {"listen", "datagram", "stream"}
  BY DEF FieldsOK, Proper
<1>3. SocketsOwned'
  BY <1>1, <1>2 DEF SocketsOwned, Proper
<1>4. Held' = Held \cup {f}
  BY DEF Held
<1>5. Sockets' = Sockets \cup {f}
  BY <1>2 DEF Sockets, FieldsOK
<1>6. f \notin Sockets
  BY DEF Sockets
<1>7. QED
  BY <1>3, <1>4, <1>5, <1>6 DEF Orphans

\* A holder whose descriptor is closed and who holds it no more.
LEMMA LostHolder ==
  ASSUME SocketsOwned, FieldsOK, NEW x \in Holders,
         Holders' = Holders \ {x},
         file' = [file EXCEPT ![socket[x]] = "free"],
         \A y \in Holders \ {x} : socket'[y] = socket[y]
  PROVE  /\ SocketsOwned' /\ Orphans' = Orphans
         /\ Garbage' = Garbage => Cleared' = Cleared
<1>1. socket[x] \in Fds
  BY DEF SocketsOwned
<1>2. \A y \in Holders \ {x} : socket[y] # socket[x] /\ file'[socket[y]] = file[socket[y]]
  BY DEF SocketsOwned, FieldsOK
<1>3. SocketsOwned'
  BY <1>2 DEF SocketsOwned
<1>4. Held' = Held \ {socket[x]} /\ socket[x] \in Held
  BY <1>2 DEF Held
<1>5. Sockets' = Sockets \ {socket[x]}
  BY <1>1 DEF Sockets, FieldsOK
<1>6. Orphans' = Orphans
  BY <1>4, <1>5 DEF Orphans
<1>7. ASSUME Garbage' = Garbage
      PROVE  Cleared' = Cleared
  <2>1. ASSUME NEW f \in Fds
        PROVE  (IF f \in Held' THEN "free" ELSE file'[f]) = IF f \in Held THEN "free" ELSE file[f]
    BY <1>1, <1>4 DEF FieldsOK
  <2>2. [f \in Fds |-> IF f \in Held' THEN "free" ELSE file'[f]] =
          [f \in Fds |-> IF f \in Held THEN "free" ELSE file[f]]
    BY <2>1, Zenon
  <2>3. QED
    BY <1>7, <2>2, Zenon DEF Cleared
<1>8. QED
  BY <1>3, <1>6, <1>7

\* What a step does to the holders: the tracked objects with an open flag.
LEMMA HoldersAre ==
  /\ Holders = {x \in AllTracked : x \in Connections \/ open[x]}
  /\ Holders' = {x \in AllTracked' : x \in Connections \/ open'[x]}
BY DEF Holders

-----------------------------------------------------------------------------
\* The invariant, and nothing lost.
Tidy == IInv' /\ Garbage' = Garbage /\ Orphans' = Orphans

\* The registries are what they were.
LEMMA RegistryStays ==
  ASSUME RegistryOK, HeapOK, UNCHANGED <<registry, heap>>
  PROVE  RegistryOK' /\ HeapOK' /\ AllTracked' = AllTracked /\ Garbage' = Garbage
BY DEF RegistryOK, HeapOK, AllTracked, Tracked, Garbage

\* Steps that change neither registries nor objects nor descriptors.
LEMMA NothingMoves ==
  ASSUME IInv, UNCHANGED <<registry, fields, file, heap>>,
         initialized' \in BOOLEAN, UsedWhileInitialized',
         pc' \in {"idle", "cleaning", "null pointer", "abort"}
  PROVE  Tidy
<1>1. RegistryOK' /\ HeapOK' /\ AllTracked' = AllTracked /\ Garbage' = Garbage
  BY RegistryStays DEF IInv
<1>2. FieldsOK'
  BY DEF IInv, FieldsOK, fields
<1>3. Holders' = Holders
  BY <1>1, Zenon DEF Holders, fields
<1>4. SocketsOwned' /\ Orphans' = Orphans
  BY <1>3, SameHolders DEF IInv, fields
<1>5. FlagsOK'
  BY DEF FlagsOK
<1>6. QED
  BY <1>1, <1>2, <1>4, <1>5 DEF IInv, Tidy

\* ez_check_network, at the start of a call.
LEMMA CallFlags ==
  ASSUME Call, UNCHANGED pc
  PROVE  FlagsOK'
BY Zenon DEF Call, FlagsOK, UsedWhileInitialized

\* ez_generate_server and ez_generate_client.
LEMMA GenerateInv ==
  ASSUME IInv, Call, UNCHANGED <<file, pc>>,
         NEW kind \in {"server", "client"}, NEW x \in ObjectsOf[kind], x \notin heap,
         NEW n \in {Invalid, 0},
         Track(kind, x),
         socket' = [socket EXCEPT ![x] = n],
         open' = [open EXCEPT ![x] = FALSE]
  PROVE  Tidy
<1>1. kind \in Kinds /\ x \in Objects /\ x \notin Connections /\ x \in Servers \cup Clients
  BY NetAssumption DEF Kinds, ObjectsOf, Objects
<1>2. /\ RegistryOK' /\ HeapOK' /\ Garbage' = Garbage
      /\ x \notin AllTracked /\ AllTracked' = AllTracked \cup {x}
  BY <1>1, TrackInv DEF IInv
<1>3. 0 \in Fds
  BY NetAssumption DEF Fds
<1>4. FieldsOK'
  BY <1>1, <1>3 DEF IInv, FieldsOK
<1>5. \A y \in Objects : y # x => socket'[y] = socket[y]
  BY DEF IInv, FieldsOK
<1>6. ~open'[x]
  BY <1>1 DEF IInv, FieldsOK
<1>7. \A y \in Servers \cup Clients : y # x => open'[y] = open[y]
  BY DEF IInv, FieldsOK
<1>8. AllTracked \subseteq Objects
  BY Homes DEF IInv
<1>9. Holders' = Holders
  <2>1. ASSUME NEW y \in AllTracked PROVE y \in Holders' <=> y \in Holders
    BY <1>2, <1>7, <1>8, Zenon DEF Holders, Objects
  <2>2. x \notin Holders' /\ x \notin Holders
    BY <1>1, <1>2, <1>6, Zenon DEF Holders
  <2>3. Holders \subseteq AllTracked /\ Holders' \subseteq AllTracked'
    BY Zenon DEF Holders
  <2>4. QED
    BY <1>2, <2>1, <2>2, <2>3, Zenon
<1>10. \A y \in Holders : socket'[y] = socket[y]
  BY <1>2, <1>5, <1>8, Zenon DEF Holders
<1>11. SocketsOwned' /\ Orphans' = Orphans
  BY <1>9, <1>10, SameHolders DEF IInv
<1>12. FlagsOK'
  BY CallFlags
<1>13. QED
  BY <1>2, <1>4, <1>11, <1>12, Zenon DEF IInv, Tidy

\* Opening a socket for a server or a client that has none open.
LEMMA AcquireInv ==
  ASSUME IInv, Call, UNCHANGED <<registry, heap, pc>>,
         NEW x \in AllTracked, x \in Servers \cup Clients, ~open[x],
         NEW use \in Proper(x), Acquire(x, use)
  PROVE  Tidy
<1>1. /\ x \in Objects /\ AllTracked \subseteq Objects /\ x \notin Connections
  BY Homes, NetAssumption DEF IInv, Objects
<1>2. RegistryOK' /\ HeapOK' /\ AllTracked' = AllTracked /\ Garbage' = Garbage
  BY RegistryStays DEF IInv
<1>3. FlagsOK'
  BY CallFlags
<1>4. x \notin Holders
  BY <1>1, Zenon DEF Holders
<1>5. use \in {"listen", "datagram", "stream"}
  BY DEF Proper
<1>6. \A n : socket' = [socket EXCEPT ![x] = n] =>
        \A y \in Holders : socket'[y] = socket[y]
  BY <1>1, <1>4 DEF Holders, IInv, FieldsOK
<1>7. ASSUME NEW n \in Fds \cup {Invalid}, socket' = [socket EXCEPT ![x] = n],
             UNCHANGED <<open, file>>
      PROVE  Tidy
  <2>1. FieldsOK'
    BY <1>1, <1>7 DEF IInv, FieldsOK
  <2>2. Holders' = Holders
    BY <1>2, <1>7, Zenon DEF Holders
  <2>3. SocketsOwned' /\ Orphans' = Orphans
    BY <1>6, <1>7, <2>2, SameHolders DEF IInv
  <2>4. QED
    BY <1>2, <1>3, <2>1, <2>3, Zenon DEF IInv, Tidy
<1>8. ASSUME NEW f \in Fds, NewFd(f), socket' = [socket EXCEPT ![x] = f],
             open' = [open EXCEPT ![x] = TRUE], file' = [file EXCEPT ![f] = use]
      PROVE  Tidy
  <2>1. FieldsOK'
    BY <1>1, <1>5, <1>8 DEF IInv, FieldsOK
  <2>2. open'[x]
    BY <1>8 DEF IInv, FieldsOK
  <2>3. \A y \in Servers \cup Clients : y # x => open'[y] = open[y]
    BY <1>8 DEF IInv, FieldsOK
  <2>4. Holders' = Holders \cup {x}
    <3>1. ASSUME NEW y \in AllTracked, y # x PROVE y \in Holders' <=> y \in Holders
      BY <1>1, <1>2, <2>3, <3>1, Zenon DEF Holders, Objects
    <3>2. x \in Holders'
      BY <1>2, <2>2, Zenon DEF Holders
    <3>3. Holders \subseteq AllTracked /\ Holders' \subseteq AllTracked'
      BY Zenon DEF Holders
    <3>4. QED
      BY <1>2, <3>1, <3>2, <3>3
  <2>5. file[f] = "free" /\ socket'[x] = f
    BY <1>1, <1>8 DEF NewFd, IInv, FieldsOK
  <2>6. SocketsOwned' /\ Orphans' = Orphans
    BY <1>1, <1>4, <1>6, <1>8, <2>4, <2>5, NewHolder DEF IInv
  <2>7. QED
    BY <1>2, <1>3, <2>1, <2>6, Zenon DEF IInv, Tidy
<1>9. QED
  BY <1>7, <1>8 DEF Acquire

\* ez_server_accept
LEMMA AcceptedInv ==
  ASSUME IInv, Call, UNCHANGED pc, NEW s \in Servers, NEW k \in Connections,
         k \notin heap, Accepted(s, k)
  PROVE  Tidy
<1>1. "connection" \in Kinds /\ k \in ObjectsOf["connection"] /\ k \in Objects
  BY DEF Kinds, ObjectsOf, Objects
<1>2. Track("connection", k) /\ UNCHANGED open
  BY DEF Accepted
<1>3. /\ RegistryOK' /\ HeapOK' /\ Garbage' = Garbage
      /\ k \notin AllTracked /\ AllTracked' = AllTracked \cup {k}
  BY <1>1, <1>2, TrackInv DEF IInv
<1>4. PICK f \in Fds : /\ NewFd(f) /\ file' = [file EXCEPT ![f] = "stream"]
                       /\ socket' = [socket EXCEPT ![k] = f]
  BY DEF Accepted
<1>5. FieldsOK'
  BY <1>1, <1>2, <1>4 DEF IInv, FieldsOK
<1>6. Holders' = Holders \cup {k} /\ k \notin Holders
  BY <1>2, <1>3, Zenon DEF Holders
<1>7. \A y \in Holders : socket'[y] = socket[y]
  BY <1>1, <1>4, <1>6, Homes DEF Holders, IInv, FieldsOK
<1>8. file[f] = "free" /\ socket'[k] = f /\ "stream" \in Proper(k)
  BY <1>1, <1>4, NetAssumption DEF NewFd, IInv, FieldsOK, Proper
<1>9. SocketsOwned' /\ Orphans' = Orphans
  BY <1>1, <1>4, <1>6, <1>7, <1>8, NewHolder DEF IInv
<1>10. FlagsOK'
  BY CallFlags
<1>11. QED
  BY <1>3, <1>5, <1>9, <1>10, Zenon DEF IInv, Tidy

\* ez_server_accept that fails: the connection it allocated is lost.
LEMMA AcceptFailsInv ==
  ASSUME IInv, Call, UNCHANGED pc, NEW k \in Connections, k \notin heap, AcceptFails(k)
  PROVE  IInv' /\ Orphans' = Orphans
<1>1. heap' = heap \cup {k} /\ UNCHANGED <<registry, fields, file>>
  BY DEF AcceptFails
<1>2. RegistryOK' /\ AllTracked' = AllTracked
  BY <1>1 DEF IInv, RegistryOK, AllTracked, Tracked
<1>3. HeapOK'
  BY <1>1, <1>2 DEF IInv, HeapOK, Garbage, Objects
<1>4. FieldsOK'
  BY <1>1 DEF IInv, FieldsOK, fields
<1>5. Holders' = Holders
  BY <1>1, <1>2, Zenon DEF Holders, fields
<1>6. SocketsOwned' /\ Orphans' = Orphans
  BY <1>1, <1>5, SameHolders DEF IInv, fields
<1>7. QED
  BY <1>2, <1>3, <1>4, <1>6, CallFlags, Zenon DEF IInv

\* ez_close_server and ez_disconnect_client
LEMMA CloseInv ==
  ASSUME IInv, NEW kind \in {"server", "client"}, NEW x, Close(x, kind)
  PROVE  Tidy
<1>1. /\ Call /\ x \in Tracked(kind) /\ UNCHANGED <<registry, socket, heap, pc>>
      /\ IF open[x] THEN Shut(x) ELSE UNCHANGED <<open, file>>
  BY Zenon DEF Close
<1>2. kind \in Kinds
  BY DEF Kinds
<1>3. /\ x \in Servers \cup Clients /\ x \in AllTracked /\ x \notin Connections
      /\ AllTracked \subseteq Objects
  BY <1>1, <1>2, Homes, NetAssumption DEF IInv, RegistryOK, ObjectsOf
<1>4. CASE ~open[x]
  <2>1. UNCHANGED <<registry, fields, file, heap>>
    BY <1>1, <1>4, Zenon DEF fields
  <2>2. FlagsOK'
    BY <1>1, CallFlags
  <2>3. QED
    BY <2>1, <2>2, NothingMoves DEF FlagsOK
<1>5. CASE open[x]
  <2>1. file' = [file EXCEPT ![socket[x]] = "free"] /\ open' = [open EXCEPT ![x] = FALSE]
    BY <1>1, <1>5, Zenon DEF Shut
  <2>2. RegistryOK' /\ HeapOK' /\ AllTracked' = AllTracked /\ Garbage' = Garbage
    BY <1>1, RegistryStays DEF IInv
  <2>3. x \in Holders
    BY <1>3, <1>5, Zenon DEF Holders
  <2>4. FieldsOK'
    BY <1>1, <1>3, <2>1 DEF IInv, FieldsOK
  <2>5. ~open'[x]
    BY <1>3, <2>1 DEF IInv, FieldsOK
  <2>6. \A y \in Servers \cup Clients : y # x => open'[y] = open[y]
    BY <2>1 DEF IInv, FieldsOK
  <2>7. Holders' = Holders \ {x}
    <3>1. ASSUME NEW y \in AllTracked, y # x PROVE y \in Holders' <=> y \in Holders
      BY <1>3, <2>2, <2>6, <3>1, Zenon DEF Holders, Objects
    <3>2. x \notin Holders'
      BY <1>3, <2>5, Zenon DEF Holders
    <3>3. Holders \subseteq AllTracked /\ Holders' \subseteq AllTracked'
      BY Zenon DEF Holders
    <3>4. QED
      BY <2>2, <3>1, <3>2, <3>3
  <2>8. SocketsOwned' /\ Orphans' = Orphans
    BY <1>1, <2>1, <2>3, <2>7, LostHolder DEF IInv
  <2>9. QED
    BY <1>1, <2>2, <2>4, <2>8, CallFlags, Zenon DEF IInv, Tidy
<1>6. QED
  BY <1>4, <1>5

\* An object is closed, if it is a holder, and freed.
LEMMA ReleaseInv ==
  ASSUME IInv, UNCHANGED pc, NEW kind \in Kinds, NEW x \in Tracked(kind), Release(kind, x)
  PROVE  Tidy /\ Cleared' = Cleared
<1>1. /\ Untrack(kind, x) /\ socket' = [socket EXCEPT ![x] = 0]
      /\ open' = [y \in DOMAIN open |-> y # x /\ open[y]]
  BY DEF Release, Untrack
<1>2. /\ RegistryOK' /\ HeapOK' /\ Garbage' = Garbage
      /\ x \in AllTracked /\ AllTracked' = AllTracked \ {x}
  BY <1>1, UntrackInv DEF IInv
<1>3. /\ x \in Objects /\ AllTracked \subseteq Objects /\ x \in ObjectsOf[kind]
  BY <1>2, Homes DEF IInv, RegistryOK
<1>4. x \in Connections <=> kind = "connection"
  BY <1>3, NetAssumption DEF Kinds, ObjectsOf
<1>5. x \in Holders <=> kind = "connection" \/ open[x]
  BY <1>2, <1>4, Zenon DEF Holders
<1>6. file' = IF x \in Holders THEN [file EXCEPT ![socket[x]] = "free"] ELSE file
  BY <1>5, Zenon DEF Release
<1>7. 0 \in Fds
  BY NetAssumption DEF Fds
<1>8. FieldsOK'
  <2>1. socket' \in [Objects -> Fds \cup {Invalid}]
    BY <1>1, <1>3, <1>7 DEF IInv, FieldsOK
  <2>2. open' \in [Servers \cup Clients -> BOOLEAN]
    BY <1>1 DEF IInv, FieldsOK
  <2>3. file' \in [Fds -> {"free", "stdin", "listen", "datagram", "stream"}]
    BY <1>6 DEF IInv, FieldsOK
  <2>4. QED
    BY <2>1, <2>2, <2>3 DEF FieldsOK
<1>9. \A y \in Servers \cup Clients : y # x => (open'[y] <=> open[y])
  BY <1>1 DEF IInv, FieldsOK
<1>10. Holders' = Holders \ {x}
  <2>1. ASSUME NEW y \in AllTracked, y # x PROVE y \in Holders' <=> y \in Holders
    BY <1>2, <1>3, <1>9, <2>1, Zenon DEF Holders, Objects
  <2>2. Holders \subseteq AllTracked /\ Holders' \subseteq AllTracked'
    BY Zenon DEF Holders
  <2>3. QED
    BY <1>2, <2>1, <2>2
<1>11. \A y \in Holders \ {x} : socket'[y] = socket[y]
  BY <1>1, <1>3 DEF Holders, IInv, FieldsOK
<1>12. SocketsOwned' /\ Orphans' = Orphans /\ Cleared' = Cleared
  <2>1. CASE x \in Holders
    BY <1>2, <1>6, <1>10, <1>11, <2>1, LostHolder DEF IInv
  <2>2. CASE x \notin Holders
    <3>1. Holders' = Holders
      BY <1>10, <2>2
    <3>2. QED
      BY <1>2, <1>6, <1>11, <2>2, <3>1, SameHolders DEF IInv
  <2>3. QED
    BY <2>1, <2>2
<1>13. initialized /\ initialized'
  BY <1>2, Zenon DEF IInv, FlagsOK, UsedWhileInitialized, Release
<1>14. FlagsOK'
  BY <1>13, Zenon DEF IInv, FlagsOK, UsedWhileInitialized, Release
<1>15. QED
  BY <1>2, <1>8, <1>12, <1>14, Zenon DEF IInv, Tidy

\* ez_close_connection, ez_clean_server and ez_clean_client
LEMMA CleanInv ==
  ASSUME IInv, NEW kind \in Kinds, NEW x, Clean(kind, x)
  PROVE  Tidy
<1>1. CASE x \in Tracked(kind) /\ Release(kind, x) /\ UNCHANGED <<pc, due>>
  BY <1>1, ReleaseInv
<1>2. CASE /\ UNCHANGED <<registry, fields, file, heap, initialized>>
           /\ pc' \in {"idle", "null pointer"}
  <2>1. initialized' \in BOOLEAN /\ UsedWhileInitialized'
    BY <1>2, RegistryStays, Zenon DEF IInv, FlagsOK, UsedWhileInitialized
  <2>2. QED
    BY <1>2, <2>1, NothingMoves
<1>3. QED
  BY <1>1, <1>2, Zenon DEF Clean, vars, fields

\* ez_init_network, and the calls that only move data.
LEMMA PlainInv ==
  ASSUME IInv, InitNetwork \/ Transfer
  PROVE  Tidy
<1>1. Call /\ UNCHANGED <<registry, fields, file, heap, pc>>
  BY DEF InitNetwork, Transfer
<1>2. QED
  BY <1>1, CallFlags, NothingMoves DEF FlagsOK

\* ez_get_my_ip: the one step that may leave a socket behind.
LEMMA GetMyIpInv ==
  ASSUME IInv, GetMyIp
  PROVE  IInv' /\ Garbage' = Garbage
<1>1. Call /\ UNCHANGED <<registry, fields, heap, pc>>
  BY Zenon DEF GetMyIp
<1>2. CASE UNCHANGED file
  BY <1>1, <1>2, CallFlags, NothingMoves DEF FlagsOK, Tidy
<1>3. ASSUME NEW f \in Fds, NewFd(f), file' = [file EXCEPT ![f] = "datagram"]
      PROVE  IInv' /\ Garbage' = Garbage
  <2>1. RegistryOK' /\ HeapOK' /\ AllTracked' = AllTracked /\ Garbage' = Garbage
    BY <1>1, RegistryStays DEF IInv
  <2>2. FieldsOK'
    BY <1>1, <1>3 DEF IInv, FieldsOK, fields
  <2>3. Holders' = Holders /\ socket' = socket
    BY <1>1, <2>1, Zenon DEF Holders, fields
  <2>4. \A y \in Holders : socket[y] \in Fds /\ file'[socket[y]] = file[socket[y]]
    BY <1>3 DEF IInv, SocketsOwned, FieldsOK, NewFd
  <2>5. SocketsOwned'
    BY <2>3, <2>4 DEF IInv, SocketsOwned
  <2>6. QED
    BY <1>1, <2>1, <2>2, <2>5, CallFlags, Zenon DEF IInv
<1>4. QED
  BY <1>2, <1>3, Zenon DEF GetMyIp

\* ez_open_server
LEMMA OpenServerInv ==
  ASSUME IInv, NEW s \in Servers, NEW port, NEW udp \in BOOLEAN, OpenServer(s, port, udp)
  PROVE  Tidy
<1>1. Call /\ s \in Tracked("server") /\ UNCHANGED <<registry, heap, pc>>
  BY DEF OpenServer
<1>2. s \in AllTracked
  BY <1>1, Homes DEF IInv, Kinds
<1>3. CASE UNCHANGED <<fields, file>>
  BY <1>1, <1>3, CallFlags, NothingMoves DEF FlagsOK
<1>4. CASE ~Refused(s, port) /\ Acquire(s, IF udp THEN "datagram" ELSE "listen")
  <2>1. ~open[s]
    BY <1>4, Zenon DEF Refused
  <2>2. PICK use \in Proper(s) : Acquire(s, use)
    BY <1>4 DEF Proper
  <2>3. QED
    BY <1>1, <1>2, <2>1, <2>2, AcquireInv
<1>5. QED
  BY <1>3, <1>4, Zenon DEF OpenServer

\* ez_connect_client
LEMMA ConnectClientInv ==
  ASSUME IInv, NEW c \in Clients, NEW port, ConnectClient(c, port)
  PROVE  Tidy
<1>1. Call /\ c \in Tracked("client") /\ UNCHANGED <<registry, heap, pc>>
  BY DEF ConnectClient
<1>2. c \in AllTracked
  BY <1>1, Homes DEF IInv, Kinds
<1>3. CASE UNCHANGED <<fields, file>>
  BY <1>1, <1>3, CallFlags, NothingMoves DEF FlagsOK
<1>4. CASE ~Refused(c, port) /\ Acquire(c, "stream")
  <2>1. ~open[c] /\ c \notin Servers
    BY <1>4, NetAssumption, Zenon DEF Refused
  <2>2. "stream" \in Proper(c)
    BY <2>1 DEF Proper
  <2>3. QED
    BY <1>1, <1>2, <1>4, <2>1, <2>2, AcquireInv
<1>5. QED
  BY <1>3, <1>4, Zenon DEF ConnectClient

\* ez_server_accept_timed, as far as its select.
LEMMA SelectFailsInv ==
  ASSUME IInv, NEW s, SelectFails(s)
  PROVE  Tidy
<1>1. /\ UNCHANGED <<registry, fields, file, heap, initialized>>
      /\ pc' \in {"idle", "cleaning", "null pointer", "abort"}
  BY DEF SelectFails
<1>2. initialized' \in BOOLEAN /\ UsedWhileInitialized'
  BY <1>1, RegistryStays, Zenon DEF IInv, FlagsOK, UsedWhileInitialized
<1>3. QED
  BY <1>1, <1>2, NothingMoves

\* Either way of accepting: nothing is lost unless accept fails.
LEMMA AcceptInv ==
  ASSUME IInv, NEW s \in Servers, NEW k \in Connections,
         ServerAccept(s, k) \/ AcceptTimed(s, k)
  PROVE  IInv' /\ Orphans' = Orphans /\ (Garbage' = Garbage \/ AcceptFails(k))
<1>1. CASE ServerAccept(s, k)
  BY <1>1, AcceptFailsInv, AcceptedInv DEF ServerAccept, Tidy
<1>2. CASE AcceptTimed(s, k)
  BY <1>1, <1>2, SelectFailsInv DEF AcceptTimed, Tidy
<1>3. QED
  BY <1>1, <1>2

\* ez_clean_network is called.
LEMMA CleanNetworkInv ==
  ASSUME IInv, CleanNetwork
  PROVE  Tidy
<1>1. /\ UNCHANGED <<registry, fields, file, heap, initialized>>
      /\ pc' \in {"idle", "cleaning", "null pointer", "abort"}
  BY DEF CleanNetwork
<1>2. initialized' \in BOOLEAN /\ UsedWhileInitialized'
  BY <1>1, RegistryStays, Zenon DEF IInv, FlagsOK, UsedWhileInitialized
<1>3. QED
  BY <1>1, <1>2, NothingMoves

\* A turn of one of its loops: the first object of a registry goes.
LEMMA CleanStepInv ==
  ASSUME IInv, CleanStep
  PROVE  Tidy /\ Cleared' = Cleared
<1>1. PICK i \in 1 .. Len(CleaningOrder) :
        /\ registry[CleaningOrder[i]] # <<>>
        /\ Release(CleaningOrder[i], Head(registry[CleaningOrder[i]]))
  BY DEF CleanStep
<1>2. CleaningOrder[i] \in Kinds
  BY DEF CleaningOrder, Kinds
<1>3. Head(registry[CleaningOrder[i]]) \in Tracked(CleaningOrder[i])
  BY <1>1, <1>2, ElementFacts DEF IInv, RegistryOK, Tracked
<1>4. QED
  BY <1>1, <1>2, <1>3, ReleaseInv DEF CleanStep

\* When its loops are done no object is left, and nothing is there to clear.
LEMMA CleanDoneInv ==
  ASSUME IInv, CleanDone
  PROVE  Tidy /\ AllTracked' = {} /\ Cleared.heap = heap' /\ Cleared.file = file'
<1>1. /\ UNCHANGED <<registry, fields, file, heap>>
      /\ pc' = "idle" /\ initialized' = FALSE
      /\ \A i \in 1 .. Len(CleaningOrder) : registry[CleaningOrder[i]] = <<>>
  BY DEF CleanDone
<1>2. \A kind \in Kinds : registry[kind] = <<>>
  <2>1. /\ 1 \in 1 .. Len(CleaningOrder) /\ CleaningOrder[1] = "server"
        /\ 2 \in 1 .. Len(CleaningOrder) /\ CleaningOrder[2] = "client"
        /\ 3 \in 1 .. Len(CleaningOrder) /\ CleaningOrder[3] = "connection"
    BY DEF CleaningOrder
  <2>2. registry["server"] = <<>> /\ registry["client"] = <<>> /\ registry["connection"] = <<>>
    BY <1>1, <2>1, Zenon
  <2>3. QED
    BY <2>2 DEF Kinds
<1>3. AllTracked = {}
  BY <1>2 DEF AllTracked, Tracked, Range
<1>4. AllTracked' = {}
  BY <1>1, <1>3, RegistryStays DEF IInv
<1>5. Tidy
  BY <1>1, <1>4, NothingMoves, Zenon DEF UsedWhileInitialized
<1>6. Held = {} /\ Garbage = heap
  BY <1>3 DEF Held, Holders, Garbage
<1>7. Cleared.heap = heap'
  BY <1>1, <1>6 DEF Cleared
<1>8. Cleared.file = file'
  <2>1. file = [f \in Fds |-> file[f]]
    BY DEF IInv, FieldsOK
  <2>2. Cleared.file = [f \in Fds |-> file[f]]
    BY <1>6 DEF Cleared
  <2>3. QED
    BY <1>1, <2>1, <2>2
<1>9. QED
  BY <1>4, <1>5, <1>7, <1>8

-----------------------------------------------------------------------------
\* Before the first call there is nothing.
LEMMA InitInv == Init => IInv
<1> SUFFICES ASSUME Init PROVE IInv
  OBVIOUS
<1>1. \A kind \in Kinds : registry[kind] = <<>> /\ Tracked(kind) = {}
  BY DEF Init, Tracked, Range
<1>2. AllTracked = {}
  BY <1>1 DEF AllTracked
<1>3. RegistryOK
  <2>1. registry \in [Kinds -> Seq(Objects)]
    BY DEF Init
  <2>2. \A kind \in Kinds : IsInjective(registry[kind])
    BY <1>1 DEF IsInjective
  <2>3. QED
    BY <1>1, <2>1, <2>2 DEF RegistryOK
<1>4. HeapOK
  BY <1>2 DEF Init, HeapOK, Garbage
<1>5. FieldsOK
  BY NetAssumption DEF Init, FieldsOK, Fds
<1>6. FlagsOK
  BY <1>2, Zenon DEF Init, FlagsOK, UsedWhileInitialized
<1>7. SocketsOwned
  BY <1>2 DEF SocketsOwned, Holders
<1>8. QED
  BY <1>3, <1>4, <1>5, <1>6, <1>7 DEF IInv

\* What a step keeps, and what it loses, and where.
StepOK ==
  /\ IInv'
  /\ Garbage' = Garbage \/ \E k \in Connections : AcceptFails(k)
  /\ Orphans' = Orphans \/ GetMyIp

\* Every step but a failing accept and ez_get_my_ip.
LEMMA TidyStep == Tidy => StepOK
BY DEF Tidy, StepOK

\* Every action keeps the invariant and loses only what StepOK allows.
LEMMA StepInv ==
  ASSUME IInv, [Next]_vars
  PROVE  StepOK
<1>1. CASE UNCHANGED vars
  <2>1. /\ UNCHANGED <<registry, fields, file, heap>> /\ pc' = pc
        /\ initialized' \in BOOLEAN /\ UsedWhileInitialized'
    BY <1>1, RegistryStays, Zenon DEF vars, fields, IInv, FlagsOK, UsedWhileInitialized
  <2>2. Tidy
    BY <2>1, NothingMoves DEF IInv, FlagsOK
  <2>3. QED
    BY <2>2, TidyStep
<1>2. CASE Next
  <2>1. ASSUME UNCHANGED vars
        PROVE  StepOK
    BY <1>1, <2>1
  <2>2. CASE InitNetwork \/ Transfer
    BY <2>2, PlainInv, TidyStep
  <2>3. CASE GetMyIp
    BY <2>3, GetMyIpInv DEF StepOK
  <2>4. ASSUME NEW s \in Servers,
               GenerateServer(s) \/ CloseServer(s) \/ CleanServer(s)
        PROVE  Tidy
    <3>1. CASE GenerateServer(s)
      BY <3>1, GenerateInv DEF GenerateServer, ObjectsOf
    <3>2. CASE CloseServer(s)
      BY <3>2, CloseInv DEF CloseServer
    <3>3. CASE CleanServer(s)
      BY <3>3, CleanInv DEF CleanServer, Kinds
    <3>4. QED
      BY <2>4, <3>1, <3>2, <3>3
  <2>5. ASSUME NEW s \in Servers, NEW p \in Ports, NEW udp \in BOOLEAN, OpenServer(s, p, udp)
        PROVE  Tidy
    BY <2>5, OpenServerInv
  <2>6. ASSUME NEW s \in Servers, NEW k \in Connections,
               ServerAccept(s, k) \/ AcceptTimed(s, k)
        PROVE  StepOK
    BY <2>6, AcceptInv DEF StepOK
  <2>7. ASSUME NEW c \in Clients,
               GenerateClient(c) \/ DisconnectClient(c) \/ CleanClient(c)
        PROVE  Tidy
    <3>1. CASE GenerateClient(c)
      BY <3>1, GenerateInv DEF GenerateClient, ObjectsOf
    <3>2. CASE DisconnectClient(c)
      BY <3>2, CloseInv DEF DisconnectClient
    <3>3. CASE CleanClient(c)
      BY <3>3, CleanInv DEF CleanClient, Kinds
    <3>4. QED
      BY <2>7, <3>1, <3>2, <3>3
  <2>8. ASSUME NEW c \in Clients, NEW p \in Ports, ConnectClient(c, p)
        PROVE  Tidy
    BY <2>8, ConnectClientInv
  <2>9. ASSUME NEW k \in Connections, CloseConnection(k)
        PROVE  Tidy
    BY <2>9, CleanInv DEF CloseConnection, Kinds
  <2>10. CASE CleanNetwork \/ Cleaning
    BY <2>10, CleanNetworkInv, CleanStepInv, CleanDoneInv, TidyStep DEF Cleaning
  <2>11. ASSUME NEW s \in Servers, TransferDatagram(s)
         PROVE  StepOK
    BY <2>1, <2>11, SelectFailsInv, TidyStep DEF TransferDatagram
  <2>12. QED
    BY <1>2, <2>2, <2>3, <2>4, <2>5, <2>6, <2>7, <2>8, <2>9, <2>10, <2>11, TidyStep DEF Next
<1>3. QED
  BY <1>1, <1>2

\* Only ez_clean_network itself runs while it runs, and only it looks at what
\* is due.
LEMMA WhoseStep ==
  ASSUME Next, ~CleanNetwork, ~Cleaning
  PROVE  pc = "idle" /\ pc' # "cleaning" /\ due' = due
<1>1. ASSUME NEW kind, NEW x, Clean(kind, x)
      PROVE  pc = "idle" /\ pc' # "cleaning" /\ due' = due
  BY <1>1 DEF Clean, vars
<1>2. ASSUME NEW kind, NEW x, Close(x, kind)
      PROVE  pc = "idle" /\ pc' # "cleaning" /\ due' = due
  BY <1>2 DEF Close, Call
<1>3. QED
  BY <1>1, <1>2 DEF Next, InitNetwork, GetMyIp, Transfer, GenerateServer, CloseServer,
     DisconnectClient, CleanServer, CleanClient, CloseConnection, OpenServer, ServerAccept,
     AcceptTimed, SelectFails, TransferDatagram, GenerateClient, ConnectClient, Call, vars

\* What the end of ez_clean_network leaves.
AllCleaned == AllTracked' = {} /\ heap' = due.heap /\ file' = due.file

\* While ez_clean_network runs, what it has to leave is what is there without
\* the objects that are still tracked; at the end there are none.
LEMMA DueStep ==
  ASSUME IInv, DueOK, [Next]_vars
  PROVE  DueOK' /\ (pc = "cleaning" /\ pc' = "idle" => AllCleaned)
<1>1. CASE UNCHANGED vars
  <2>1. Cleared' = Cleared
    BY <1>1, Zenon DEF vars, Cleared, Garbage, Held, Holders, AllTracked, Tracked
  <2>2. QED
    BY <1>1, <2>1 DEF vars, DueOK
<1>2. CASE Next /\ ~CleanNetwork /\ ~Cleaning
  BY <1>2, WhoseStep DEF DueOK
<1>3. CASE CleanNetwork
  <2>1. /\ pc = "idle" /\ due' = Cleared /\ UNCHANGED <<registry, fields, file, heap>>
    BY <1>3 DEF CleanNetwork
  <2>2. Cleared' = Cleared
    BY <2>1, Zenon DEF fields, Cleared, Garbage, Held, Holders, AllTracked, Tracked
  <2>3. due'.heap = Garbage /\ Garbage \subseteq Connections
    BY <2>1 DEF Cleared, IInv, HeapOK
  <2>4. due'.file \in [Fds -> {"free", "stdin", "listen", "datagram", "stream"}]
    BY <2>1 DEF Cleared, IInv, FieldsOK
  <2>5. QED
    BY <2>1, <2>2, <2>3, <2>4 DEF DueOK
<1>4. CASE CleanStep
  <2>1. pc = "cleaning" /\ UNCHANGED <<pc, due>>
    BY <1>4, Zenon DEF CleanStep
  <2>2. QED
    BY <1>4, <2>1, CleanStepInv DEF DueOK
<1>5. CASE CleanDone
  <2>1. pc = "cleaning" /\ pc' = "idle" /\ due' = NothingDue
    BY <1>5 DEF CleanDone
  <2>2. due = Cleared
    BY <2>1 DEF DueOK
  <2>3. AllCleaned
    BY <1>5, <2>2, CleanDoneInv DEF AllCleaned
  <2>4. DueOK'
    BY <2>1 DEF DueOK, NothingDue
  <2>5. QED
    BY <2>3, <2>4
<1>6. QED
  BY <1>1, <1>2, <1>3, <1>4, <1>5 DEF Cleaning

\* The invariant is one of the specification.
LEMMA Invariance == Spec => [](IInv /\ DueOK)
<1>1. Init => IInv /\ DueOK
  BY InitInv DEF Init, DueOK, NothingDue
<1>2. IInv /\ DueOK /\ [Next]_vars => (IInv /\ DueOK)'
  BY StepInv, DueStep DEF StepOK
<1>3. QED
  BY <1>1, <1>2, PTL DEF Spec

-----------------------------------------------------------------------------
\* The registries hold what was generated and not yet cleaned, once, in the
\* memory that is theirs, and only while the network is initialized.
THEOREM RegistriesSound == Spec => []TypeOK
BY InvIsType, Invariance, PTL

\* No two objects share a descriptor, and each one's is a socket of its kind.
THEOREM DescriptorsOwned == Spec => []SocketsOwned
<1>1. IInv => SocketsOwned
  BY DEF IInv
<1>2. QED
  BY <1>1, Invariance, PTL

\* Memory leaks only where accepting a connection fails.
THEOREM OnlyFailedAcceptLeaks == Spec => OnlyAcceptLeaks
<1>1. IInv /\ [Next]_vars => [Garbage' # Garbage => \E k \in Connections : AcceptFails(k)]_vars
  BY StepInv DEF StepOK
<1>2. QED
  BY <1>1, Invariance, PTL DEF Spec, OnlyAcceptLeaks

\* A socket is left open only by ez_get_my_ip.
THEOREM OnlyGetMyIpLeaks == Spec => OnlyMyIpLeaks
<1>1. IInv /\ [Next]_vars => [Orphans' # Orphans => GetMyIp]_vars
  BY StepInv DEF StepOK
<1>2. QED
  BY <1>1, Invariance, PTL DEF Spec, OnlyMyIpLeaks

\* When ez_clean_network is done, every object is gone, its memory freed and
\* its descriptor closed, and no other block and no other descriptor.
THEOREM CleaningIsComplete == Spec => CleanedAll
<1>1. IInv /\ DueOK /\ [Next]_vars =>
        [pc = "cleaning" /\ pc' = "idle" =>
           AllTracked' = {} /\ heap' = due.heap /\ file' = due.file]_vars
  BY DueStep DEF AllCleaned
<1>2. QED
  BY <1>1, Invariance, PTL DEF Spec, CleanedAll

-----------------------------------------------------------------------------
\* What was received as a datagram, and not translated yet, is one that was
\* thrown, or as much of one as fits.
DatagramsWhole == fresh = "datagram" => \E m \in air : Claimed(in) = Cut(m)

\* The buffers: the sender's holds the last message that was recorded and
\* zeros, the receiver's claims bytes that it was given.  The other parts give
\* the types, and what the bytes that were not translated yet are.
BufferIInv ==
  /\ out = Recorded(letter) /\ letter \in Seq(Bytes) /\ Len(letter) <= OutMax
  /\ in \in [bytes : [1 .. InMax -> Bytes \cup {Zero}], len : 0 .. InMax]
  /\ \A i \in 1 .. in.len : in.bytes[i] \in Bytes
  /\ pipe \in Seq(Bytes) /\ {delivered, handed} \subseteq Seq(Bytes) /\ air \subseteq Messages
  /\ fresh \in {"nothing", "stream", "datagram"}
  /\ fresh = "stream" => in.len > 0
  /\ DatagramsWhole
  /\ closed \in BOOLEAN /\ trap \in BOOLEAN

\* The bounds are naturals.
LEMMA BoundsAre ==
  OutMax \in Nat /\ InMax \in Nat
BY BufferAssumption

\* A message is a sequence of bytes, at most one longer than the buffer.
LEMMA MessagesAre ==
  ASSUME NEW m
  PROVE  m \in Messages <=> m \in Seq(Bytes) /\ Len(m) <= OutMax + 1
<1>1. m \in Messages <=> \E n \in 0 .. OutMax + 1 : m \in [1 .. n -> Bytes]
  BY DEF Messages, SeqOf
<1>2. ASSUME NEW n \in 0 .. OutMax + 1, m \in [1 .. n -> Bytes]
      PROVE  m \in Seq(Bytes) /\ Len(m) <= OutMax + 1
  <2>1. n \in Nat /\ n <= OutMax + 1
    BY BoundsAre
  <2>2. m \in Seq(Bytes) /\ Len(m) = n
    BY <1>2, <2>1
  <2>3. QED
    BY <2>1, <2>2
<1>3. ASSUME m \in Seq(Bytes), Len(m) <= OutMax + 1
      PROVE  \E n \in 0 .. OutMax + 1 : m \in [1 .. n -> Bytes]
  <2>1. Len(m) \in 0 .. OutMax + 1 /\ m \in [1 .. Len(m) -> Bytes]
    BY <1>3, BoundsAre, LenProperties
  <2>2. QED
    BY <2>1
<1>4. QED
  BY <1>1, <1>2, <1>3

\* What a buffer claims is the message whose bytes it begins with.
LEMMA ClaimedIs ==
  ASSUME NEW buffer, NEW m \in Seq(Bytes), buffer.len = Len(m),
         \A i \in 1 .. Len(m) : buffer.bytes[i] = m[i]
  PROVE  Claimed(buffer) = m
<1> DEFINE bytes == buffer.bytes
           s == SubSeq(bytes, 1, Len(m))
<1>1. Len(m) \in Nat /\ \A i \in 1 .. Len(m) : m[i] \in Bytes
  BY LenProperties, ElementOfSeq
<1>2. \A i \in 1 .. Len(m) : bytes[i] \in Bytes /\ bytes[i] = m[i]
  BY <1>1
<1> HIDE DEF bytes
<1>3. /\ s \in Seq(Bytes) /\ Len(s) = IF 1 <= Len(m) THEN Len(m) - 1 + 1 ELSE 0
      /\ \A i \in 1 .. Len(m) - 1 + 1 : s[i] = bytes[1 + i - 1]
  BY <1>1, <1>2, SubSeqProperties, SMTT(30)
<1> HIDE DEF s
<1>4. Len(s) = Len(m) /\ \A i \in 1 .. Len(m) : s[i] = m[i]
  <2>1. Len(s) = Len(m)
    BY <1>1, <1>3
  <2>2. ASSUME NEW i \in 1 .. Len(m)
        PROVE  s[i] = m[i]
    <3>1. i \in 1 .. Len(m) - 1 + 1 /\ 1 + i - 1 = i
      BY <1>1
    <3>2. QED
      BY <1>2, <1>3, <3>1
  <2>3. QED
    BY <2>1, <2>2
<1>5. s = m
  BY <1>3, <1>4, SeqEqual
<1>6. QED
  BY <1>5 DEF s, bytes, Claimed

\* What a buffer claims is as long as it says.
LEMMA ClaimedFacts ==
  ASSUME NEW buffer, buffer.len \in Nat, \A i \in 1 .. buffer.len : buffer.bytes[i] \in Bytes
  PROVE  Claimed(buffer) \in Seq(Bytes) /\ Len(Claimed(buffer)) = buffer.len
<1> DEFINE n == buffer.len
           bytes == buffer.bytes
<1>1. n \in Nat /\ \A i \in 1 .. n : bytes[i] \in Bytes
  OBVIOUS
<1> HIDE DEF n, bytes
<1>2. /\ SubSeq(bytes, 1, n) \in Seq(Bytes)
      /\ Len(SubSeq(bytes, 1, n)) = IF 1 <= n THEN n - 1 + 1 ELSE 0
  BY <1>1, SubSeqProperties
<1>3. QED
  BY <1>1, <1>2 DEF n, bytes, Claimed

\* A recorded message fills the sender's buffer and is what it claims.
LEMMA RecordedFacts ==
  ASSUME NEW m \in Seq(Bytes), Len(m) <= OutMax
  PROVE  /\ Recorded(m) \in [bytes : [1 .. OutMax -> Bytes \cup {Zero}], len : 0 .. OutMax]
         /\ Claimed(Recorded(m)) = m
         /\ m \in Messages
<1>1. Len(m) \in Nat /\ \A i \in 1 .. Len(m) : m[i] \in Bytes
  BY LenProperties, ElementOfSeq
<1>2. /\ Recorded(m).len = Len(m)
      /\ \A i \in 1 .. OutMax : Recorded(m).bytes[i] = IF i <= Len(m) THEN m[i] ELSE Zero
      /\ Recorded(m).bytes \in [1 .. OutMax -> Bytes \cup {Zero}]
  BY <1>1, BoundsAre DEF Recorded
<1>3. Claimed(Recorded(m)) = m
  <2>1. \A i \in 1 .. Len(m) : Recorded(m).bytes[i] = m[i]
    BY <1>1, <1>2, BoundsAre
  <2>2. QED
    BY <1>2, <2>1, ClaimedIs
<1>4. m \in Messages
  BY <1>1, MessagesAre, BoundsAre
<1>5. QED
  BY <1>1, <1>2, <1>3, <1>4, BoundsAre DEF Recorded

\* What arrives in the receiver's buffer is what it claims then.
LEMMA ArrivedFacts ==
  ASSUME BufferIInv, NEW m \in Seq(Bytes), Len(m) <= InMax
  PROVE  /\ Arrived(m) \in [bytes : [1 .. InMax -> Bytes \cup {Zero}], len : 0 .. InMax]
         /\ Arrived(m).len = Len(m)
         /\ \A i \in 1 .. Len(m) : Arrived(m).bytes[i] \in Bytes
         /\ Claimed(Arrived(m)) = m
<1>1. Len(m) \in Nat /\ \A i \in 1 .. Len(m) : m[i] \in Bytes
  BY LenProperties, ElementOfSeq
<1>2. in.bytes \in [1 .. InMax -> Bytes \cup {Zero}]
  BY DEF BufferIInv
<1>3. Overwritten(in.bytes, m) = [i \in 1 .. InMax |-> IF i <= Len(m) THEN m[i] ELSE in.bytes[i]]
  BY <1>2 DEF Overwritten
<1>4. /\ Arrived(m).len = Len(m)
      /\ Arrived(m).bytes \in [1 .. InMax -> Bytes \cup {Zero}]
      /\ \A i \in 1 .. Len(m) : Arrived(m).bytes[i] = m[i]
  BY <1>1, <1>2, <1>3, BoundsAre DEF Arrived
<1>5. Claimed(Arrived(m)) = m
  BY <1>4, ClaimedIs
<1>6. QED
  BY <1>1, <1>4, <1>5, BoundsAre DEF Arrived

\* The smaller of two naturals.
LEMMA LeastOfTwo ==
  ASSUME NEW x \in Nat, NEW y \in Nat
  PROVE  Min({x, y}) = IF x <= y THEN x ELSE y
<1>1. \E a \in {x, y} : \A b \in {x, y} : a <= b
  OBVIOUS
<1>2. Min({x, y}) \in {x, y} /\ \A b \in {x, y} : Min({x, y}) <= b
  BY <1>1 DEF Min
<1>3. QED
  BY <1>2

\* A datagram of which the end was cut off fits the buffer, and what is left
\* of it is what fits.
LEMMA CutFacts ==
  ASSUME NEW m \in Messages
  PROVE  Cut(m) \in Seq(Bytes) /\ Len(Cut(m)) <= InMax /\ Cut(m) = Post!Fitting(m)
<1> DEFINE n == Min({Len(m), InMax})
<1>1. m \in Seq(Bytes) /\ Len(m) \in Nat
  BY MessagesAre, LenProperties
<1>2. n \in Nat /\ n <= Len(m) /\ n <= InMax
  BY <1>1, BoundsAre, LeastOfTwo
<1> HIDE DEF n
<1>3. n \in 0 .. Len(m) /\ 0 \in 0 .. Len(m)
  BY <1>1, <1>2
<1>4. /\ SubSeq(m, 0 + 1, n) \in Seq(Bytes)
      /\ Len(SubSeq(m, 0 + 1, n)) = IF 0 < n THEN n - 0 ELSE 0
  BY <1>1, <1>3, Part
<1>5. SubSeq(m, 1, n) \in Seq(Bytes) /\ Len(SubSeq(m, 1, n)) <= InMax
  BY <1>2, <1>4, BoundsAre
<1>6. SubSeq(m, 1, n) = Post!Fitting(m)
  <2>1. CASE Len(m) <= InMax
    <3>1. n = Len(m)
      BY <1>1, <1>2, <2>1, BoundsAre, LeastOfTwo DEF n
    <3>2. SubSeq(m, 1, Len(m)) = m
      BY <1>1, SubSeqFull
    <3>3. QED
      BY <2>1, <3>1, <3>2 DEF Post!Fitting
  <2>2. CASE ~(Len(m) <= InMax)
    <3>1. n = InMax
      BY <1>1, <1>2, <2>2, BoundsAre, LeastOfTwo DEF n
    <3>2. QED
      BY <2>2, <3>1 DEF Post!Fitting
  <2>3. QED
    BY <2>1, <2>2
<1>7. QED
  BY <1>5, <1>6 DEF Cut, n

\* Bytes taken off the front of the pipe and those that stay.
LEMMA PipeParts ==
  ASSUME NEW p \in Seq(Bytes), NEW n \in 1 .. InMax, n <= Len(p)
  PROVE  /\ SubSeq(p, 1, n) \in Seq(Bytes) /\ Len(SubSeq(p, 1, n)) = n
         /\ SubSeq(p, n + 1, Len(p)) \in Seq(Bytes)
         /\ SubSeq(p, 1, n) \o SubSeq(p, n + 1, Len(p)) = p
<1>1. Len(p) \in Nat /\ n \in 0 .. Len(p) /\ 0 \in 0 .. Len(p) /\ Len(p) \in 0 .. Len(p)
  BY LenProperties, BoundsAre
<1>2. SubSeq(p, 1, n) \in Seq(Bytes) /\ Len(SubSeq(p, 1, n)) = n
  <2>1. 0 + 1 = 1
    OBVIOUS
  <2>2. /\ SubSeq(p, 0 + 1, n) \in Seq(Bytes)
        /\ Len(SubSeq(p, 0 + 1, n)) = IF 0 < n THEN n - 0 ELSE 0
    BY <1>1, Part
  <2>3. (IF 0 < n THEN n - 0 ELSE 0) = n
    BY BoundsAre
  <2>4. QED
    BY <2>1, <2>2, <2>3
<1>3. SubSeq(p, n + 1, Len(p)) \in Seq(Bytes)
  BY <1>1, Part
<1>4. 1 \in 1 .. Len(p) + 1 /\ n \in 1 - 1 .. Len(p) /\ Len(p) \in n .. Len(p)
  BY <1>1
<1>5. SubSeq(p, 1, n) \o SubSeq(p, n + 1, Len(p)) = SubSeq(p, 1, Len(p))
  BY <1>4, ConcatAdjacentSubSeq
<1>6. SubSeq(p, 1, Len(p)) = p
  BY SubSeqFull
<1>7. QED
  BY <1>1, <1>2, <1>3, <1>5, <1>6

\* Bytes that stay when the end of the pipe is lost.
LEMMA PipeTorn ==
  ASSUME NEW p \in Seq(Bytes), NEW n \in 0 .. Len(p)
  PROVE  SubSeq(p, 1, n) \in Seq(Bytes) /\ Len(SubSeq(p, 1, n)) = n
<1>1. Len(p) \in Nat /\ n \in 0 .. Len(p) /\ 0 \in 0 .. Len(p) /\ n \in Nat
  BY LenProperties
<1>2. 0 + 1 = 1
  OBVIOUS
<1>3. /\ SubSeq(p, 0 + 1, n) \in Seq(Bytes)
      /\ Len(SubSeq(p, 0 + 1, n)) = IF 0 < n THEN n - 0 ELSE 0
  BY <1>1, Part
<1>4. (IF 0 < n THEN n - 0 ELSE 0) = n
  BY <1>1
<1>5. QED
  BY <1>2, <1>3, <1>4

\* A sequence, the end of whose second part is lost, is a prefix of itself.
LEMMA TornBehind ==
  ASSUME NEW q \in Seq(Bytes), NEW p \in Seq(Bytes), NEW n \in 0 .. Len(p)
  PROVE  \E k \in 0 .. Len(q \o p) : q \o SubSeq(p, 1, n) = SubSeq(q \o p, 1, k)
<1> DEFINE a == SubSeq(p, 1, n)
           c == SubSeq(p, n + 1, Len(p))
<1>1. Len(p) \in Nat /\ n \in 0 .. Len(p) /\ Len(q) \in Nat /\ Len(p) \in 0 .. Len(p)
  BY LenProperties
<1>2. a \in Seq(Bytes) /\ Len(a) = n /\ c \in Seq(Bytes)
  BY <1>1, PipeTorn, Part
<1>3. a \o c = p
  <2>1. 1 \in 1 .. Len(p) + 1 /\ n \in 1 - 1 .. Len(p) /\ Len(p) \in n .. Len(p)
    BY <1>1
  <2>2. SubSeq(p, 1, n) \o SubSeq(p, n + 1, Len(p)) = SubSeq(p, 1, Len(p))
    BY <2>1, ConcatAdjacentSubSeq
  <2>3. QED
    BY <2>2, SubSeqFull
<1> HIDE DEF a, c
<1>4. (q \o a) \o c = q \o p
  <2>1. (q \o a) \o c = q \o (a \o c)
    BY <1>2, ConcatAssociative, SMTT(30)
  <2>2. QED
    BY <1>3, <2>1
<1>5. q \o a \in Seq(Bytes) /\ Len(q \o a) = Len(q) + n
  BY <1>1, <1>2, ConcatProperties
<1>6. SubSeq((q \o a) \o c, 1, Len(q \o a)) = q \o a
  BY <1>2, <1>5, PrefixOfConcat
<1>7. Len(q \o a) \in 0 .. Len(q \o p)
  <2>1. Len(q \o p) = Len(q) + Len(p)
    BY ConcatProperties
  <2>2. QED
    BY <1>1, <1>5, <2>1
<1>8. QED
  BY <1>4, <1>6, <1>7 DEF a

\* Initially nothing is recorded, sent or received.
LEMMA InitBuffers ==
  BufferInit => BufferIInv
<1> SUFFICES ASSUME BufferInit PROVE BufferIInv
  OBVIOUS
<1>1. <<>> \in Seq(Bytes) /\ Len(<<>>) = 0
  BY EmptySeq
<1>2. Empty(OutMax) = Recorded(<<>>)
  <2>1. \A i \in 1 .. OutMax : ~(i <= 0)
    BY BoundsAre
  <2>2. QED
    BY <1>1, <2>1 DEF Empty, Recorded
<1>3. /\ Empty(InMax) \in [bytes : [1 .. InMax -> Bytes \cup {Zero}], len : 0 .. InMax]
      /\ Empty(InMax).len = 0
  BY BoundsAre DEF Empty
<1>4. /\ out = Recorded(letter) /\ letter \in Seq(Bytes) /\ Len(letter) <= OutMax
      /\ pipe \in Seq(Bytes) /\ {delivered, handed} \subseteq Seq(Bytes)
  BY <1>1, <1>2, BoundsAre DEF BufferInit
<1>5. /\ in \in [bytes : [1 .. InMax -> Bytes \cup {Zero}], len : 0 .. InMax]
      /\ \A i \in 1 .. in.len : in.bytes[i] \in Bytes
  BY <1>3 DEF BufferInit
<1>6. /\ air \subseteq Messages /\ fresh = "nothing" /\ closed \in BOOLEAN /\ trap \in BOOLEAN
  BY DEF BufferInit
<1>7. QED
  BY <1>4, <1>5, <1>6 DEF BufferIInv, DatagramsWhole

\* Bytes that arrive through TCP.
LEMMA ReceiveBuffers ==
  ASSUME BufferIInv, Receive
  PROVE  /\ BufferIInv' /\ fresh = "nothing" /\ fresh' = "stream"
         /\ Claimed(in') \o pipe' = pipe /\ UNCHANGED <<letter, closed, air, delivered, handed>>
<1>1. PICK n \in 1 .. InMax : /\ n <= Len(pipe)
                            /\ in' = Arrived(SubSeq(pipe, 1, n))
                            /\ pipe' = SubSeq(pipe, n + 1, Len(pipe))
  BY DEF Receive
<1>2. /\ fresh = "nothing" /\ fresh' = "stream"
      /\ UNCHANGED <<out, letter, closed, air, delivered, handed, trap>>
  BY DEF Receive
<1>3. pipe \in Seq(Bytes)
  BY DEF BufferIInv
<1>4. /\ SubSeq(pipe, 1, n) \in Seq(Bytes) /\ Len(SubSeq(pipe, 1, n)) = n
      /\ SubSeq(pipe, n + 1, Len(pipe)) \in Seq(Bytes)
      /\ SubSeq(pipe, 1, n) \o SubSeq(pipe, n + 1, Len(pipe)) = pipe
  BY <1>1, <1>3, PipeParts
<1> DEFINE m == SubSeq(pipe, 1, n)
           p == SubSeq(pipe, n + 1, Len(pipe))
<1>5. m \in Seq(Bytes) /\ Len(m) = n /\ p \in Seq(Bytes) /\ m \o p = pipe
      /\ in' = Arrived(m) /\ pipe' = p
  BY <1>1, <1>4
<1> HIDE DEF m, p
<1>6. n <= InMax /\ n > 0
  BY BoundsAre
<1>7. /\ in' \in [bytes : [1 .. InMax -> Bytes \cup {Zero}], len : 0 .. InMax]
      /\ in'.len = n /\ Claimed(in') = m
      /\ \A i \in 1 .. n : in'.bytes[i] \in Bytes
  BY <1>5, <1>6, ArrivedFacts
<1>8. BufferIInv'
  <2>1. /\ out' = Recorded(letter') /\ letter' \in Seq(Bytes) /\ Len(letter') <= OutMax
        /\ {delivered', handed'} \subseteq Seq(Bytes) /\ air' \subseteq Messages /\ closed' \in BOOLEAN /\ trap' \in BOOLEAN
    BY <1>2 DEF BufferIInv
  <2>2. DatagramsWhole'
    BY <1>2 DEF DatagramsWhole
  <2>3. QED
    BY <1>2, <1>5, <1>6, <1>7, <2>1, <2>2 DEF BufferIInv
<1>9. QED
  BY <1>2, <1>5, <1>7, <1>8

\* What the byte stream holds: the bytes on their way, behind those that the
\* receiver has and has not translated.
Queue == (IF fresh = "stream" THEN Claimed(in) ELSE <<>>) \o pipe

\* It is a sequence of bytes.
LEMMA QueueFacts ==
  ASSUME BufferIInv
  PROVE  /\ Claimed(in) \in Seq(Bytes) /\ Len(Claimed(in)) = in.len /\ in.len \in Nat
         /\ Queue \in Seq(Bytes) /\ pipe \in Seq(Bytes)
         /\ fresh # "stream" => Queue = pipe
         /\ fresh = "stream" => Queue = Claimed(in) \o pipe
<1>1. in.len \in Nat /\ pipe \in Seq(Bytes) /\ \A i \in 1 .. in.len : in.bytes[i] \in Bytes
  BY BoundsAre DEF BufferIInv
<1>2. Claimed(in) \in Seq(Bytes) /\ Len(Claimed(in)) = in.len
  BY <1>1, ClaimedFacts
<1>3. fresh # "stream" => Queue = pipe
  BY <1>1, ConcatEmptySeq DEF Queue
<1>4. fresh = "stream" => Queue = Claimed(in) \o pipe
  BY DEF Queue
<1>5. Queue \in Seq(Bytes)
  BY <1>1, <1>2, <1>3, <1>4, ConcatProperties
<1>6. QED
  BY <1>1, <1>2, <1>3, <1>4, <1>5

\* A step that changes none of the stream's variables, and one of the stream.
Still == UNCHANGED <<letter, Queue, delivered, closed>>
Streamed == Still \/ Stream!Next

\* The same of the post.
PostStill == UNCHANGED <<letter, air, handed>>
Posted == PostStill \/ Post!Next

\* A step of the sender.
LEMMA SenderStep ==
  ASSUME BufferIInv, (\E m \in Messages : Record(m)) \/ Send \/ Hangup \/ Throw
  PROVE  BufferIInv' /\ Streamed /\ Posted
<1>1. /\ Claimed(in) \in Seq(Bytes) /\ Len(Claimed(in)) = in.len /\ in.len \in Nat
      /\ Queue \in Seq(Bytes) /\ pipe \in Seq(Bytes)
      /\ fresh # "stream" => Queue = pipe
      /\ fresh = "stream" => Queue = Claimed(in) \o pipe
  BY QueueFacts
<1>2. /\ out = Recorded(letter) /\ letter \in Seq(Bytes) /\ Len(letter) <= OutMax
      /\ Claimed(out) = letter /\ letter \in Messages
  BY RecordedFacts DEF BufferIInv
<1>3. ASSUME NEW m \in Messages, Record(m)
      PROVE  BufferIInv' /\ Streamed /\ Posted
  <2>1. UNCHANGED <<in, pipe, closed, air, fresh, delivered, handed, trap>>
    BY <1>3 DEF Record
  <2>2. m \in Seq(Bytes) /\ Len(m) \in Nat
    BY MessagesAre, LenProperties
  <2>3. /\ out' = Recorded(letter') /\ letter' \in Seq(Bytes) /\ Len(letter') <= OutMax
        /\ letter' \in Messages
    BY <1>2, <1>3, <2>2, BoundsAre DEF Record
  <2>4. BufferIInv'
    BY <2>1, <2>3 DEF BufferIInv, DatagramsWhole, Claimed
  <2>5. Stream!Write
    BY <2>1, <2>3 DEF Stream!Write, Claimed
  <2>6. Post!Write
    BY <2>1, <2>3 DEF Post!Write
  <2>7. QED
    BY <2>4, <2>5, <2>6 DEF Stream!Next, Post!Next, Streamed, Posted
<1>4. CASE Send
  <2>1. /\ pipe' = pipe \o letter /\ closed = FALSE
        /\ UNCHANGED <<out, in, letter, closed, air, fresh, delivered, handed, trap>>
    BY <1>2, <1>4 DEF Send, BufferIInv
  <2>2. pipe' \in Seq(Bytes)
    BY <1>1, <1>2, <2>1, ConcatProperties
  <2>3. BufferIInv'
    BY <2>1, <2>2 DEF BufferIInv, DatagramsWhole, Claimed
  <2>4. Queue' = Queue \o letter
    <3>1. CASE fresh = "stream"
      <4>1. Queue' = Claimed(in) \o (pipe \o letter)
        BY <2>1, <3>1 DEF Queue, Claimed
      <4>2. (Claimed(in) \o pipe) \o letter = Claimed(in) \o (pipe \o letter)
        BY <1>1, <1>2, ConcatAssociative, SMTT(30)
      <4>3. QED
        BY <1>1, <3>1, <4>1, <4>2
    <3>2. CASE fresh # "stream"
      BY <1>1, <2>1, <2>2, <3>2, ConcatEmptySeq DEF Queue
    <3>3. QED
      BY <3>1, <3>2
  <2>5. Stream!Send
    BY <2>1, <2>4 DEF Stream!Send, Queue
  <2>6. PostStill
    BY <2>1 DEF PostStill
  <2>7. QED
    BY <2>3, <2>5, <2>6 DEF Stream!Next, Streamed, Posted
<1>5. CASE Hangup
  <2>1. /\ closed' = TRUE /\ \E k \in 0 .. Len(pipe) : pipe' = SubSeq(pipe, 1, k)
        /\ UNCHANGED <<out, in, letter, air, fresh, delivered, handed, trap>>
    BY <1>5 DEF Hangup
  <2>2. pipe' \in Seq(Bytes)
    BY <1>1, <2>1, PipeTorn
  <2>3. BufferIInv'
    BY <2>1, <2>2 DEF BufferIInv, DatagramsWhole, Claimed
  <2>4. PICK n \in 0 .. Len(Queue) : Queue' = SubSeq(Queue, 1, n)
    <3>1. PICK k \in 0 .. Len(pipe) : pipe' = SubSeq(pipe, 1, k)
      BY <2>1
    <3>2. CASE fresh = "stream"
      <4>1. Queue' = Claimed(in) \o SubSeq(pipe, 1, k)
        BY <2>1, <3>1, <3>2 DEF Queue, Claimed
      <4>2. \E j \in 0 .. Len(Claimed(in) \o pipe) :
              Claimed(in) \o SubSeq(pipe, 1, k) = SubSeq(Claimed(in) \o pipe, 1, j)
        BY <1>1, TornBehind
      <4>3. QED
        BY <1>1, <3>2, <4>1, <4>2
    <3>3. CASE fresh # "stream"
      <4>1. Queue' = SubSeq(pipe, 1, k)
        BY <2>1, <2>2, <3>1, <3>3, ConcatEmptySeq DEF Queue
      <4>2. QED
        BY <1>1, <3>3, <4>1
    <3>4. QED
      BY <3>2, <3>3
  <2>5. Stream!End
    BY <2>1, <2>4 DEF Stream!End, Queue
  <2>6. PostStill
    BY <2>1 DEF PostStill
  <2>7. QED
    BY <2>3, <2>5, <2>6 DEF Stream!Next, Streamed, Posted
<1>6. CASE Throw
  <2>1. /\ trap' \in BOOLEAN /\ air' \in {air, air \cup {letter}}
        /\ UNCHANGED <<out, in, letter, pipe, closed, fresh, delivered, handed>>
    BY <1>2, <1>6 DEF Throw
  <2>2. air \subseteq air' /\ air' \subseteq Messages
    BY <1>2, <2>1 DEF BufferIInv
  <2>3. DatagramsWhole'
    BY <2>1, <2>2 DEF BufferIInv, DatagramsWhole, Claimed
  <2>4. BufferIInv'
    BY <2>1, <2>2, <2>3 DEF BufferIInv
  <2>5. Still
    BY <2>1 DEF Still, Queue, Claimed
  <2>6. Posted
    <3>1. CASE air' = air
      BY <2>1, <3>1 DEF PostStill, Posted
    <3>2. CASE air' = air \cup {letter}
      BY <2>1, <3>2 DEF Post!Post, Post!Next, Posted
    <3>3. QED
      BY <2>1, <3>1, <3>2
  <2>7. QED
    BY <2>4, <2>5, <2>6 DEF Streamed
<1>7. QED
  BY <1>3, <1>4, <1>5, <1>6

\* A step that changes nothing.
LEMMA BufferStutter ==
  ASSUME BufferIInv, UNCHANGED bufferVars
  PROVE  BufferIInv' /\ Still /\ PostStill
BY DEF bufferVars, BufferIInv, DatagramsWhole, Claimed, Still, PostStill, Queue

\* A step of the receiver.
LEMMA ReceiverStep ==
  ASSUME BufferIInv,
         Ask \/ Recieve \/ RecieveFrom \/ \E n \in 0 .. InMax : Translate(n) \/ TranslateRefused(n)
  PROVE  BufferIInv' /\ Streamed /\ Posted
<1>1. /\ Claimed(in) \in Seq(Bytes) /\ Len(Claimed(in)) = in.len /\ in.len \in Nat
      /\ Queue \in Seq(Bytes) /\ pipe \in Seq(Bytes)
      /\ fresh # "stream" => Queue = pipe
      /\ fresh = "stream" => Queue = Claimed(in) \o pipe
  BY QueueFacts
<1>2. ASSUME UNCHANGED bufferVars
      PROVE  BufferIInv' /\ Streamed /\ Posted
  BY <1>2, BufferStutter DEF Streamed, Posted
<1>3. CASE Receive
  <2>1. /\ BufferIInv' /\ fresh = "nothing" /\ fresh' = "stream"
        /\ Claimed(in') \o pipe' = pipe /\ UNCHANGED <<letter, closed, air, delivered, handed>>
    BY <1>3, ReceiveBuffers
  <2>2. Queue' = Queue
    BY <1>1, <2>1 DEF Queue, Claimed
  <2>3. QED
    BY <2>1, <2>2 DEF Still, PostStill, Streamed, Posted
<1>4. CASE fresh = "nothing" /\ in' = [in EXCEPT !.len = 0]
           /\ UNCHANGED <<out, letter, pipe, closed, air, fresh, delivered, handed, trap>>
  <2>1. /\ in' \in [bytes : [1 .. InMax -> Bytes \cup {Zero}], len : 0 .. InMax]
        /\ in'.len = 0
    <3>1. in \in [bytes : [1 .. InMax -> Bytes \cup {Zero}], len : 0 .. InMax]
      BY DEF BufferIInv
    <3>2. 0 \in 0 .. InMax
      BY BoundsAre
    <3>3. in' = [in EXCEPT !.len = 0]
      BY <1>4
    <3>4. QED
      BY <3>1, <3>2, <3>3
  <2>2. BufferIInv'
    <3>1. \A i \in 1 .. in'.len : in'.bytes[i] \in Bytes
      BY <2>1
    <3>2. DatagramsWhole'
      BY <1>4 DEF DatagramsWhole
    <3>3. QED
      BY <1>4, <2>1, <3>1, <3>2 DEF BufferIInv
  <2>3. Still /\ PostStill
    BY <1>4 DEF Still, PostStill, Queue
  <2>4. QED
    BY <2>2, <2>3 DEF Streamed, Posted
<1>5. CASE RecieveFrom
  <2>1. /\ fresh = "nothing" /\ UNCHANGED <<out, letter, pipe, closed, air, delivered, handed, trap>>
    BY <1>5 DEF RecieveFrom
  <2>2. ASSUME NEW m \in air, in' = Arrived(Cut(m)), fresh' = "datagram"
        PROVE  BufferIInv' /\ Streamed /\ Posted
    <3>1. Cut(m) \in Seq(Bytes) /\ Len(Cut(m)) <= InMax
      BY CutFacts DEF BufferIInv
    <3>2. /\ in' \in [bytes : [1 .. InMax -> Bytes \cup {Zero}], len : 0 .. InMax]
          /\ in'.len = Len(Cut(m)) /\ Claimed(in') = Cut(m)
          /\ \A i \in 1 .. in'.len : in'.bytes[i] \in Bytes
      BY <2>2, <3>1, ArrivedFacts
    <3>3. DatagramsWhole'
      BY <2>1, <3>2 DEF DatagramsWhole, Claimed
    <3>4. BufferIInv'
      BY <2>1, <2>2, <3>2, <3>3 DEF BufferIInv
    <3>5. Still /\ PostStill
      BY <2>1, <2>2 DEF Still, PostStill, Queue
    <3>6. QED
      BY <3>4, <3>5 DEF Streamed, Posted
  <2>3. CASE UNCHANGED <<in, fresh>>
    BY <1>2, <2>1, <2>3 DEF bufferVars
  <2>4. QED
    BY <1>5, <2>2, <2>3 DEF RecieveFrom
<1>6. ASSUME NEW n \in 0 .. InMax, Translate(n)
      PROVE  BufferIInv' /\ Streamed /\ Posted
  <2>1. /\ fresh # "nothing" /\ fresh' = "nothing"
        /\ delivered' = IF fresh = "stream" THEN Claimed(in) ELSE <<>>
        /\ handed' = IF fresh = "datagram" THEN Claimed(in) ELSE <<>>
        /\ UNCHANGED <<out, in, letter, pipe, closed, air, trap>>
    BY <1>6 DEF Translate, Translated
  <2>2. {delivered', handed'} \subseteq Seq(Bytes)
    BY <1>1, <2>1, EmptySeq
  <2>3. BufferIInv'
    BY <2>1, <2>2 DEF BufferIInv, DatagramsWhole
  <2>4. Queue' = pipe
    BY <1>1, <2>1, ConcatEmptySeq DEF Queue
  <2>5. CASE fresh = "stream"
    <3>1. SubSeq(Queue, 1, in.len) = Claimed(in) /\ SubSeq(Queue, in.len + 1, Len(Queue)) = pipe
      BY <1>1, <2>5, PrefixOfConcat, SuffixOfConcat
    <3>2. in.len \in 1 .. Len(Queue)
      <4>1. Len(Queue) = in.len + Len(pipe) /\ Len(pipe) \in Nat
        BY <1>1, <2>5, ConcatProperties, LenProperties
      <4>2. in.len > 0
        BY <2>5 DEF BufferIInv
      <4>3. QED
        BY <1>1, <4>1, <4>2
    <3>3. /\ delivered' = SubSeq(Queue, 1, in.len)
          /\ Queue' = SubSeq(Queue, in.len + 1, Len(Queue)) /\ UNCHANGED <<letter, closed>>
      BY <2>1, <2>4, <2>5, <3>1
    <3>4. Stream!Deliver
      BY <3>2, <3>3 DEF Stream!Deliver, Queue
    <3>5. Post!Forget
      BY <2>1, <2>5 DEF Post!Forget
    <3>6. QED
      BY <2>3, <3>4, <3>5 DEF Stream!Next, Post!Next, Streamed, Posted
  <2>6. CASE fresh # "stream"
    <3>1. fresh = "datagram"
      BY <2>1, <2>6 DEF BufferIInv
    <3>2. Stream!Forget
      BY <1>1, <2>1, <2>4, <2>6 DEF Stream!Forget, Queue
    <3>3. PICK m \in air : Claimed(in) = Cut(m)
      BY <3>1 DEF BufferIInv, DatagramsWhole
    <3>4. handed' = Post!Fitting(m)
      BY <2>1, <3>1, <3>3, CutFacts DEF BufferIInv
    <3>5. Post!Receive
      BY <2>1, <3>4 DEF Post!Receive
    <3>6. QED
      BY <2>3, <3>2, <3>5 DEF Stream!Next, Post!Next, Streamed, Posted
  <2>7. QED
    BY <2>5, <2>6
<1>7. ASSUME NEW n \in 0 .. InMax, TranslateRefused(n)
      PROVE  BufferIInv' /\ Streamed /\ Posted
  BY <1>2, <1>7 DEF TranslateRefused
<1>8. QED
  BY <1>2, <1>3, <1>4, <1>5, <1>6, <1>7 DEF Ask, Recieve

\* Every step.
LEMMA BufferStep ==
  BufferIInv /\ [BufferNext]_bufferVars => BufferIInv' /\ Streamed /\ Posted
<1>1. ASSUME BufferIInv, BufferNext
      PROVE  BufferIInv' /\ Streamed /\ Posted
  BY <1>1, SenderStep, ReceiverStep DEF BufferNext
<1>2. ASSUME BufferIInv, UNCHANGED bufferVars
      PROVE  BufferIInv' /\ Streamed /\ Posted
  BY <1>2, BufferStutter DEF Streamed, Posted
<1>3. QED
  BY <1>1, <1>2

\* The inductive invariant holds in every state of two buffers.
LEMMA BufferInvariance ==
  BufferSpec => []BufferIInv
BY InitBuffers, BufferStep, PTL DEF BufferSpec

\* No buffer claims more than it has, and every byte that was recorded, sent,
\* received or translated is one that the program recorded.
THEOREM BuffersKeepTheirBounds ==
  BufferSpec => []BufferTypeOK
<1>1. BufferIInv => BufferTypeOK
  <2>1. ASSUME BufferIInv PROVE BufferTypeOK
    <3>1. /\ Recorded(letter) \in [bytes : [1 .. OutMax -> Bytes \cup {Zero}], len : 0 .. OutMax]
          /\ letter \in Messages
      BY <2>1, RecordedFacts DEF BufferIInv
    <3>2. QED
      BY <2>1, <3>1 DEF BufferIInv, BufferTypeOK
  <2>2. QED
    BY <2>1
<1>2. QED
  BY <1>1, BufferInvariance, PTL

\* What is received as a datagram and translated is one of those thrown, whole
\* or cut at the end of the buffer, for every two buffers and however many
\* datagrams of whatever lengths are under way, in whatever order they arrive.
THEOREM PostImplemented ==
  BufferSpec => ImplementsPost
<1>1. BufferInit => Post!Init
  BY DEF BufferInit, Post!Init
<1>2. BufferIInv /\ [BufferNext]_bufferVars => [Post!Next]_<<letter, air, handed>>
  BY BufferStep DEF Posted, PostStill
<1>3. QED
  BY <1>1, <1>2, BufferInvariance, PTL DEF BufferSpec, ImplementsPost, Post!Spec

\* What is recorded and sent is handed over as a byte stream.
THEOREM StreamImplemented ==
  BufferSpec => ImplementsStream
<1>1. BufferInit => Stream!Init
  <2>1. ASSUME BufferInit PROVE Stream!Init
    BY <2>1, EmptySeq, ConcatEmptySeq DEF BufferInit, Stream!Init
  <2>2. QED
    BY <2>1
<1>2. BufferIInv /\ [BufferNext]_bufferVars => [Stream!Next]_<<letter, Queue, delivered, closed>>
  BY BufferStep DEF Streamed, Still
<1>3. QED
  BY <1>1, <1>2, BufferInvariance, PTL DEF BufferSpec, ImplementsStream, Stream!Spec, Queue
=============================================================================
