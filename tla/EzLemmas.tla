------------------------------ MODULE EzLemmas ------------------------------
(***************************************************************************)
(* Facts about finite sets, sequences, sums and remainders that the proofs *)
(* of several components cite.                                             *)
(***************************************************************************)
EXTENDS Integers, Functions, SequenceTheorems, FiniteSetTheorems, TLAPS

\* A nonempty set of naturals has a least element.
LEMMA LeastNatural ==
  ASSUME NEW D \in SUBSET Nat, D # {}
  PROVE  \E d \in D : \A c \in D : d <= c
<1> DEFINE F == {0 .. d : d \in D}
<1>1. F \subseteq FiniteSubsetsOf(Nat)
  <2>1. ASSUME NEW d \in Nat
        PROVE  IsFiniteSet(0 .. d) /\ 0 .. d \in SUBSET Nat
    BY FS_Interval
  <2>2. QED
    BY <2>1 DEF FiniteSubsetsOf
<1>2. F # {}
  OBVIOUS
<1>3. IsWellFoundedOn(StrictSubsetOrdering(Nat), FiniteSubsetsOf(Nat))
  BY FS_StrictSubsetOrderingWellFounded
<1>4. PICK X \in F : \A Y \in F : <<Y, X>> \notin StrictSubsetOrdering(Nat)
  <2> HIDE DEF F
  <2> QED
    BY <1>1, <1>2, <1>3, WFMin
<1>5. PICK d \in D : X = 0 .. d
  BY <1>4
<1>6. ASSUME NEW c \in D, c < d
      PROVE  FALSE
  <2>1. 0 .. c \subseteq 0 .. d /\ d \in 0 .. d /\ d \notin 0 .. c
    BY <1>6
  <2>2. <<0 .. c, 0 .. d>> \in StrictSubsetOrdering(Nat)
    BY <2>1 DEF StrictSubsetOrdering
  <2>3. QED
    BY <1>4, <1>5, <2>2
<1>7. QED
  BY <1>6

\* A part of a sequence, element by element.
LEMMA Part ==
  ASSUME NEW S, NEW s \in Seq(S), NEW m \in 0 .. Len(s), NEW n \in 0 .. Len(s)
  PROVE  /\ SubSeq(s, m + 1, n) \in Seq(S)
         /\ Len(SubSeq(s, m + 1, n)) = IF m < n THEN n - m ELSE 0
         /\ \A j \in 1 .. n - m : SubSeq(s, m + 1, n)[j] = s[m + j]
<1>1. Len(s) \in Nat /\ \A j \in 1 .. Len(s) : s[j] \in S
  BY LenProperties
<1>2. QED
  BY <1>1, SubSeqProperties

\* t is s with e inserted behind position i, element by element.
InsertedAt(t, s, i, e) ==
  /\ Len(t) = Len(s) + 1
  /\ \A j \in 1 .. Len(s) + 1 :
       t[j] = IF j <= i THEN s[j] ELSE IF j = i + 1 THEN e ELSE s[j - 1]

\* What is put together from a part, an element and the rest is that.
LEMMA InsertedElements ==
  ASSUME NEW S, NEW s \in Seq(S), NEW e \in S, NEW i \in 0 .. Len(s)
  PROVE  /\ SubSeq(s, 1, i) \o <<e>> \o SubSeq(s, i + 1, Len(s)) \in Seq(S)
         /\ InsertedAt(SubSeq(s, 1, i) \o <<e>> \o SubSeq(s, i + 1, Len(s)), s, i, e)
<1> DEFINE a == SubSeq(s, 1, i)
           b == <<e>>
           c == SubSeq(s, i + 1, Len(s))
<1>1. Len(s) \in Nat
  BY LenProperties
<1>2. a \in Seq(S) /\ Len(a) = i /\ \A j \in 1 .. i : a[j] = s[j]
  BY <1>1, Part, 0 + 1 = 1
<1>3. b \in Seq(S) /\ Len(b) = 1 /\ b[1] = e
  OBVIOUS
<1>4. c \in Seq(S) /\ Len(c) = Len(s) - i /\ \A j \in 1 .. Len(s) - i : c[j] = s[i + j]
  BY <1>1, Part
<1> HIDE DEF a, b, c
<1>5. /\ a \o b \in Seq(S) /\ Len(a \o b) = i + 1
      /\ \A j \in 1 .. i + 1 : (a \o b)[j] = IF j <= i THEN s[j] ELSE e
  <2>1. /\ a \o b \in Seq(S) /\ Len(a \o b) = Len(a) + Len(b)
        /\ \A j \in 1 .. Len(a) + Len(b) :
             (a \o b)[j] = IF j <= Len(a) THEN a[j] ELSE b[j - Len(a)]
    BY <1>2, <1>3, ConcatProperties
  <2> HIDE DEF a, b
  <2>2. \A j \in 1 .. i : (a \o b)[j] = s[j]
    BY <1>1, <1>2, <1>3, <2>1
  <2>3. (a \o b)[i + 1] = e
    BY <1>1, <1>2, <1>3, <2>1
  <2>4. QED
    BY <1>1, <1>2, <1>3, <2>1, <2>2, <2>3
<1>6. /\ a \o b \o c \in Seq(S) /\ Len(a \o b \o c) = Len(s) + 1
      /\ \A j \in 1 .. Len(s) + 1 :
           (a \o b \o c)[j] = IF j <= i + 1 THEN (a \o b)[j] ELSE c[j - (i + 1)]
  <2> DEFINE d == a \o b
  <2>1. d \in Seq(S) /\ Len(d) = i + 1
    BY <1>5
  <2> HIDE DEF d
  <2>2. /\ d \o c \in Seq(S) /\ Len(d \o c) = Len(d) + Len(c)
        /\ \A j \in 1 .. Len(d) + Len(c) :
             (d \o c)[j] = IF j <= Len(d) THEN d[j] ELSE c[j - Len(d)]
    BY <1>4, <2>1, ConcatProperties
  <2>3. Len(d) + Len(c) = Len(s) + 1
    BY <1>1, <1>4, <2>1
  <2>4. QED
    BY <2>1, <2>2, <2>3 DEF d
<1> DEFINE ab == a \o b
           u == ab \o c
<1> HIDE DEF ab, u
<1>7. ASSUME NEW j \in 1 .. Len(s) + 1
      PROVE  u[j] = IF j <= i THEN s[j] ELSE IF j = i + 1 THEN e ELSE s[j - 1]
  <2>1. j \in Nat /\ i \in Nat /\ 1 <= j /\ j <= Len(s) + 1
    BY <1>1
  <2>2. CASE j <= i + 1
    <3>1. u[j] = ab[j]
      BY <1>6, <2>1, <2>2 DEF ab, u
    <3>2. ab[j] = IF j <= i THEN s[j] ELSE e
      BY <1>5, <2>1, <2>2 DEF ab
    <3>3. QED
      BY <2>1, <2>2, <3>1, <3>2
  <2>3. CASE j > i + 1
    <3>1. u[j] = c[j - (i + 1)] /\ j - (i + 1) \in 1 .. Len(s) - i
      BY <1>1, <1>6, <2>1, <2>3 DEF ab, u
    <3>2. c[j - (i + 1)] = s[i + (j - (i + 1))] /\ i + (j - (i + 1)) = j - 1
      BY <1>1, <1>4, <2>1, <3>1
    <3>3. QED
      BY <2>1, <2>3, <3>1, <3>2
  <2>4. QED
    BY <2>1, <2>2, <2>3
<1>8. u \in Seq(S) /\ Len(u) = Len(s) + 1
  BY <1>6 DEF ab, u
<1>9. u \in Seq(S) /\ InsertedAt(u, s, i, e)
  BY <1>7, <1>8 DEF InsertedAt
<1>10. QED
  BY <1>9, Zenon DEF a, b, c, ab, u

\* A sequence that has e at position i + 1, and around it the elements of s in
\* order, is s with e inserted.
LEMMA InsertSeq ==
  ASSUME NEW S, NEW s \in Seq(S), NEW t \in Seq(S), NEW e \in S,
         NEW i \in 0 .. Len(s),
         Len(t) = Len(s) + 1,
         \A j \in 1 .. Len(t) :
           t[j] = IF j <= i THEN s[j] ELSE IF j = i + 1 THEN e ELSE s[j - 1]
  PROVE  t = SubSeq(s, 1, i) \o <<e>> \o SubSeq(s, i + 1, Len(s))
<1> DEFINE u == SubSeq(s, 1, i) \o <<e>> \o SubSeq(s, i + 1, Len(s))
<1>1. u \in Seq(S) /\ InsertedAt(u, s, i, e)
  BY InsertedElements, Zenon
<1> HIDE DEF u
<1>2. t = u
  BY <1>1, SeqEqual DEF InsertedAt
<1>3. QED
  BY <1>2 DEF u

\* An element more in a sequence is one more in its range.
LEMMA OneMore ==
  ASSUME NEW S, NEW s \in Seq(S), NEW t \in Seq(S), NEW e, NEW k \in 1 .. Len(s) + 1,
         IsInjective(s), e \notin Range(s), Len(t) = Len(s) + 1,
         \A j \in 1 .. Len(s) + 1 :
           t[j] = IF j < k THEN s[j] ELSE IF j = k THEN e ELSE s[j - 1]
  PROVE  Range(t) = Range(s) \cup {e} /\ IsInjective(t)
<1>1. /\ Len(s) \in Nat /\ DOMAIN s = 1 .. Len(s) /\ DOMAIN t = 1 .. Len(s) + 1
      /\ k \in Nat /\ 1 <= k /\ k <= Len(s) + 1
  BY LenProperties
<1> DEFINE from(n) == IF n < k THEN n ELSE n - 1
<1>2. t[k] = e
  BY <1>1
<1>3. ASSUME NEW j \in 1 .. Len(s) + 1, j # k
      PROVE  t[j] = s[from(j)] /\ from(j) \in 1 .. Len(s)
  BY <1>1, <1>3
<1>4. ASSUME NEW j \in 1 .. Len(s)
      PROVE  \E n \in 1 .. Len(s) + 1 : n # k /\ from(n) = j
  <2>1. CASE j < k
    BY <1>1, <2>1
  <2>2. CASE j >= k
    <3>1. j + 1 \in 1 .. Len(s) + 1 /\ j + 1 # k /\ ~(j + 1 < k) /\ j + 1 - 1 = j
      BY <1>1, <2>2
    <3>2. from(j + 1) = j
      BY <3>1
    <3>3. QED
      BY <3>1, <3>2
  <2>3. QED
    BY <1>1, <2>1, <2>2
<1>5. ASSUME NEW i \in 1 .. Len(s) + 1, NEW j \in 1 .. Len(s) + 1,
             i # k, j # k, from(i) = from(j)
      PROVE  i = j
  BY <1>1, <1>5
<1> HIDE DEF from
<1>6. \A j \in 1 .. Len(s) + 1 : j # k => t[j] \in Range(s) /\ t[j] # e
  BY <1>1, <1>3 DEF Range
<1>7. Range(t) = Range(s) \cup {e}
  <2>1. ASSUME NEW x \in Range(t) PROVE x \in Range(s) \cup {e}
    BY <1>1, <1>2, <1>6 DEF Range
  <2>2. e \in Range(t)
    BY <1>1, <1>2 DEF Range
  <2>3. ASSUME NEW x \in Range(s) PROVE x \in Range(t)
    <3>1. PICK j \in 1 .. Len(s) : x = s[j]
      BY <1>1 DEF Range
    <3>2. PICK n \in 1 .. Len(s) + 1 : n # k /\ from(n) = j
      BY <1>4
    <3>3. t[n] = x
      BY <1>3, <3>1, <3>2
    <3>4. QED
      BY <1>1, <3>3 DEF Range
  <2>4. QED
    BY <2>1, <2>2, <2>3
<1>8. ASSUME NEW i \in 1 .. Len(s) + 1, NEW j \in 1 .. Len(s) + 1, t[i] = t[j]
      PROVE  i = j
  <2>1. CASE i = k \/ j = k
    BY <1>2, <1>6, <1>8, <2>1
  <2>2. CASE i # k /\ j # k
    <3>1. from(i) = from(j)
      BY <1>1, <1>3, <1>8, <2>2 DEF IsInjective
    <3>2. QED
      BY <1>5, <2>2, <3>1
  <2>3. QED
    BY <2>1, <2>2
<1>9. IsInjective(t)
  BY <1>1, <1>8 DEF IsInjective
<1>10. QED
  BY <1>7, <1>9


\* A sequence of the elements of s in order, without n of them from i + 1 on,
\* is s with them removed.
LEMMA RemoveSeq ==
  ASSUME NEW S, NEW s \in Seq(S), NEW t \in Seq(S),
         NEW i \in 0 .. Len(s), NEW n \in 0 .. Len(s), i + n <= Len(s),
         Len(t) = Len(s) - n,
         \A j \in 1 .. Len(t) : t[j] = IF j <= i THEN s[j] ELSE s[j + n]
  PROVE  t = SubSeq(s, 1, i) \o SubSeq(s, i + n + 1, Len(s))
<1> DEFINE a == SubSeq(s, 1, i)
           c == SubSeq(s, i + n + 1, Len(s))
<1>1. Len(s) \in Nat
  BY LenProperties
<1>2. a \in Seq(S) /\ Len(a) = i /\ \A j \in 1 .. i : a[j] = s[j]
  BY <1>1, Part, 0 + 1 = 1
<1>3. /\ c \in Seq(S) /\ Len(c) = Len(s) - i - n
      /\ \A j \in 1 .. Len(s) - i - n : c[j] = s[i + n + j]
  <2>1. i + n \in 0 .. Len(s)
    BY <1>1
  <2>2. QED
    BY <1>1, <2>1, Part
<1> HIDE DEF a, c
<1>4. /\ a \o c \in Seq(S) /\ Len(a \o c) = Len(t)
      /\ \A j \in 1 .. Len(t) : (a \o c)[j] = IF j <= i THEN a[j] ELSE c[j - i]
  BY <1>1, <1>2, <1>3, ConcatProperties
<1>5. ASSUME NEW j \in 1 .. Len(t) PROVE t[j] = (a \o c)[j]
  BY <1>1, <1>2, <1>3, <1>4, <1>5, SMTT(30)
<1>6. t = a \o c
  BY <1>4, <1>5, SeqEqual
<1>7. QED
  BY <1>6 DEF a, c

\* A sequence and its range.
LEMMA ElementFacts ==
  ASSUME NEW S, NEW s \in Seq(S)
  PROVE  /\ Range(s) \subseteq S
         /\ s = <<>> <=> Range(s) = {}
         /\ s # <<>> => Head(s) \in Range(s)
<1>1. Len(s) \in Nat /\ DOMAIN s = 1 .. Len(s) /\ \A i \in 1 .. Len(s) : s[i] \in S
  BY LenProperties
<1>2. Range(s) \subseteq S
  BY <1>1 DEF Range
<1>3. s # <<>> => Len(s) > 0 /\ Head(s) = s[1]
  BY EmptySeq
<1>4. s # <<>> => Head(s) \in Range(s)
  BY <1>1, <1>3 DEF Range
<1>5. s = <<>> => Range(s) = {}
  BY DEF Range
<1>6. QED
  BY <1>2, <1>4, <1>5

\* Append adds to the end.
LEMMA AppendFacts ==
  ASSUME NEW S, NEW s \in Seq(S), NEW e \in S, IsInjective(s), e \notin Range(s)
  PROVE  /\ Range(Append(s, e)) = Range(s) \cup {e}
         /\ IsInjective(Append(s, e))
<1> DEFINE t == Append(s, e)
           k == Len(s) + 1
<1>1. /\ \A j \in 1 .. Len(s) : t[j] = s[j]
      /\ t[k] = e
  BY AppendProperties
<1>2. t \in Seq(S) /\ Len(t) = Len(s) + 1
  BY AppendProperties
<1>3. Len(s) \in Nat /\ k \in 1 .. Len(s) + 1
  BY LenProperties
<1> HIDE DEF t
<1>4. \A j \in 1 .. Len(s) + 1 :
        t[j] = IF j < k THEN s[j] ELSE IF j = k THEN e ELSE s[j - 1]
  BY <1>1, <1>3
<1> HIDE DEF k
<1>5. Range(t) = Range(s) \cup {e} /\ IsInjective(t)
  BY <1>2, <1>3, <1>4, OneMore
<1>6. QED
  BY <1>5 DEF t

\* Tail takes the first element away.
LEMMA TailFacts ==
  ASSUME NEW S, NEW s \in Seq(S), s # <<>>, IsInjective(s)
  PROVE  /\ Range(Tail(s)) = Range(s) \ {Head(s)}
         /\ IsInjective(Tail(s))
<1>1. /\ Tail(s) \in Seq(S) /\ Len(Tail(s)) = Len(s) - 1
      /\ \A i \in 1 .. Len(s) - 1 : Tail(s)[i] = s[i + 1]
  BY HeadTailProperties
<1>2. /\ Len(s) \in Nat /\ Len(s) >= 1 /\ Head(s) = s[1] /\ 1 \in 1 .. Len(s)
  BY EmptySeq
<1>3. DOMAIN s = 1 .. Len(s) /\ DOMAIN Tail(s) = 1 .. Len(s) - 1
  BY <1>1, LenProperties
<1> DEFINE t == Tail(s)
<1> HIDE DEF t
<1>4. \A i \in 1 .. Len(s) - 1 : t[i] = s[i + 1] /\ i + 1 \in 1 .. Len(s) /\ i + 1 # 1
  BY <1>1, <1>2 DEF t
<1>5. \A i \in 1 .. Len(s) : i # 1 => i - 1 \in 1 .. Len(s) - 1 /\ i - 1 + 1 = i
  BY <1>2
<1>6. Range(t) = Range(s) \ {Head(s)}
  <2>1. ASSUME NEW x \in Range(t) PROVE x \in Range(s) \ {Head(s)}
    BY <1>2, <1>3, <1>4 DEF Range, IsInjective, t
  <2>2. ASSUME NEW x \in Range(s) \ {Head(s)} PROVE x \in Range(t)
    <3>1. PICK i \in 1 .. Len(s) : x = s[i] /\ i # 1
      BY <1>2, <1>3 DEF Range
    <3>2. t[i - 1] = x /\ i - 1 \in 1 .. Len(s) - 1
      BY <1>4, <1>5, <3>1
    <3>3. QED
      BY <1>3, <3>2 DEF Range, t
  <2>3. QED
    BY <2>1, <2>2
<1>7. ASSUME NEW i \in 1 .. Len(s) - 1, NEW j \in 1 .. Len(s) - 1, t[i] = t[j]
      PROVE  i = j
  <2>1. i + 1 = j + 1
    BY <1>3, <1>4, <1>7 DEF IsInjective
  <2>2. QED
    BY <1>2, <2>1
<1>8. IsInjective(t)
  BY <1>3, <1>7 DEF IsInjective, t
<1>9. QED
  BY <1>6, <1>8 DEF t

\* Two sequences behind each other.
LEMMA ConcatFacts ==
  ASSUME NEW S, NEW s \in Seq(S), NEW t \in Seq(S),
         IsInjective(s), IsInjective(t), Range(s) \cap Range(t) = {}
  PROVE  /\ s \o t \in Seq(S)
         /\ Range(s \o t) = Range(s) \cup Range(t)
         /\ IsInjective(s \o t)
<1> DEFINE u == s \o t
           m == Len(s)
           n == Len(t)
<1>1. /\ u \in Seq(S) /\ Len(u) = m + n
      /\ \A i \in 1 .. m + n : u[i] = IF i <= m THEN s[i] ELSE t[i - m]
  BY ConcatProperties
<1>2. /\ m \in Nat /\ n \in Nat /\ DOMAIN s = 1 .. m /\ DOMAIN t = 1 .. n
  BY LenProperties
<1> HIDE DEF u
<1>3. DOMAIN u = 1 .. m + n
  BY <1>1, LenProperties
<1> HIDE DEF m, n
<1>4. \A i \in 1 .. m : i \in 1 .. m + n /\ u[i] = s[i]
  BY <1>1, <1>2
<1>5. \A i \in 1 .. n : m + i \in 1 .. m + n /\ u[m + i] = t[i]
  <2>1. ASSUME NEW i \in 1 .. n PROVE m + i \in 1 .. m + n /\ u[m + i] = t[i]
    <3>1. m + i \in 1 .. m + n /\ ~(m + i <= m) /\ (m + i) - m = i
      BY <1>2
    <3>2. \A k \in 1 .. m + n : ~(k <= m) => u[k] = t[k - m]
      BY <1>1
    <3>3. u[m + i] = t[(m + i) - m]
      BY <3>1, <3>2, Zenon
    <3>4. QED
      BY <3>1, <3>3
  <2>2. QED
    BY <2>1
<1>6. \A i \in 1 .. m + n : i \in 1 .. m \/ \E j \in 1 .. n : i = m + j
  <2>1. ASSUME NEW i \in 1 .. m + n, i \notin 1 .. m PROVE \E j \in 1 .. n : i = m + j
    <3>1. i - m \in 1 .. n /\ i = m + (i - m)
      BY <1>2, <2>1
    <3>2. QED
      BY <3>1
  <2>2. QED
    BY <2>1
<1>7. Range(u) = Range(s) \cup Range(t)
  BY RangeConcatenation DEF u
<1>8. \A i \in 1 .. m, j \in 1 .. n : s[i] # t[j]
  BY <1>2 DEF Range
<1>9. ASSUME NEW i \in 1 .. m + n, NEW j \in 1 .. m + n, u[i] = u[j]
      PROVE  i = j
  <2>1. CASE i \in 1 .. m /\ j \in 1 .. m
    BY <1>2, <1>4, <1>9, <2>1 DEF IsInjective
  <2>2. ASSUME NEW k \in 1 .. n, i = m + k, NEW l \in 1 .. n, j = m + l
        PROVE  i = j
    BY <1>2, <1>5, <1>9, <2>2 DEF IsInjective
  <2>3. QED
    BY <1>4, <1>5, <1>6, <1>8, <1>9, <2>1, <2>2
<1>10. IsInjective(u)
  BY <1>3, <1>9 DEF IsInjective
<1>11. QED
  BY <1>1, <1>7, <1>10 DEF u

\* What is left of a sequence from position n on.
LEMMA SuffixFacts ==
  ASSUME NEW S, NEW s \in Seq(S), IsInjective(s), NEW n \in 1 .. Len(s) + 1
  PROVE  /\ SubSeq(s, n, Len(s)) \in Seq(S)
         /\ Range(SubSeq(s, n, Len(s))) = {s[i] : i \in n .. Len(s)}
         /\ IsInjective(SubSeq(s, n, Len(s)))
<1>1. /\ Len(s) \in Nat /\ DOMAIN s = 1 .. Len(s)
      /\ \A i \in 1 .. Len(s) : s[i] \in S
  BY LenProperties
<1> DEFINE t == SubSeq(s, n, Len(s))
           k == Len(s) - n + 1
<1>2. t \in Seq(S) /\ Len(t) = k /\ \A i \in 1 .. k : t[i] = s[n + i - 1]
  <2>1. \A i \in n .. Len(s) : s[i] \in S
    BY <1>1
  <2>2. /\ t \in Seq(S) /\ Len(t) = IF n <= Len(s) THEN k ELSE 0
        /\ \A i \in 1 .. k : t[i] = s[n + i - 1]
    BY <1>1, <2>1, SubSeqProperties
  <2>3. (IF n <= Len(s) THEN k ELSE 0) = k
    <3>1. Len(s) \in Nat
      BY <1>1
    <3>2. QED
      BY <3>1
  <2>4. QED
    BY <2>2, <2>3, Zenon
<1> HIDE DEF t
<1>3. DOMAIN t = 1 .. k
  BY <1>2, LenProperties
<1>4. \A i \in 1 .. k : n + i - 1 \in n .. Len(s) /\ n + i - 1 \in 1 .. Len(s)
  BY <1>1
<1>5. \A i \in n .. Len(s) : i - n + 1 \in 1 .. k /\ n + (i - n + 1) - 1 = i
  BY <1>1
<1>6. \A i, j \in 1 .. k : n + i - 1 = n + j - 1 => i = j
  BY <1>1
<1> HIDE DEF k
<1>7. Range(t) = {s[i] : i \in n .. Len(s)}
  <2>1. ASSUME NEW x \in Range(t) PROVE \E i \in n .. Len(s) : x = s[i]
    <3>1. PICK i \in 1 .. k : x = t[i]
      BY <1>3 DEF Range
    <3>2. x = s[n + i - 1]
      BY <1>2, <3>1
    <3>3. QED
      BY <1>4, <3>2
  <2>2. ASSUME NEW i \in n .. Len(s) PROVE s[i] \in Range(t)
    <3>1. i - n + 1 \in 1 .. k /\ s[i] = s[n + (i - n + 1) - 1]
      BY <1>5
    <3>2. t[i - n + 1] = s[i]
      BY <1>2, <3>1, Zenon
    <3>3. QED
      BY <1>3, <3>1, <3>2 DEF Range
  <2>3. QED
    BY <2>1, <2>2
<1>8. IsInjective(t)
  <2>1. ASSUME NEW i \in 1 .. k, NEW j \in 1 .. k, t[i] = t[j] PROVE i = j
    <3>1. s[n + i - 1] = s[n + j - 1]
      BY <1>2, <2>1
    <3>2. n + i - 1 = n + j - 1
      BY <1>1, <1>4, <3>1, Zenon DEF IsInjective
    <3>3. QED
      BY <1>6, <3>2
  <2>2. QED
    BY <1>3, <2>1 DEF IsInjective
<1>9. QED
  BY <1>2, <1>7, <1>8 DEF t

\* The first of two sequences put together is its beginning.
LEMMA PrefixOfConcat ==
  ASSUME NEW S, NEW s \in Seq(S), NEW t \in Seq(S)
  PROVE  SubSeq(s \o t, 1, Len(s)) = s
<1>1. Len(s) \in Nat
  BY LenProperties
<1>2. CASE Len(s) = 0
  BY <1>2, SubSeqEmpty, EmptySeq
<1>3. CASE Len(s) # 0
  <2>1. 1 \in 1 .. Len(s) /\ Len(s) \in 1 .. Len(s)
    BY <1>1, <1>3
  <2>2. SubSeq(s \o t, 1, Len(s)) = SubSeq(s, 1, Len(s))
    BY <2>1, SubSeqOfConcat1
  <2>3. QED
    BY <2>2, SubSeqFull
<1>4. QED
  BY <1>2, <1>3

\* The second of two sequences put together is its end.
LEMMA SuffixOfConcat ==
  ASSUME NEW S, NEW s \in Seq(S), NEW t \in Seq(S)
  PROVE  SubSeq(s \o t, Len(s) + 1, Len(s \o t)) = t
<1>1. Len(s) \in Nat /\ Len(t) \in Nat /\ Len(s \o t) = Len(s) + Len(t)
  BY LenProperties, ConcatProperties
<1>2. CASE Len(t) = 0
  <2>1. t = <<>> /\ Len(s \o t) < Len(s) + 1
    BY <1>1, <1>2, EmptySeq
  <2>2. QED
    BY <1>1, <2>1, SubSeqEmpty
<1>3. CASE Len(t) # 0
  <2>1. Len(s) + 1 \in Len(s) + 1 .. Len(s) + Len(t) /\ Len(s) + Len(t) \in Len(s) + 1 .. Len(s) + Len(t)
    BY <1>1, <1>3
  <2>2. SubSeq(s \o t, Len(s) + 1, Len(s) + Len(t)) = SubSeq(t, Len(s) + 1 - Len(s), Len(s) + Len(t) - Len(s))
    BY <2>1, SubSeqOfConcat2
  <2>3. Len(s) + 1 - Len(s) = 1 /\ Len(s) + Len(t) - Len(s) = Len(t)
    BY <1>1
  <2>4. QED
    BY <1>1, <2>2, <2>3, SubSeqFull
<1>4. QED
  BY <1>1, <1>2, <1>3

-----------------------------------------------------------------------------

\* What holds of a finite set when it holds of all smaller ones, holds of every
\* one.
LEMMA SmallerFirst ==
  ASSUME NEW S, IsFiniteSet(S), NEW P,
         ASSUME NEW T \in SUBSET S, \A U \in SUBSET T : U # T => U \in P
         PROVE  T \in P
  PROVE  \A T \in SUBSET S : T \in P
<1> DEFINE D == {T \in SUBSET S : T \notin P}
<1>1. SUFFICES ASSUME D # {} PROVE FALSE
  OBVIOUS
<1>2. D \subseteq FiniteSubsetsOf(S)
  <2>1. \A T \in SUBSET S : IsFiniteSet(T)
    BY FS_Subset
  <2>2. QED
    BY <2>1 DEF FiniteSubsetsOf
<1>3. IsWellFoundedOn(StrictSubsetOrdering(S), FiniteSubsetsOf(S))
  BY FS_StrictSubsetOrderingWellFounded
<1>4. PICK X \in D : \A Y \in D : <<Y, X>> \notin StrictSubsetOrdering(S)
  <2> HIDE DEF D
  <2> QED
    BY <1>1, <1>2, <1>3, WFMin
<1>5. ASSUME NEW U \in SUBSET X, U # X
      PROVE  U \in P
  <2>1. <<U, X>> \in StrictSubsetOrdering(S)
    BY <1>5 DEF StrictSubsetOrdering
  <2>2. QED
    BY <1>4, <2>1
<1>6. X \in P
  BY <1>5
<1>7. QED
  BY <1>6

\* g adds up f over the subsets of S.
Adds(g, f, S) ==
  g = [s \in SUBSET S |-> IF s = {} THEN 0
                          ELSE f[CHOOSE x \in s : TRUE] + g[s \ {CHOOSE x \in s : TRUE}]]

\* The sum over a set depends on nothing but the values there.
LEMMA AddsAgree ==
  ASSUME NEW S, NEW T, NEW f, NEW e, NEW g, NEW h, Adds(g, f, S), Adds(h, e, T),
         NEW U \in SUBSET (S \cap T), IsFiniteSet(U), \A x \in U : f[x] = e[x]
  PROVE  g[U] = h[U]
<1> DEFINE P == {V \in SUBSET U : g[V] = h[V]}
<1>1. ASSUME NEW V \in SUBSET U, \A W \in SUBSET V : W # V => W \in P
      PROVE  V \in P
  <2>1. V \in SUBSET S /\ V \in SUBSET T
    OBVIOUS
  <2>2. CASE V = {}
    BY <2>1, <2>2 DEF Adds
  <2>3. CASE V # {}
    <3> DEFINE c == CHOOSE x \in V : TRUE
    <3>1. c \in V
      BY <2>3
    <3>2. V \ {c} \in P
      BY <1>1, <3>1
    <3>3. f[c] = e[c]
      BY <3>1
    <3>4. g[V] = f[c] + g[V \ {c}]
      BY <2>1, <2>3 DEF Adds
    <3>5. h[V] = e[c] + h[V \ {c}]
      BY <2>1, <2>3 DEF Adds
    <3>6. QED
      BY <3>2, <3>3, <3>4, <3>5
  <2>4. QED
    BY <2>2, <2>3
<1> HIDE DEF P
<1>2. U \in P
  BY <1>1, SmallerFirst
<1>3. QED
  BY <1>2 DEF P

\* There is such a g, and the sum of the library's folds is what it says.
LEMMA AddsExists ==
  ASSUME NEW S, IsFiniteSet(S), NEW f
  PROVE  \E g : Adds(g, f, S)
<1> DEFINE P == {T \in SUBSET S : \E g : Adds(g, f, T)}
           Value(T) == (CHOOSE g : Adds(g, f, T))[T]
           Choice(T) == CHOOSE x \in T : TRUE
<1>1. ASSUME NEW T \in SUBSET S, \A U \in SUBSET T : U # T => U \in P
      PROVE  T \in P
  <2> DEFINE g == [s \in SUBSET T |-> IF s = {} THEN 0
                                      ELSE f[Choice(s)] + Value(s \ {Choice(s)})]
  <2>1. ASSUME NEW s \in SUBSET T, s # {}
        PROVE  g[s \ {Choice(s)}] = Value(s \ {Choice(s)})
    <3> DEFINE u == s \ {Choice(s)}
               h == CHOOSE k : Adds(k, f, u)
    <3>1. Choice(s) \in s /\ u \in SUBSET T /\ u # T
      BY <2>1
    <3>2. u \in P
      BY <1>1, <3>1
    <3>3. Adds(h, f, u)
      BY <3>2
    <3>4. CASE u = {}
      <4>1. h[u] = 0
        BY <3>3, <3>4 DEF Adds
      <4>2. g[u] = 0
        BY <3>1, <3>4
      <4>3. QED
        BY <4>1, <4>2
    <3>5. CASE u # {}
      <4> DEFINE c == Choice(u)
                 v == u \ {c}
                 k == CHOOSE w : Adds(w, f, v)
      <4>1. c \in u /\ v \in SUBSET T /\ v # T
        BY <3>1, <3>5
      <4>2. v \in P
        BY <1>1, <4>1
      <4>3. Adds(k, f, v)
        BY <4>2
      <4>4. h[u] = f[c] + h[v]
        BY <3>3, <3>5 DEF Adds
      <4>5. g[u] = f[c] + Value(v)
        BY <3>1, <3>5
      <4>6. v \in SUBSET (u \cap v) /\ IsFiniteSet(v)
        BY <4>1, FS_Subset
      <4> HIDE DEF h, k, u, v, c
      <4>7. h[v] = k[v]
        BY <3>3, <4>3, <4>6, AddsAgree
      <4>8. Value(v) = k[v] /\ Value(u) = h[u]
        BY DEF h, k
      <4>9. QED
        BY <4>4, <4>5, <4>7, <4>8 DEF u
    <3>6. QED
      BY <3>4, <3>5
  <2>2. Adds(g, f, T)
    <3>1. g = [s \in SUBSET T |-> IF s = {} THEN 0
                                  ELSE f[Choice(s)] + g[s \ {Choice(s)}]]
      <4>1. \A s \in SUBSET T : s # {} => g[s \ {Choice(s)}] = Value(s \ {Choice(s)})
        BY <2>1
      <4> HIDE DEF Value, Choice
      <4>2. \A s \in SUBSET T : g[s] = IF s = {} THEN 0 ELSE f[Choice(s)] + g[s \ {Choice(s)}]
        BY <4>1
      <4>3. QED
        BY <4>2
    <3>2. QED
      BY <3>1, Zenon DEF Adds
  <2>3. QED
    BY <2>2
<1> HIDE DEF P
<1>2. S \in P
  BY <1>1, SmallerFirst
<1>3. QED
  BY <1>2 DEF P

\* The sum of the library's folds adds up.
LEMMA SumIs ==
  ASSUME NEW S, IsFiniteSet(S), NEW f
  PROVE  \E g : Adds(g, f, S) /\ SumFunctionOnSet(f, S) = g[S]
<1> DEFINE G == CHOOSE g : Adds(g, f, S)
<1>1. Adds(G, f, S)
  BY AddsExists
<1>2. SumFunctionOnSet(f, S) = G[S]
  BY DEF SumFunctionOnSet, FoldFunctionOnSet, MapThenFoldSet, Adds
<1>3. QED
  BY <1>1, <1>2

\* Nothing adds up to 0.
LEMMA SumOfNone ==
  ASSUME NEW f
  PROVE  SumFunctionOnSet(f, {}) = 0
<1>1. IsFiniteSet({})
  BY FS_EmptySet
<1>2. PICK g : Adds(g, f, {}) /\ SumFunctionOnSet(f, {}) = g[{}]
  BY <1>1, SumIs
<1>3. QED
  BY <1>2 DEF Adds

\* A sum depends on nothing but the values over its set.
LEMMA SumsAgree ==
  ASSUME NEW S, IsFiniteSet(S), NEW f, NEW e, \A x \in S : f[x] = e[x]
  PROVE  SumFunctionOnSet(f, S) = SumFunctionOnSet(e, S)
<1>1. PICK g : Adds(g, f, S) /\ SumFunctionOnSet(f, S) = g[S]
  BY SumIs
<1>2. PICK h : Adds(h, e, S) /\ SumFunctionOnSet(e, S) = h[S]
  BY SumIs
<1>3. g[S] = h[S]
  BY <1>1, <1>2, AddsAgree
<1>4. QED
  BY <1>1, <1>2, <1>3

\* The fold begins with some element and goes on with the others.
LEMMA SumBegins ==
  ASSUME NEW S, IsFiniteSet(S), S # {}, NEW f
  PROVE  \E c \in S : SumFunctionOnSet(f, S) = f[c] + SumFunctionOnSet(f, S \ {c})
<1> DEFINE c == CHOOSE x \in S : TRUE
<1>1. c \in S
  OBVIOUS
<1>2. IsFiniteSet(S \ {c})
  BY FS_Subset
<1>3. PICK g : Adds(g, f, S) /\ SumFunctionOnSet(f, S) = g[S]
  BY SumIs
<1>4. PICK h : Adds(h, f, S \ {c}) /\ SumFunctionOnSet(f, S \ {c}) = h[S \ {c}]
  BY <1>2, SumIs
<1>5. g[S] = f[c] + g[S \ {c}]
  BY <1>3 DEF Adds
<1> HIDE DEF c
<1>6. g[S \ {c}] = h[S \ {c}]
  BY <1>2, <1>3, <1>4, AddsAgree
<1>7. QED
  BY <1>1, <1>3, <1>4, <1>5, <1>6

\* Integers add up to an integer.
LEMMA SumInt ==
  ASSUME NEW S, IsFiniteSet(S), NEW f, \A x \in S : f[x] \in Int
  PROVE  SumFunctionOnSet(f, S) \in Int
<1> DEFINE P == {T \in SUBSET S : SumFunctionOnSet(f, T) \in Int}
<1>1. ASSUME NEW T \in SUBSET S, \A U \in SUBSET T : U # T => U \in P
      PROVE  T \in P
  <2>1. CASE T = {}
    BY <2>1, SumOfNone
  <2>2. CASE T # {}
    <3>1. IsFiniteSet(T)
      BY FS_Subset
    <3>2. PICK c \in T : SumFunctionOnSet(f, T) = f[c] + SumFunctionOnSet(f, T \ {c})
      BY <2>2, <3>1, SumBegins
    <3>3. T \ {c} \in P /\ f[c] \in Int
      BY <1>1
    <3>4. QED
      BY <3>2, <3>3
  <2>3. QED
    BY <2>1, <2>2
<1> HIDE DEF P
<1>2. S \in P
  BY <1>1, SmallerFirst
<1>3. QED
  BY <1>2 DEF P

\* Any element may be taken out of a sum.
LEMMA SumTakeOut ==
  ASSUME NEW S, IsFiniteSet(S), NEW f, \A x \in S : f[x] \in Int, NEW x \in S
  PROVE  SumFunctionOnSet(f, S) = f[x] + SumFunctionOnSet(f, S \ {x})
<1> DEFINE sum(T) == SumFunctionOnSet(f, T)
           P == {T \in SUBSET S : \A y \in T : sum(T) = f[y] + sum(T \ {y})}
<1>1. ASSUME NEW T \in SUBSET S, \A U \in SUBSET T : U # T => U \in P
      PROVE  T \in P
  <2>1. \A U \in SUBSET T : IsFiniteSet(U) /\ sum(U) \in Int
    <3>1. SUFFICES ASSUME NEW U \in SUBSET T PROVE IsFiniteSet(U) /\ sum(U) \in Int
      OBVIOUS
    <3>2. IsFiniteSet(U) /\ \A z \in U : f[z] \in Int
      BY FS_Subset
    <3>3. QED
      BY <3>2, SumInt
  <2>2. ASSUME NEW y \in T
        PROVE  sum(T) = f[y] + sum(T \ {y})
    <3>1. PICK c \in T : sum(T) = f[c] + sum(T \ {c})
      BY <2>1, SumBegins
    <3> HIDE DEF sum
    <3>2. CASE c = y
      BY <3>1, <3>2
    <3>3. CASE c # y
      <4>1. T \ {c} \in P /\ y \in T \ {c} /\ T \ {y} \in P /\ c \in T \ {y}
        BY <1>1, <3>3
      <4>2. sum(T \ {c}) = f[y] + sum((T \ {c}) \ {y})
        BY <4>1
      <4>3. sum(T \ {y}) = f[c] + sum((T \ {y}) \ {c})
        BY <4>1
      <4>4. (T \ {c}) \ {y} = (T \ {y}) \ {c} /\ sum((T \ {y}) \ {c}) \in Int
        BY <2>1
      <4>5. f[c] \in Int /\ f[y] \in Int
        OBVIOUS
      <4>6. PICK m \in Int : m = sum((T \ {c}) \ {y}) /\ m = sum((T \ {y}) \ {c})
        BY <4>4
      <4>7. sum(T \ {c}) = f[y] + m /\ sum(T \ {y}) = f[c] + m
        BY <4>2, <4>3, <4>6
      <4>8. QED
        BY <3>1, <4>5, <4>7
    <3>4. QED
      BY <3>2, <3>3
  <2>3. QED
    BY <2>2
<1> HIDE DEF P
<1>2. S \in P
  BY <1>1, SmallerFirst
<1>3. QED
  BY <1>2 DEF P

\* The value at one element changes.
LEMMA SumChanges ==
  ASSUME NEW S, IsFiniteSet(S), NEW f, NEW e, NEW x \in S,
         \A y \in S : f[y] \in Int /\ e[y] \in Int,
         \A y \in S \ {x} : f[y] = e[y]
  PROVE  SumFunctionOnSet(e, S) = SumFunctionOnSet(f, S) + (e[x] - f[x])
<1>1. IsFiniteSet(S \ {x})
  BY FS_Subset
<1>2. SumFunctionOnSet(f, S) = f[x] + SumFunctionOnSet(f, S \ {x})
  BY SumTakeOut
<1>3. SumFunctionOnSet(e, S) = e[x] + SumFunctionOnSet(e, S \ {x})
  BY SumTakeOut
<1>4. SumFunctionOnSet(e, S \ {x}) = SumFunctionOnSet(f, S \ {x})
  BY <1>1, SumsAgree
<1>5. SumFunctionOnSet(f, S \ {x}) \in Int
  BY <1>1, SumInt
<1>6. QED
  BY <1>2, <1>3, <1>4, <1>5

\* A sum of zeros.
LEMMA SumOfZeros ==
  ASSUME NEW S, IsFiniteSet(S), NEW f, \A x \in S : f[x] = 0
  PROVE  SumFunctionOnSet(f, S) = 0
<1> DEFINE P == {T \in SUBSET S : SumFunctionOnSet(f, T) = 0}
<1>1. ASSUME NEW T \in SUBSET S, \A U \in SUBSET T : U # T => U \in P
      PROVE  T \in P
  <2>1. CASE T = {}
    BY <2>1, SumOfNone
  <2>2. CASE T # {}
    <3>1. PICK c \in T : SumFunctionOnSet(f, T) = f[c] + SumFunctionOnSet(f, T \ {c})
      BY <2>2, FS_Subset, SumBegins
    <3>2. T \ {c} \in P
      BY <1>1
    <3>3. QED
      BY <3>1, <3>2
  <2>3. QED
    BY <2>1, <2>2
<1> HIDE DEF P
<1>2. S \in P
  BY <1>1, SmallerFirst
<1>3. QED
  BY <1>2 DEF P

-----------------------------------------------------------------------------
\* Remainders.
LEMMA RemainderIs ==
  ASSUME NEW W \in Nat \ {0}, NEW a \in Int
  PROVE  a % W \in 0 .. W - 1 /\ a \div W \in Int /\ a = W * (a \div W) + (a % W)
OBVIOUS

\* A number has one remainder.
LEMMA RemainderUnique ==
  ASSUME NEW W \in Nat \ {0}, NEW k \in Int, NEW r \in 0 .. W - 1, NEW j \in Int, NEW s \in 0 .. W - 1,
         W * k + r = W * j + s
  PROVE  r = s
<1>1. CASE k = j
  BY <1>1
<1>2. CASE k > j
  <2>1. W * (k - j) >= W
    BY <1>2
  <2>2. W * (k - j) = s - r
    OBVIOUS
  <2>3. QED
    BY <2>1, <2>2
<1>3. CASE k < j
  <2>1. W * (j - k) >= W
    BY <1>3
  <2>2. W * (j - k) = r - s
    OBVIOUS
  <2>3. QED
    BY <2>1, <2>2
<1>4. QED
  BY <1>1, <1>2, <1>3

\* What counts modulo W may wrap in between.
LEMMA ShiftedRemainder ==
  ASSUME NEW W \in Nat \ {0}, NEW a \in Int, NEW b \in Int, NEW d \in Int
  PROVE  (((a + d) % W) - (b + d)) % W = (a - b) % W
<1> DEFINE x == (a + d) % W
           y == x - (b + d)
           z == a - b
<1>1. x \in Int /\ (a + d) \div W \in Int /\ a + d = W * ((a + d) \div W) + x
  BY RemainderIs
<1> HIDE DEF x
<1>2. y \in Int /\ z \in Int
  BY <1>1
<1>3. PICK k \in Int : a + d = W * k + x
  BY <1>1
<1>4. z = y + W * k
  BY <1>1, <1>3
<1> HIDE DEF y, z
<1>5. PICK q \in Int : y % W \in 0 .. W - 1 /\ y = W * q + (y % W)
  BY <1>2, RemainderIs
<1>6. PICK r \in Int : z % W \in 0 .. W - 1 /\ z = W * r + (z % W)
  BY <1>2, RemainderIs
<1>7. z % W = y % W
  <2>1. k + q \in Int /\ W * (k + q) = W * k + W * q
    OBVIOUS
  <2>2. /\ y % W \in Int /\ z % W \in Int /\ W * k \in Int /\ W * q \in Int
        /\ W * r \in Int
    BY <1>5, <1>6
  <2>3. W * r + (z % W) = W * (k + q) + (y % W)
    BY <1>2, <1>4, <1>5, <1>6, <2>1, <2>2
  <2>4. QED
    BY <1>5, <1>6, <2>1, <2>3, RemainderUnique
<1>8. QED
  BY <1>7 DEF x, y, z

=============================================================================
