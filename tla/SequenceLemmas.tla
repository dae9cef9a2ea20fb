--------------------------- MODULE SequenceLemmas ---------------------------
(***************************************************************************)
(* Lemmas about sequences that grow and shrink at their end, which the     *)
(* proofs about stacks, heaps and output share, and induction and          *)
(* recursion in the form of lemmas about sets of numbers and functions,    *)
(* from the well-foundedness of the naturals.                              *)
(***************************************************************************)
EXTENDS Integers, Sequences, SequenceTheorems, WellFoundedInduction, TLAPS

\* Induction: a set with zero in it and with the successor of each of its members
\* has all natural numbers in it.
LEMMA Induction ==
  ASSUME NEW S \in SUBSET Nat, 0 \in S, \A n \in S : n + 1 \in S
  PROVE  \A n \in Nat : n \in S
<1>. DEFINE R == OpToRel(<, Nat)
            T == Nat \ S
<1>1. IsWellFoundedOn(R, Nat)
  BY NatLessThanWellFounded, Zenon
<1>2. \A a, b \in Nat : a < b => <<a, b>> \in R
  BY DEF OpToRel
<1>. SUFFICES ASSUME T # {}
              PROVE  FALSE
  OBVIOUS
<1>3. T \subseteq Nat
  OBVIOUS
<1>. HIDE DEF T, R
<1>4. PICK x \in T : \A y \in T : ~(<<y, x>> \in R)
  BY <1>1, <1>3, WFMin, Zenon
<1>5. x \in Nat /\ x \notin S /\ x # 0
  BY DEF T
<1>6. x - 1 \in Nat /\ x - 1 < x /\ (x - 1) + 1 = x
  BY <1>5
<1>7. x - 1 \notin S
  BY <1>5, <1>6
<1>8. x - 1 \in T
  BY <1>6, <1>7 DEF T
<1>. QED  BY <1>2, <1>4, <1>5, <1>6, <1>8

\* Induction downwards: what holds of a number when it holds of all that are greater.
LEMMA DownInduction ==
  ASSUME NEW n \in Nat, NEW S,
         \A i \in 1 .. n : (\A j \in 1 .. n : j > i => j \in S) => i \in S
  PROVE  \A i \in 1 .. n : i \in S
<1>. DEFINE T == {m \in Nat : \A i \in 1 .. n : i > n - m => i \in S}
<1>1. 0 \in T
  OBVIOUS
<1>2. ASSUME NEW m \in T
      PROVE  m + 1 \in T
  <2>1. m \in Nat /\ \A i \in 1 .. n : i > n - m => i \in S
    OBVIOUS
  <2>2. ASSUME NEW i \in 1 .. n, i > n - (m + 1)
        PROVE  i \in S
    <3>1. \A j \in 1 .. n : j > i => j > n - m
      BY <2>1, <2>2
    <3>. QED  BY <2>1, <3>1
  <2>. QED  BY <2>1, <2>2
<1>3. T \in SUBSET Nat
  OBVIOUS
<1>. HIDE DEF T
<1>4. n \in T
  BY <1>1, <1>2, <1>3, Induction
<1>. QED  BY <1>4 DEF T

\* What F says of a number depends on what is said of the greater ones only.
LooksAhead(F, G, n) ==
  /\ F \in [G -> G]
  /\ \A g, h \in G : \A i \in 1 .. n :
       (\A j \in 1 .. n : j > i => g[j] = h[j]) => F[g][i] = F[h][i]

\* Recursion downwards: when what is said of a number depends on what is said of
\* the greater ones only, there is a function that says it of every number.
LEMMA DownRecursion ==
  ASSUME NEW n \in Nat, NEW V, V # {}, NEW G, G = [1 .. n -> V], NEW F, LooksAhead(F, G, n)
  PROVE  \E f \in G : f = F[f]
<1>. USE DEF LooksAhead
<1>. DEFINE T == {m \in Nat : \E f \in G : \A i \in 1 .. n : i > n - m => f[i] = F[f][i]}
<1>1. 0 \in T
  <2>1. PICK v \in V : TRUE
    OBVIOUS
  <2>2. [i \in 1 .. n |-> v] \in G
    OBVIOUS
  <2>3. \A i \in 1 .. n : ~(i > n - 0)
    OBVIOUS
  <2>4. \E f \in G : \A i \in 1 .. n : i > n - 0 => f[i] = F[f][i]
    BY <2>2, <2>3
  <2>. QED  BY <2>4
<1>2. ASSUME NEW m \in T
      PROVE  m + 1 \in T
  <2>1. m \in Nat
    OBVIOUS
  <2>2. PICK f \in G : \A i \in 1 .. n : i > n - m => f[i] = F[f][i]
    OBVIOUS
  <2>3. CASE n - m \in 1 .. n
    <3>. DEFINE k == n - m
                v == F[f][k]
                g == [f EXCEPT ![k] = v]
    <3>1. v \in V
      BY <2>3
    <3>2. g \in G /\ g[k] = v /\ \A i \in 1 .. n : i # k => g[i] = f[i]
      <4>. HIDE DEF v
      <4>. QED  BY <2>3, <3>1
    <3>3. k \in Nat /\ k = n - m
      BY <2>1, <2>3
    <3>. HIDE DEF g, v, k
    <3>4. ASSUME NEW i \in 1 .. n, i > n - (m + 1)
          PROVE  g[i] = F[g][i]
      <4>1. i >= k /\ \A j \in 1 .. n : j > i => j # k
        BY <2>1, <3>3, <3>4
      <4>2. \A j \in 1 .. n : j > i => g[j] = f[j]
        BY <3>2, <4>1
      <4>3. F[g][i] = F[f][i]
        BY <3>2, <4>2
      <4>4. CASE i = k
        BY <3>2, <4>3, <4>4 DEF v
      <4>5. CASE i # k
        <5>1. i > n - m
          BY <3>3, <4>1, <4>5
        <5>. QED  BY <2>2, <3>2, <4>3, <4>5, <5>1
      <4>. QED  BY <4>4, <4>5
    <3>. QED  BY <2>1, <3>2, <3>4
  <2>4. CASE n - m \notin 1 .. n
    <3>1. \A i \in 1 .. n : i > n - (m + 1) => i > n - m
      BY <2>1, <2>4
    <3>2. \A i \in 1 .. n : i > n - (m + 1) => f[i] = F[f][i]
      BY <2>2, <3>1
    <3>. QED  BY <2>1, <3>2
  <2>. QED  BY <2>3, <2>4
<1>3. T \in SUBSET Nat
  OBVIOUS
<1>. HIDE DEF T
<1>4. n \in T
  BY <1>1, <1>2, <1>3, Induction
<1>5. PICK f \in G : \A i \in 1 .. n : i > n - n => f[i] = F[f][i]
  BY <1>4 DEF T
<1>6. \A i \in 1 .. n : i > n - n
  OBVIOUS
<1>7. F[f] \in G
  OBVIOUS
<1>. QED  BY <1>5, <1>6, <1>7

\* A set of numbers that is not empty and has an upper bound has a greatest member.
LEMMA GreatestExists ==
  ASSUME NEW n \in Nat, NEW X, X \subseteq 0 .. n, X # {}
  PROVE  \E i \in X : \A j \in X : j <= i
<1>. DEFINE Has(m) == \A Y \in SUBSET (0 .. m) : Y # {} => \E i \in Y : \A j \in Y : j <= i
            S == {m \in Nat : Has(m)}
<1>1. 0 \in S
  <2>1. 0 .. 0 = {0}
    OBVIOUS
  <2>2. ASSUME NEW Y \in SUBSET {0}, Y # {}
        PROVE  \E i \in Y : \A j \in Y : j <= i
    <3>1. 0 \in Y /\ \A j \in Y : j = 0
      BY <2>2
    <3>. QED  BY <3>1
  <2>3. Has(0)
    BY <2>1, <2>2
  <2>. HIDE DEF Has
  <2>. QED  BY <2>3
<1>2. ASSUME NEW m \in S
      PROVE  m + 1 \in S
  <2>1. m \in Nat /\ Has(m)
    OBVIOUS
  <2>2. ASSUME NEW Y \in SUBSET (0 .. m + 1), Y # {}
        PROVE  \E i \in Y : \A j \in Y : j <= i
    <3>1. CASE m + 1 \in Y
      BY <2>1, <3>1
    <3>2. CASE m + 1 \notin Y
      <4>1. Y \subseteq 0 .. m
        <5>1. \A i \in 0 .. m + 1 : i # m + 1 => i \in 0 .. m
          BY <2>1
        <5>. HIDE DEF Has, S
        <5>. QED  BY <3>2, <5>1
      <4>. QED  BY <2>1, <2>2, <4>1, Zenon
    <3>. QED  BY <3>1, <3>2
  <2>3. Has(m + 1)
    BY <2>2
  <2>. HIDE DEF Has
  <2>. QED  BY <2>1, <2>3
<1>3. n \in S
  <2>1. S \in SUBSET Nat
    OBVIOUS
  <2>. HIDE DEF S
  <2>. QED  BY <1>1, <1>2, <2>1, Induction
<1>. QED  BY <1>3

\* The positions of a sequence of n elements and of one that is an element longer.
LEMMA Positions ==
  ASSUME NEW n \in Nat \ {0}
  PROVE  /\ n \in 1 .. n /\ n + 1 \in 1 .. n + 1
         /\ \A i \in 1 .. n - 1 : i \in 1 .. n /\ i + 1 \in 1 .. n /\ i # n
         /\ \A i \in 1 .. n : i # n => i \in 1 .. n - 1
         /\ \A i \in 1 .. (n + 1) - 1 : i # n => i \in 1 .. n - 1
         /\ \A i \in 1 .. n + 1 : i # n + 1 => i \in 1 .. n
  OBVIOUS

\* The last element replaced: the rest stays.
LEMMA SeqReplaceLast ==
  ASSUME NEW S, NEW s \in Seq(S), s # <<>>, NEW f \in S,
         NEW r, r = [s EXCEPT ![Len(s)] = f]
  PROVE  /\ r \in Seq(S) /\ r # <<>> /\ Len(r) = Len(s) /\ DOMAIN r = DOMAIN s
         /\ r[Len(r)] = f
         /\ \A i \in DOMAIN s : r[i] = IF i = Len(s) THEN f ELSE s[i]
<1>1. Len(s) \in Nat \ {0} /\ DOMAIN s = 1 .. Len(s)
  BY LenProperties, EmptySeq
<1>2. r \in Seq(S) /\ Len(r) = Len(s)
  BY <1>1, ExceptSeq
<1>3. DOMAIN r = DOMAIN s
  BY <1>1
<1>4. r # <<>>
  BY <1>1, <1>2, EmptySeq
<1>. QED  BY <1>1, <1>2, <1>3, <1>4

\* The last element removed.
LEMMA SeqPop ==
  ASSUME NEW S, NEW s \in Seq(S), s # <<>>, NEW r, r = SubSeq(s, 1, Len(s) - 1)
  PROVE  /\ r \in Seq(S) /\ Len(r) = Len(s) - 1
         /\ DOMAIN r = 1 .. Len(s) - 1
         /\ \A i \in 1 .. Len(s) - 1 : r[i] = s[i]
<1>1. Len(s) \in Nat \ {0}
  BY LenProperties, EmptySeq
<1>2. \A i \in 1 .. Len(s) - 1 : s[i] \in S
  BY <1>1, LenProperties
<1>3. /\ r \in Seq(S)
      /\ Len(r) = IF 1 <= Len(s) - 1 THEN (Len(s) - 1) - 1 + 1 ELSE 0
      /\ \A i \in 1 .. (Len(s) - 1) - 1 + 1 : r[i] = s[1 + i - 1]
  BY <1>1, <1>2, SubSeqProperties
<1>4. Len(r) = Len(s) - 1
  <2>1. \A n \in Nat \ {0} : (IF 1 <= n - 1 THEN (n - 1) - 1 + 1 ELSE 0) = n - 1
    OBVIOUS
  <2>. QED  BY <1>1, <1>3, <2>1, Zenon
<1>5. DOMAIN r = 1 .. Len(s) - 1
  BY <1>3, <1>4, LenProperties
<1>6. \A i \in 1 .. Len(s) - 1 : r[i] = s[i]
  BY <1>1, <1>3
<1>. QED  BY <1>3, <1>4, <1>5, <1>6

\* The first elements.
LEMMA SeqPrefix ==
  ASSUME NEW S, NEW s \in Seq(S), NEW n \in 0 .. Len(s), NEW r, r = SubSeq(s, 1, n)
  PROVE  /\ r \in Seq(S) /\ Len(r) = n /\ DOMAIN r = 1 .. n
         /\ \A i \in 1 .. n : r[i] = s[i]
<1>1. Len(s) \in Nat /\ n \in Nat /\ n <= Len(s)
  BY LenProperties
<1>2. \A i \in 1 .. n : s[i] \in S
  BY <1>1, LenProperties
<1>3. /\ r \in Seq(S)
      /\ Len(r) = IF 1 <= n THEN n - 1 + 1 ELSE 0
      /\ \A i \in 1 .. n - 1 + 1 : r[i] = s[1 + i - 1]
  BY <1>1, <1>2, SubSeqProperties
<1>4. Len(r) = n
  <2>1. \A k \in Nat : (IF 1 <= k THEN k - 1 + 1 ELSE 0) = k
    OBVIOUS
  <2>. QED  BY <1>1, <1>3, <2>1, Zenon
<1>5. DOMAIN r = 1 .. n
  BY <1>3, <1>4, LenProperties
<1>6. \A i \in 1 .. n : r[i] = s[i]
  BY <1>1, <1>3
<1>. QED  BY <1>3, <1>4, <1>5, <1>6

\* One element or two, as a sequence.
LEMMA SeqParts ==
  ASSUME NEW S, NEW s \in Seq(S), NEW i \in 1 .. Len(s)
  PROVE  /\ SubSeq(s, i, i) = <<s[i]>>
         /\ i + 1 <= Len(s) => SubSeq(s, i, i + 1) = <<s[i], s[i + 1]>>
<1>1. SubSeq(s, i, i) = <<s[i]>>
  <2>. DEFINE r == SubSeq(s, i, i)
  <2>1. \A j \in i .. i : s[j] \in S
    OBVIOUS
  <2>2. r \in Seq(S) /\ Len(r) = 1 /\ \A k \in 1 .. 1 : r[k] = s[i + k - 1]
    BY <2>1, SubSeqProperties
  <2>3. r[1] = s[i] /\ <<s[i]>> \in Seq(S)
    BY <2>1, <2>2
  <2>. HIDE DEF r
  <2>4. r = <<s[i]>>
    BY <2>2, <2>3, SeqEqual
  <2>. QED  BY <2>4 DEF r
<1>2. ASSUME i + 1 <= Len(s)
      PROVE  SubSeq(s, i, i + 1) = <<s[i], s[i + 1]>>
  <2>. DEFINE r == SubSeq(s, i, i + 1)
  <2>1. \A j \in i .. i + 1 : s[j] \in S
    BY <1>2
  <2>2. r \in Seq(S) /\ Len(r) = 2 /\ \A k \in 1 .. 2 : r[k] = s[i + k - 1]
    BY <1>2, <2>1, SubSeqProperties
  <2>3. r[1] = s[i] /\ r[2] = s[i + 1] /\ <<s[i], s[i + 1]>> \in Seq(S)
    BY <1>2, <2>1, <2>2
  <2>. HIDE DEF r
  <2>4. r = <<s[i], s[i + 1]>>
    BY <2>2, <2>3, SeqEqual
  <2>. QED  BY <2>4 DEF r
<1>. QED  BY <1>1, <1>2

\* An element added at the end.
LEMMA SeqPush ==
  ASSUME NEW S, NEW s \in Seq(S), NEW g \in S, NEW r, r = Append(s, g)
  PROVE  /\ r \in Seq(S) /\ r # <<>> /\ Len(r) = Len(s) + 1
         /\ \A i \in 1 .. Len(s) : r[i] = s[i]
         /\ r[Len(r)] = g
  BY AppendProperties, LenProperties

\* What was put behind a sequence is of the type of its elements.
LEMMA LastPushed ==
  ASSUME NEW S, NEW s \in Seq(S), NEW x, Append(s, x) \in Seq(S)
  PROVE  x \in S
<1>. DEFINE T == S \union {x}
<1>1. s \in Seq(T) /\ x \in T
  <2>1. S \subseteq T
    OBVIOUS
  <2>. QED  BY <2>1, SeqMonotonic
<1>. HIDE DEF T
<1>2. Append(s, x)[Len(s) + 1] = x /\ Len(Append(s, x)) = Len(s) + 1
  BY <1>1, AppendProperties
<1>3. Len(s) + 1 \in 1 .. Len(s) + 1
  BY LenProperties
<1>. QED  BY <1>2, <1>3, ElementOfSeq

\* The last element replaced and another one added: a call.
LEMMA SeqReplaceLastPush ==
  ASSUME NEW S, NEW s \in Seq(S), s # <<>>, NEW f \in S, NEW g \in S,
         NEW r, r = Append([s EXCEPT ![Len(s)] = f], g)
  PROVE  /\ r \in Seq(S) /\ r # <<>> /\ Len(r) = Len(s) + 1
         /\ DOMAIN r = 1 .. Len(s) + 1
         /\ r[Len(r)] = g
         /\ \A i \in DOMAIN s : r[i] = IF i = Len(s) THEN f ELSE s[i]
<1>1. /\ [s EXCEPT ![Len(s)] = f] \in Seq(S)
      /\ Len([s EXCEPT ![Len(s)] = f]) = Len(s)
      /\ \A i \in DOMAIN s : [s EXCEPT ![Len(s)] = f][i] = IF i = Len(s) THEN f ELSE s[i]
  BY SeqReplaceLast
<1>3. /\ r \in Seq(S) /\ r # <<>> /\ Len(r) = Len(s) + 1
      /\ \A i \in 1 .. Len(s) : r[i] = [s EXCEPT ![Len(s)] = f][i]
      /\ r[Len(r)] = g
  <2>1. PICK t \in Seq(S) : t = [s EXCEPT ![Len(s)] = f]
    BY <1>1
  <2>2. r = Append(t, g) /\ Len(t) = Len(s)
    BY <1>1, <2>1
  <2>3. /\ r \in Seq(S) /\ r # <<>> /\ Len(r) = Len(t) + 1
        /\ \A i \in 1 .. Len(t) : r[i] = t[i]
        /\ r[Len(r)] = g
    BY <2>2, SeqPush
  <2>. QED  BY <2>1, <2>2, <2>3
<1>4. DOMAIN r = 1 .. Len(s) + 1 /\ DOMAIN s = 1 .. Len(s)
  BY <1>3, LenProperties
<1>. QED  BY <1>1, <1>3, <1>4

\* An element added at the end, or at the beginning of what follows.
LEMMA AppendConcat ==
  ASSUME NEW S, NEW s \in Seq(S), NEW t \in Seq(S), NEW x \in S
  PROVE  Append(s, x) \o t = s \o (<<x>> \o t)
<1>1. Append(s, x) = s \o <<x>> /\ <<x>> \in Seq(S)
  BY AppendIsConcat
<1>. QED  BY <1>1, ConcatAssociative

\* A sequence that is one and then another is their concatenation.
LEMMA ConcatEqual ==
  ASSUME NEW S, NEW s \in Seq(S), NEW t \in Seq(S), NEW r \in Seq(S), Len(r) = Len(s) + Len(t),
         \A i \in 1 .. Len(s) : r[i] = s[i], \A i \in 1 .. Len(t) : r[Len(s) + i] = t[i]
  PROVE  s \o t = r
<1>1. /\ s \o t \in Seq(S) /\ Len(s \o t) = Len(s) + Len(t)
      /\ \A i \in 1 .. Len(s) + Len(t) : (s \o t)[i] = IF i <= Len(s) THEN s[i] ELSE t[i - Len(s)]
  BY ConcatProperties
<1>2. Len(s) \in Nat /\ Len(t) \in Nat
  OBVIOUS
<1>3. ASSUME NEW i \in 1 .. Len(s) + Len(t)
      PROVE  (s \o t)[i] = r[i]
  <2>1. CASE i <= Len(s)
    BY <1>1, <1>2, <2>1
  <2>2. CASE ~(i <= Len(s))
    <3>1. i - Len(s) \in 1 .. Len(t) /\ Len(s) + (i - Len(s)) = i
      BY <1>2, <2>2
    <3>. QED  BY <1>1, <2>2, <3>1
  <2>. QED  BY <2>1, <2>2
<1>. QED  BY <1>1, <1>3, SeqEqual

\* Head and tail of a concatenation.
LEMMA HeadTailConcat ==
  ASSUME NEW S, NEW s \in Seq(S), NEW t \in Seq(S), s # <<>>
  PROVE  s \o t # <<>> /\ Head(s \o t) = Head(s) /\ Tail(s \o t) = Tail(s) \o t
<1>1. /\ s \o t \in Seq(S) /\ Len(s \o t) = Len(s) + Len(t)
      /\ \A i \in 1 .. Len(s) + Len(t) : (s \o t)[i] = IF i <= Len(s) THEN s[i] ELSE t[i - Len(s)]
  BY ConcatProperties
<1>2. Len(s) \in Nat \ {0} /\ Len(t) \in Nat
  BY LenProperties, EmptySeq
<1>3. s \o t # <<>>
  BY <1>1, <1>2, EmptySeq
<1>4. /\ Tail(s) \in Seq(S) /\ Len(Tail(s)) = Len(s) - 1
      /\ \A i \in 1 .. Len(Tail(s)) : Tail(s)[i] = s[i + 1]
  BY HeadTailProperties
<1>5. /\ Tail(s \o t) \in Seq(S) /\ Len(Tail(s \o t)) = Len(s) + Len(t) - 1
      /\ \A i \in 1 .. Len(Tail(s \o t)) : Tail(s \o t)[i] = (s \o t)[i + 1]
  BY <1>1, <1>3, HeadTailProperties
<1>6. Len(Tail(s \o t)) = Len(Tail(s)) + Len(t)
  BY <1>2, <1>4, <1>5
<1>7. ASSUME NEW i \in 1 .. Len(Tail(s))
      PROVE  Tail(s \o t)[i] = Tail(s)[i]
  <2>1. i \in 1 .. Len(s) - 1
    BY <1>4
  <2>2. i \in 1 .. Len(s) + Len(t) - 1 /\ i + 1 \in 1 .. Len(s) + Len(t) /\ i + 1 <= Len(s)
    BY <2>1, <1>2
  <2>. QED  BY <2>2, <1>1, <1>4, <1>5
<1>8. ASSUME NEW i \in 1 .. Len(t)
      PROVE  Tail(s \o t)[Len(Tail(s)) + i] = t[i]
  <2>1. /\ Len(Tail(s)) + i = Len(s) - 1 + i
        /\ Len(s) - 1 + i \in 1 .. Len(s) + Len(t) - 1
        /\ (Len(s) - 1 + i) + 1 = Len(s) + i
        /\ Len(s) + i \in 1 .. Len(s) + Len(t) /\ ~(Len(s) + i <= Len(s))
        /\ (Len(s) + i) - Len(s) = i
    BY <1>2, <1>4
  <2>2. Tail(s \o t)[Len(s) - 1 + i] = (s \o t)[Len(s) + i]
    BY <2>1, <1>5
  <2>. QED  BY <2>1, <2>2, <1>1
<1>9. Tail(s) \o t = Tail(s \o t)
  BY <1>4, <1>5, <1>6, <1>7, <1>8, ConcatEqual
<1>10. Head(s \o t) = Head(s)
  BY <1>1, <1>2
<1>. QED  BY <1>3, <1>9, <1>10

\* The heights of a stack on which each open node has pushed so many: m goes from
\* what was on it before any was opened to what is on it now.
Sums(base, scopes, open, m) ==
  /\ m \in [0 .. Len(open) -> Nat] /\ m[0] = Len(base) /\ m[Len(open)] = Len(scopes)
  /\ \A k \in 1 .. Len(open) : m[k] = m[k - 1] + open[k]
  /\ \A j, k \in 0 .. Len(open) : j <= k => m[j] <= m[k]

\* They are those of m as far as that goes.
SumsFrom(base, scopes, open, m2, n, m) == Sums(base, scopes, open, m2) /\ \A k \in 0 .. n : m2[k] = m[k]

\* The heights of the stack, one node more.
LEMMA SumsPush ==
  ASSUME NEW base, NEW scopes, NEW open \in Seq(Nat), NEW m, Sums(base, scopes, open, m), NEW l \in Nat,
         NEW s2, Len(s2) = Len(scopes) + l, NEW o2, o2 = Append(open, l)
  PROVE  \E m2 : SumsFrom(base, s2, o2, m2, Len(open), m)
<1>6. PICK n \in Nat : n = Len(open)
  BY LenProperties
<1>8. o2 \in Seq(Nat) /\ Len(o2) = n + 1 /\ o2[n + 1] = l /\ \A k \in 1 .. n : o2[k] = open[k]
  BY <1>6, SeqPush
<1>10. /\ m \in [0 .. n -> Nat] /\ m[0] = Len(base) /\ m[n] = Len(scopes)
       /\ \A k \in 1 .. n : m[k] = m[k - 1] + open[k]
       /\ \A j, k \in 0 .. n : j <= k => m[j] <= m[k]
  BY <1>6 DEF Sums
<1>. DEFINE m2 == [k \in 0 .. (n + 1) |-> IF k = n + 1 THEN m[n] + l ELSE m[k]]
<1>11. n \in 0 .. n /\ m[n] \in Nat /\ \A k \in 0 .. n : m[k] \in Nat /\ m[k] <= m[n]
  <2>1. n \in 0 .. n /\ \A k \in 0 .. n : k <= n
    OBVIOUS
  <2>. QED  BY <1>10, <2>1
<1>12. /\ \A k \in 0 .. n : k \in 0 .. (n + 1) /\ k # n + 1
       /\ \A k \in 0 .. (n + 1) : k # n + 1 => k \in 0 .. n
       /\ n + 1 \in 0 .. (n + 1) /\ 0 # n + 1
  OBVIOUS
<1>13. m2[n + 1] = m[n] + l /\ \A k \in 0 .. n : m2[k] = m[k]
  BY <1>12
<1>14. m2 \in [0 .. (n + 1) -> Nat]
  <2>1. m[n] + l \in Nat
    BY <1>11
  <2>. QED  BY <1>11, <1>12, <2>1
<1>. HIDE DEF m2
<1>15. ASSUME NEW k \in 1 .. (n + 1)
       PROVE  m2[k] = m2[k - 1] + o2[k]
  <2>1. CASE k = n + 1
    <3>1. k - 1 = n
      BY <2>1
    <3>. QED  BY <1>8, <1>11, <1>13, <2>1, <3>1
  <2>2. CASE k # n + 1
    <3>1. k \in 1 .. n /\ k \in 0 .. n /\ k - 1 \in 0 .. n
      BY <2>2
    <3>. QED  BY <1>8, <1>10, <1>13, <3>1
  <2>. QED  BY <2>1, <2>2
<1>16. ASSUME NEW j \in 0 .. (n + 1), NEW k \in 0 .. (n + 1), j <= k
       PROVE  m2[j] <= m2[k]
  <2>1. CASE k = n + 1
    <3>1. CASE j = n + 1
      <4>1. m2[j] \in Nat
        BY <1>14
      <4>. QED  BY <2>1, <3>1, <4>1
    <3>2. CASE j # n + 1
      <4>1. j \in 0 .. n
        BY <3>2
      <4>2. m[j] \in Nat /\ m[j] <= m[n]
        BY <1>11, <4>1
      <4>3. m2[j] = m[j] /\ m2[k] = m[n] + l
        BY <1>13, <2>1, <4>1
      <4>4. \A x, y, z \in Nat : x <= y => x <= y + z
        OBVIOUS
      <4>. QED  BY <1>11, <4>2, <4>3, <4>4
    <3>. QED  BY <3>1, <3>2
  <2>2. CASE k # n + 1
    <3>1. j \in 0 .. n /\ k \in 0 .. n
      BY <1>16, <2>2
    <3>. QED  BY <1>10, <1>13, <1>16, <3>1
  <2>. QED  BY <2>1, <2>2
<1>17. m2[0] = Len(base) /\ m2[n + 1] = Len(s2)
  <2>1. 0 \in 0 .. n
    OBVIOUS
  <2>. QED  BY <1>10, <1>13, <2>1
<1>18. Sums(base, s2, o2, m2)
  BY <1>8, <1>14, <1>15, <1>16, <1>17 DEF Sums
<1>19. \A k \in 0 .. Len(open) : m2[k] = m[k]
  BY <1>6, <1>13
<1>. QED  BY <1>18, <1>19, Zenon DEF SumsFrom

\* And one node less.
LEMMA SumsPop ==
  ASSUME NEW base, NEW scopes, NEW open \in Seq(Nat), open # <<>>, NEW m, Sums(base, scopes, open, m),
         NEW s2, Len(s2) = Len(scopes) - open[Len(open)], NEW o2, o2 = SubSeq(open, 1, Len(open) - 1)
  PROVE  \E m2 : SumsFrom(base, s2, o2, m2, Len(open) - 1, m)
<1>3. PICK n \in Nat : Len(open) = n + 1
  <2>1. Len(open) \in Nat /\ Len(open) # 0
    BY LenProperties, EmptySeq
  <2>2. Len(open) - 1 \in Nat /\ Len(open) = (Len(open) - 1) + 1
    BY <2>1
  <2>. QED  BY <2>2
<1>4. DOMAIN open = 1 .. (n + 1) /\ n + 1 \in DOMAIN open /\ open[n + 1] \in Nat /\ (n + 1) - 1 = n
  <2>1. DOMAIN open = 1 .. (n + 1)
    BY <1>3, LenProperties
  <2>2. n + 1 \in DOMAIN open /\ (n + 1) - 1 = n
    BY <2>1
  <2>3. open[n + 1] \in Nat
    BY <2>2
  <2>. QED  BY <2>1, <2>2, <2>3
<1>5. PICK l \in Nat : l = open[n + 1]
  BY <1>4
<1>6. PICK ls : ls = Len(scopes)
  OBVIOUS
<1>7. /\ m \in [0 .. (n + 1) -> Nat] /\ m[0] = Len(base) /\ m[n + 1] = ls
      /\ \A k \in 1 .. (n + 1) : m[k] = m[k - 1] + open[k]
      /\ \A j, k \in 0 .. (n + 1) : j <= k => m[j] <= m[k]
  BY <1>3, <1>6 DEF Sums
<1>8. m[n] \in Nat /\ ls = m[n] + l
  <2>1. n \in 0 .. (n + 1) /\ n + 1 \in 1 .. (n + 1) /\ (n + 1) - 1 = n
    OBVIOUS
  <2>. QED  BY <1>5, <1>7, <2>1
<1>9. ls - l = m[n]
  <2>1. PICK v \in Nat : v = m[n] /\ ls = v + l
    BY <1>8
  <2>. QED  BY <2>1
<1>11. Len(s2) = ls - l
  BY <1>3, <1>5, <1>6
<1>12. o2 = SubSeq(open, 1, n) /\ n \in 0 .. Len(open)
  BY <1>3, <1>4
<1>13. o2 \in Seq(Nat) /\ Len(o2) = n /\ DOMAIN o2 = 1 .. n /\ \A k \in 1 .. n : o2[k] = open[k]
  <2>1. PICK c \in Seq(Nat) : c = open
    OBVIOUS
  <2>2. PICK q : q = SubSeq(c, 1, n)
    OBVIOUS
  <2>3. q \in Seq(Nat) /\ Len(q) = n /\ DOMAIN q = 1 .. n /\ \A k \in 1 .. n : q[k] = c[k]
    <3>1. n \in 0 .. Len(c)
      BY <1>12, <2>1
    <3>. QED  BY <2>2, <3>1, SeqPrefix
  <2>. QED  BY <1>12, <2>1, <2>2, <2>3
<1>. DEFINE m2 == [k \in 0 .. n |-> m[k]]
<1>14. \A k \in 0 .. n : k \in 0 .. (n + 1) /\ m2[k] = m[k]
  OBVIOUS
<1>15. m2 \in [0 .. n -> Nat]
  BY <1>7, <1>14
<1>. HIDE DEF m2
<1>16. Sums(base, s2, o2, m2)
  <2>1. m2[0] = Len(base) /\ m2[n] = Len(s2)
    <3>1. 0 \in 0 .. n /\ n \in 0 .. n
      OBVIOUS
    <3>. QED  BY <1>7, <1>9, <1>11, <1>14, <3>1
  <2>2. \A k \in 1 .. n : m2[k] = m2[k - 1] + o2[k]
    <3>1. \A k \in 1 .. n : k \in 0 .. n /\ k - 1 \in 0 .. n /\ k \in 1 .. (n + 1)
      OBVIOUS
    <3>. QED  BY <1>7, <1>13, <1>14, <3>1
  <2>3. \A j, k \in 0 .. n : j <= k => m2[j] <= m2[k]
    BY <1>7, <1>14
  <2>. QED  BY <1>13, <1>15, <2>1, <2>2, <2>3 DEF Sums
<1>17. \A k \in 0 .. (Len(open) - 1) : m2[k] = m[k]
  BY <1>3, <1>14
<1>. QED  BY <1>16, <1>17, Zenon DEF SumsFrom

\* The heights of a stack.
LEMMA SumsBound ==
  ASSUME NEW base, NEW scopes, NEW open, NEW m, Sums(base, scopes, open, m), NEW n \in Nat, n = Len(open)
  PROVE  m[n] = Len(scopes) /\ \A k \in 0 .. n : m[k] \in Nat /\ m[k] <= Len(scopes)
<1>1. /\ m \in [0 .. n -> Nat] /\ m[n] = Len(scopes) /\ \A j, k \in 0 .. n : j <= k => m[j] <= m[k]
  BY DEF Sums
<1>2. n \in 0 .. n /\ \A k \in 0 .. n : k <= n
  OBVIOUS
<1>3. \A k \in 0 .. n : m[k] <= m[n]
  BY <1>1, <1>2
<1>. QED  BY <1>1, <1>3
=============================================================================
